---------------------------- MODULE MCConversion ----------------------------
(***************************************************************************)
(* Instances of Conversion for TLC: small images with code, an import      *)
(* table, data and a TLS directory, in every combination of the features   *)
(* the converter treats differently.                                       *)
(***************************************************************************)
EXTENDS Conversion

Base == 1000

Sec(va, virtsz, rawsz, w, x, pdata) ==
  [va |-> va, virtsz |-> virtsz, rawsz |-> rawsz, w |-> w, x |-> x, pdata |-> pdata]

\* .text, .rdata with the import tables, .data with a tail of zeros, .pdata
\* and .rdata of a second image merged into the first.
Sections == << Sec(8, 2, 3, FALSE, TRUE, FALSE), Sec(16, 5, 6, FALSE, FALSE, FALSE),
               Sec(24, 8, 6, TRUE, FALSE, FALSE), Sec(32, 1, 1, FALSE, FALSE, TRUE),
               Sec(40, 2, 2, FALSE, FALSE, FALSE) >>

\* The import tables of .rdata start at 16, the TLS directory is at 24; the
\* words that hold pointers point into the image.
Data(truncated) ==
  [rva \in (8 .. 10) \cup (16 .. 21) \cup (24 .. 29) \cup {32}
           \cup (IF truncated THEN {40} ELSE 40 .. 41) |->
     CASE rva = 20 -> Base + 8
       [] rva = 24 -> Base + 29      \* StartAddressOfRawData
       [] rva = 25 -> Base + 28      \* EndAddressOfRawData, before the start
       [] rva = 26 -> Base + 30      \* AddressOfIndex
       [] rva = 27 -> Base + 20      \* AddressOfCallBacks
       [] rva = 40 -> Base + 9
       [] OTHER    -> rva]

Desc(dll, named, iat, ilt, entries) ==
  [dll |-> dll, named |-> named, iat |-> iat, ilt |-> ilt, entries |-> entries]
Named(f)   == [ordinal |-> -1, fn |-> f]
Ordinal(k) == [ordinal |-> k, fn |-> ""]

\* Import tables: one DLL; the same DLL twice under two spellings; a table
\* outside .rdata; ordinals with and without a name; entries to skip.
DescChoices ==
  { << Desc("KERNEL32.dll", TRUE, 16, TRUE, <<Named("Open"), Named("Close")>>) >>,
    << Desc("KERNEL32.dll", TRUE, 16, TRUE, <<Named("Open")>>),
       Desc("kernel32", TRUE, 18, TRUE, <<Named("Close"), Named("Open")>>) >>,
    << Desc("KERNEL32.dll", TRUE, 16, TRUE, <<Named("Open")>>),
       Desc("WSOCK32.dll", TRUE, 41, TRUE, <<Ordinal(3), Named("Close")>>) >>,
    << Desc("WSOCK32.dll", TRUE, 17, TRUE, <<Ordinal(1)>>) >>,
    << Desc("USER32.dll", TRUE, 17, TRUE, <<Ordinal(1)>>) >>,
    << Desc("KERNEL32.dll", FALSE, 16, TRUE, <<Named("Open")>>),
       Desc("KERNEL32.dll", TRUE, 0, TRUE, <<Named("Open")>>),
       Desc("KERNEL32.dll", TRUE, 17, FALSE, <<Named("Close")>>),
       Desc("KERNEL32.dll", TRUE, 18, TRUE, <<Named(""), Named("Close")>>) >>,
    << Desc("USER32.dll", TRUE, 16, TRUE, <<Named("Missing")>>) >>,
    <<>> }

Dir64(rva) == [type |-> 10, rva |-> rva]
TlsSites == << Dir64(24), Dir64(25), Dir64(26), Dir64(27) >>

\* Base relocations: none, a pointer in .rdata, also one of an IAT slot, one
\* outside the image and a padding entry, one in the merged section.
SiteChoices ==
  { <<>>, << Dir64(20) >>, << Dir64(16), Dir64(20), Dir64(60), [type |-> 0, rva |-> 16] >>,
    << Dir64(40), [type |-> 3, rva |-> 9] >> }

Images ==
  {[base |-> Base, ep |-> 9, secs |-> Sections, data |-> Data(cut), descs |-> d,
    sites |-> s \o (IF t # 0 THEN TlsSites ELSE <<>>), tls |-> t, rets |-> r, lost |-> {}] :
     cut \in BOOLEAN, d \in DescChoices, s \in SiteChoices, t \in {0, 24}, r \in {{}, {10, 29}}}

\* Images with a directory outside its sections.
Lost == {[i EXCEPT !.lost = {d}] :
           i \in {i \in Images : i.sites = <<>> /\ i.rets = {}}, d \in {"imports", "relocs"}}

Opt(pie, so, strip, to) == [pie |-> pie, so |-> so, strip_pdata |-> strip, base |-> to]

\* Every way of converting that the documentation offers, except --pie of an
\* image with a TLS directory (see PieJobs) and --base together with --pie.
MCJobs ==
  {[img |-> i, opt |-> o] : i \in Images \cup Lost,
     o \in {Opt(FALSE, FALSE, FALSE, 0), Opt(FALSE, FALSE, TRUE, 1000), Opt(FALSE, FALSE, FALSE, 5000),
            Opt(FALSE, TRUE, FALSE, 0)}}
  \cup {[img |-> i, opt |-> Opt(TRUE, FALSE, TRUE, 0)] : i \in {i \in Images : i.tls = 0}}

\* --pie of images with a TLS directory.
PieJobs == {[img |-> i, opt |-> Opt(TRUE, FALSE, FALSE, 0)] : i \in {i \in Images : i.tls # 0}}

MCPrefix   == [d \in {"KERNEL32.dll", "kernel32", "USER32.dll", "WSOCK32.dll"} |->
                 CASE d = "USER32.dll" -> "user32" [] d = "WSOCK32.dll" -> "wsock32"
                   [] OTHER -> "kernel32"]
MCDllFiles == [d \in {"WSOCK32.dll"} |-> [base |-> 2, names |-> [k \in {1} |-> "Open"]]]
MCExports  == [s \in {<<"kernel32", "Open">>, <<"kernel32", "Close">>, <<"wsock32", "Open">>,
                      <<"wsock32", "Close">>, ShimRegisterTls} |->
                 CASE s = <<"kernel32", "Open">>  -> 9001 [] s = <<"kernel32", "Close">> -> 9002
                   [] s = <<"wsock32", "Open">>   -> 9003 [] s = <<"wsock32", "Close">>  -> 9004
                   [] s = ShimRegisterTls         -> 9005]
\* Hashes that collide for two of the symbols.
MCHash == [s \in DOMAIN MCExports \cup {Entrypoint, <<"user32", "Missing">>} |->
             CASE s = <<"kernel32", "Open">> -> 7 [] s = <<"kernel32", "Close">> -> 11
               [] s = Entrypoint -> 7 [] OTHER -> 2]

\* The theorems apply to all of them.
ASSUME SoundJobs ==
  \A j \in MCJobs : OwnNames(j) /\ StripsInert(j) /\ SitesSound(j) /\ TlsSound(j)
=============================================================================
