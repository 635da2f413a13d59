----------------------------- MODULE Conversion -----------------------------
(***************************************************************************)
(* What the converter writes and what becomes of it: imports, base         *)
(* relocations and the TLS directory are read from the PE image (PeImage), *)
(* turned into dynamic symbols, a hash table, ELF relocations and the      *)
(* startup trampoline (Builder), mapped and relocated by the dynamic       *)
(* loader, and entered (directly, or by load.cpp through dlsym).           *)
(*                                                                         *)
(* Addresses count words of 8 bytes.  The file buffer is a function from   *)
(* the RVAs whose raw data is in the file to words; where things are in    *)
(* the output file is ElfLayout's subject.  A symbol is the pair of its    *)
(* DLL's prefix and its function name.                                     *)
(***************************************************************************)
EXTENDS Integers, Sequences, FiniteSets

CONSTANTS
  Jobs,      \* the images to convert, each with the options given
  Biases,    \* distances from the linked address at which ld.so may map an ET_DYN
  Prefix,    \* DLL name, as imported -> lower case, without extension
  DllFiles,  \* DLL name -> the export table of its file under dll/
  Exports,   \* symbol -> its address in winapi_shim.so
  Hash,      \* symbol -> elf_sysv_hash of its name
  Gap,       \* how far below the image the trampoline is
  MaxJump    \* reach of a rel32

\* Words of the trampoline: code, the slot the loader binds, ShimTlsInfo.
SlotOff == 3
InfoOff == 4
kTrampolineWords == 10
InfoFields == <<"template", "size", "zero_fill", "align", "index", "callbacks">>

Entrypoint      == <<"", "entrypoint">>
ShimRegisterTls == <<"shim", "register_tls">>

Larger(a, b) == IF a >= b THEN a ELSE b

\* Section s of the image occupies these RVAs, the first rawsz of them with
\* data from the file.
Rvas(sec)   == sec.va .. sec.va + Larger(sec.virtsz, sec.rawsz) - 1
RawRvas(sec) == sec.va .. sec.va + sec.rawsz - 1

Section == [va : Nat, virtsz : Nat, rawsz : Nat, w : BOOLEAN, x : BOOLEAN, pdata : BOOLEAN]

\* An import descriptor: of which DLL, whether its name and its lookup table
\* are in a section, where its slots begin, and its entries.
Descriptor == [dll : DOMAIN Prefix, named : BOOLEAN, iat : Nat, ilt : BOOLEAN,
               entries : Seq([ordinal : Nat \cup {-1}, fn : STRING])]

IsImage(i) ==
  /\ i.base \in Nat /\ i.ep \in Nat
  /\ i.secs \in Seq(Section)
  /\ i.descs \in Seq(Descriptor)
  /\ i.sites \in Seq([type : 0 .. 15, rva : Nat])   \* entries of the base relocations
  /\ DOMAIN i.data \subseteq Nat /\ i.data \in [DOMAIN i.data -> Int]
  /\ i.lost \subseteq {"imports", "relocs"}         \* directories outside every section
  /\ i.tls \in Nat              \* RVA of the TLS directory, 0 if there is none
  /\ i.rets \subseteq Nat       \* RVAs of words that hold a RET

Option == [pie : BOOLEAN, so : BOOLEAN, strip_pdata : BOOLEAN, base : Nat]

\* resolve_ordinal_import: "" without the DLL's file or without a name there.
resolve_ordinal(dll, ordinal) ==
  IF dll \in DOMAIN DllFiles /\ ordinal >= DllFiles[dll].base
     /\ ordinal - DllFiles[dll].base \in DOMAIN DllFiles[dll].names
  THEN DllFiles[dll].names[ordinal - DllFiles[dll].base] ELSE ""

FuncName(dll, e) == IF e.ordinal >= 0 THEN resolve_ordinal(dll, e.ordinal) ELSE e.fn

\* A descriptor that is passed over.
Skipped(d) == ~d.named \/ d.iat = 0 \/ ~d.ilt

\* The entries of the import tables of an image, by descriptor and place in
\* its table.
Entries(i) == UNION {{d} \X (1 .. Len(i.descs[d].entries)) : d \in 1 .. Len(i.descs)}

NameOf(i, e)   == FuncName(i.descs[e[1]].dll, i.descs[e[1]].entries[e[2]])
SymbolOf(i, e) == <<Prefix[i.descs[e[1]].dll], NameOf(i, e)>>
SlotOf(i, e)   == i.descs[e[1]].iat + e[2] - 1

ASSUME JobsAssumption ==
  \A j \in Jobs :
    /\ IsImage(j.img) /\ j.opt \in Option
    /\ \A e \in Entries(j.img) : NameOf(j.img, e) # "" => SymbolOf(j.img, e) \in DOMAIN Hash

ASSUME LoaderAssumption ==
  /\ Biases \subseteq Int
  /\ {Entrypoint, ShimRegisterTls} \subseteq DOMAIN Hash
  /\ \A s \in DOMAIN Hash : Hash[s] \in Nat
  /\ Gap \in Nat /\ Gap >= kTrampolineWords

NoInfo == [f \in {"template", "size", "zero_fill", "align", "index", "callbacks"} |-> 0]

VARIABLES
  img, opt,   \* the job
  pc,         \* the stage: of the converter, then of the loader
  n, m,       \* indices of the current loop, and of the one inside
  base,       \* image_base
  buf,        \* Buffer of the input file
  imports,    \* PeImage::imports
  relocs,     \* PeImage::relocs
  tls,        \* the tls_* fields
  syms,       \* names of dynsym_data, from index 1
  rela,       \* rela_data
  buckets, chain,   \* the two arrays of DT_HASH
  slotRela, infoRela,  \* shim_reg_tls_rela_idx, tls_va_rela_idx
  entry,      \* e_entry
  wr,         \* sections whose PT_LOAD is writable
  bias,       \* where ld.so mapped the file
  mem,        \* linked address -> word, once mapped
  info        \* what shim_register_tls was given

vars == <<img, opt, pc, n, m, base, buf, imports, relocs, tls, syms, rela, buckets, chain,
          slotRela, infoRela, entry, wr, bias, mem, info>>

Secs == 1 .. Len(img.secs)

trampoline_va == base - Gap

\* PESectionMap::rva_to_offset finds an offset, and PESectionMap::section_of
\* a section.  An offset may still be past the end of a truncated file.
HasOffset(rva) == \E s \in Secs : rva \in RawRvas(img.secs[s])
InFile(rva)    == rva \in DOMAIN buf
SectionOf(rva) == {s \in Secs : rva \in Rvas(img.secs[s])}

Init ==
  /\ \E j \in Jobs : img = j.img /\ opt = j.opt
  /\ pc = "imports" /\ n = 1 /\ m = 1
  /\ base = img.base /\ buf = img.data
  /\ imports = <<>> /\ relocs = <<>> /\ tls = NoInfo
  /\ syms = <<>> /\ rela = <<>>
  /\ buckets = <<>> /\ chain = <<>>
  /\ slotRela = 0 /\ infoRela = [f \in {"template", "index", "callbacks"} |-> 0]
  /\ entry = 0 /\ wr = {}
  /\ bias = 0 /\ mem = <<>> /\ info = NoInfo

Fail ==
  /\ pc' = "failed"
  /\ UNCHANGED <<img, opt, n, m, base, buf, imports, relocs, tls, syms, rela, buckets, chain,
                 slotRela, infoRela, entry, wr, bias, mem, info>>

\* An import or relocation directory that is in no section ends the
\* conversion; a TLS directory that is in none is ignored.
LostDirectory ==
  /\ pc \in img.lost
  /\ Fail

-----------------------------------------------------------------------------
(* PeImage::collect_imports, one entry of a descriptor per step.           *)

AtEntry == pc = "imports" /\ pc \notin img.lost /\ n <= Len(img.descs) /\ ~Skipped(img.descs[n])
           /\ m <= Len(img.descs[n].entries)

\* A slot or a name that is not in any section is left out.
CollectImport ==
  LET e == <<n, m>> IN
  /\ AtEntry
  /\ \/ SectionOf(SlotOf(img, e)) = {} /\ imports' = imports
     \/ /\ SectionOf(SlotOf(img, e)) # {} /\ NameOf(img, e) # ""
        /\ imports' = Append(imports, [dll |-> img.descs[n].dll, fn |-> NameOf(img, e),
                                       slot |-> SlotOf(img, e)])
     \/ NameOf(img, e) = "" /\ img.descs[n].entries[m].ordinal < 0 /\ imports' = imports
  /\ m' = m + 1
  /\ UNCHANGED <<img, opt, pc, n, base, buf, relocs, tls, syms, rela, buckets, chain,
                 slotRela, infoRela, entry, wr, bias, mem, info>>

\* An ordinal without a name is an error.
UnknownOrdinal ==
  /\ AtEntry
  /\ SectionOf(SlotOf(img, <<n, m>>)) # {}
  /\ img.descs[n].entries[m].ordinal >= 0 /\ NameOf(img, <<n, m>>) = ""
  /\ Fail

NextDescriptor ==
  /\ pc = "imports" /\ pc \notin img.lost /\ n <= Len(img.descs)
  /\ Skipped(img.descs[n]) \/ m > Len(img.descs[n].entries)
  /\ n' = n + 1 /\ m' = 1
  /\ UNCHANGED <<img, opt, pc, base, buf, imports, relocs, tls, syms, rela, buckets, chain,
                 slotRela, infoRela, entry, wr, bias, mem, info>>

ImportsDone ==
  /\ pc = "imports" /\ pc \notin img.lost /\ n > Len(img.descs)
  /\ pc' = "relocs" /\ n' = 1
  /\ UNCHANGED <<img, opt, m, base, buf, imports, relocs, tls, syms, rela, buckets, chain,
                 slotRela, infoRela, entry, wr, bias, mem, info>>

\* iat_sec_idx.
IatSecs == UNION {SectionOf(imports[k].slot) : k \in 1 .. Len(imports)}

-----------------------------------------------------------------------------
(* PeImage::collect_relocs, one entry per step.                            *)

\* Mutant of IsIat: the slots the imports bind are not told apart.
NeverIat(va) == FALSE

\* is_iat.
IsIat(va) == \E k \in 1 .. Len(imports) : base + imports[k].slot = va

CollectReloc ==
  LET r == img.sites[n] IN
  /\ pc = "relocs" /\ pc \notin img.lost /\ n <= Len(img.sites)
  /\ relocs' = IF r.type = 10 /\ HasOffset(r.rva) /\ InFile(r.rva) /\ ~IsIat(base + r.rva)
               THEN Append(relocs, [va |-> base + r.rva, addend |-> buf[r.rva]])
               ELSE relocs
  /\ n' = n + 1
  /\ UNCHANGED <<img, opt, pc, m, base, buf, imports, tls, syms, rela, buckets, chain,
                 slotRela, infoRela, entry, wr, bias, mem, info>>

RelocsDone ==
  /\ pc = "relocs" /\ pc \notin img.lost /\ n > Len(img.sites)
  /\ pc' = IF opt.base # 0 THEN "rebase" ELSE "tls"
  /\ n' = 1
  /\ UNCHANGED <<img, opt, m, base, buf, imports, relocs, tls, syms, rela, buckets, chain,
                 slotRela, infoRela, entry, wr, bias, mem, info>>

(* PeImage::rebase: every site is patched in the buffer, and the           *)
(* relocations are forgotten, also when the base does not change.          *)

CannotRebase ==
  /\ pc = "rebase" /\ opt.base # base /\ relocs = <<>>
  /\ Fail

Rebase ==
  /\ pc = "rebase" /\ opt.base # base /\ n <= Len(relocs)
  /\ buf' = [buf EXCEPT ![relocs[n].va - base] = @ + (opt.base - base)]
  /\ n' = n + 1
  /\ UNCHANGED <<img, opt, pc, m, base, imports, relocs, tls, syms, rela, buckets, chain,
                 slotRela, infoRela, entry, wr, bias, mem, info>>

Rebased ==
  /\ pc = "rebase"
  /\ \/ opt.base = base
     \/ opt.base # base /\ relocs # <<>> /\ n > Len(relocs)
  /\ base' = opt.base
  /\ relocs' = <<>>
  /\ pc' = "tls" /\ n' = 1
  /\ UNCHANGED <<img, opt, m, buf, imports, tls, syms, rela, buckets, chain,
                 slotRela, infoRela, entry, wr, bias, mem, info>>

TemplateSize(start, end) == IF end > start THEN end - start ELSE 0

(* PeImage::collect_tls, on the buffer as rebase left it.  The directory   *)
(* is four addresses and a word with SizeOfZeroFill and Characteristics.   *)
CollectTls ==
  LET at(k) == buf[img.tls + k] IN
  /\ pc = "tls"
  /\ tls' = IF img.tls # 0 /\ HasOffset(img.tls) /\ \A k \in 0 .. 4 : InFile(img.tls + k)
            THEN [template |-> at(0), size |-> TemplateSize(at(0), at(1)), index |-> at(2),
                  callbacks |-> at(3), zero_fill |-> at(4), align |-> at(4)]
            ELSE NoInfo
  /\ pc' = "symbols" /\ n' = 1
  /\ UNCHANGED <<img, opt, m, base, buf, imports, relocs, syms, rela, buckets, chain,
                 slotRela, infoRela, entry, wr, bias, mem, info>>

-----------------------------------------------------------------------------
(* Builder::build_synthetic_sections.                                      *)

\* make_elf_sym_name.
Symbol(ie) == <<Prefix[ie.dll], ie.fn>>

Known(s) == {k \in 1 .. Len(syms) : syms[k] = s}

\* One import: its symbol is found among the unique names, or added.
NameImport ==
  LET s == Symbol(imports[n]) IN
  /\ pc = "symbols" /\ n <= Len(imports)
  /\ syms' = IF Known(s) # {} THEN syms ELSE Append(syms, s)
  /\ n' = n + 1
  /\ UNCHANGED <<img, opt, pc, m, base, buf, imports, relocs, tls, rela, buckets, chain,
                 slotRela, infoRela, entry, wr, bias, mem, info>>

\* sym_index of an import.
SymIndex(s) == CHOOSE k \in 1 .. Len(syms) : syms[k] = s

Bind(off, k)         == [type |-> "R_X86_64_64", off |-> off, sym |-> k, addend |-> 0]
Relative(off, addend) == [type |-> "R_X86_64_RELATIVE", off |-> off, sym |-> 0, addend |-> addend]

\* The VA fields of ShimTlsInfo that get a relocation: only with --so, only
\* those that are not zero.
IfVa(f) == IF opt.so /\ tls[f] # 0 THEN <<f>> ELSE <<>>
InfoVas == IfVa("template") \o IfVa("index") \o IfVa("callbacks")

\* The relocations in order: imports, base relocations, the call slot, the
\* TLS fields.  The offsets of the last two are not known yet.
BuildRela ==
  LET own == [k \in 1 .. Len(imports) |-> Bind(base + imports[k].slot, SymIndex(Symbol(imports[k])))]
      rel == [k \in 1 .. Len(relocs) |-> Relative(relocs[k].va, relocs[k].addend)]
      slot == Len(own) + Len(rel) + 1
  IN
  /\ pc = "symbols" /\ n > Len(imports)
  /\ rela' = own \o rel \o << Bind(0, Len(syms) + 1) >>
             \o [k \in 1 .. Len(InfoVas) |-> Relative(0, tls[InfoVas[k]])]
  /\ slotRela' = slot
  /\ infoRela' = [f \in {"template", "index", "callbacks"} |->
                    IF \E k \in 1 .. Len(InfoVas) : InfoVas[k] = f
                    THEN slot + (CHOOSE k \in 1 .. Len(InfoVas) : InfoVas[k] = f) ELSE 0]
  /\ syms' = syms \o << ShimRegisterTls >> \o (IF opt.so THEN << Entrypoint >> ELSE <<>>)
  /\ buckets' = IF opt.so THEN [b \in 0 .. Len(syms') |-> 0] ELSE buckets
  /\ chain'   = IF opt.so THEN [k \in 0 .. Len(syms') |-> 0] ELSE chain
  /\ pc' = IF opt.so THEN "hash" ELSE "finalize"
  /\ n' = 1
  /\ UNCHANGED <<img, opt, m, base, buf, imports, relocs, tls, entry, wr, bias, mem, info>>

\* Mutant of Linked: the chain of the bucket is cut.
LinkedNowhere(k) == 0

\* chain[k], when symbol k becomes the first of its bucket.
Linked(k) == buckets[Hash[syms[k]] % (Len(syms) + 1)]

\* Builder::build_hash, one symbol per step.
BuildHash ==
  /\ pc = "hash" /\ n <= Len(syms)
  /\ chain' = [chain EXCEPT ![n] = Linked(n)]
  /\ buckets' = [buckets EXCEPT ![Hash[syms[n]] % (Len(syms) + 1)] = n]
  /\ n' = n + 1
  /\ UNCHANGED <<img, opt, pc, m, base, buf, imports, relocs, tls, syms, rela,
                 slotRela, infoRela, entry, wr, bias, mem, info>>

HashDone ==
  /\ pc = "hash" /\ n > Len(syms)
  /\ pc' = "finalize"
  /\ UNCHANGED <<img, opt, n, m, base, buf, imports, relocs, tls, syms, rela, buckets, chain,
                 slotRela, infoRela, entry, wr, bias, mem, info>>

-----------------------------------------------------------------------------
(* Once the plan is known: finalize_tls_call, find_safe_entry,             *)
(* build_trampoline, patch_rdata and the flags of build_phdrs.             *)

\* Mutant of InfoAt: the two last VA fields are exchanged.
InfoAtSwapped(f) == CASE f = "template" -> 0 [] f = "size" -> 1 [] f = "zero_fill" -> 2
                      [] f = "align" -> 3 [] f = "index" -> 5 [] f = "callbacks" -> 4

\* The word of ShimTlsInfo that holds a field.
InfoAt(f) == CHOOSE k \in 0 .. 5 : InfoFields[k + 1] = f

\* The RETs find_safe_entry sees; it takes the first, in section order.
Rets == {rva \in img.rets : /\ InFile(rva)
                            /\ \E s \in Secs : img.secs[s].x /\ rva \in RawRvas(img.secs[s])}
FirstRet ==
  CHOOSE r \in Rets : \E s \in Secs :
    /\ img.secs[s].x /\ r \in RawRvas(img.secs[s])
    /\ \A q \in Rets : \A t \in Secs :
         img.secs[t].x /\ q \in RawRvas(img.secs[t]) => s < t \/ (s = t /\ r <= q)

\* The distance of the jump to the PE entry point, from the end of the code.
Jump == base + img.ep - (trampoline_va + SlotOff)

Finalize ==
  /\ pc = "finalize"
  /\ opt.so => Rets # {}
  /\ Jump \in -MaxJump .. MaxJump - 1
  /\ rela' = [k \in 1 .. Len(rela) |->
                IF k = slotRela THEN [rela[k] EXCEPT !.off = trampoline_va + SlotOff]
                ELSE IF \E f \in DOMAIN infoRela : infoRela[f] = k
                THEN [rela[k] EXCEPT !.off = trampoline_va + InfoOff
                        + InfoAt(CHOOSE f \in DOMAIN infoRela : infoRela[f] = k)]
                ELSE rela[k]]
  /\ entry' = IF opt.so THEN base + FirstRet ELSE trampoline_va
  /\ pc' = "patch"
  /\ UNCHANGED <<img, opt, n, m, base, buf, imports, relocs, tls, syms, buckets, chain,
                 slotRela, infoRela, wr, bias, mem, info>>

CannotFinalize ==
  /\ pc = "finalize"
  /\ (opt.so /\ Rets = {}) \/ Jump \notin -MaxJump .. MaxJump - 1
  /\ Fail

\* Mutant of Writable: base relocations do not count.
WritableByImports == {s \in Secs : img.secs[s].w \/ s \in IatSecs}

\* PF_W: asked for by the PE, or needed by the loader to relocate.
Writable ==
  {s \in Secs : \/ img.secs[s].w \/ s \in IatSecs
                \/ \E k \in 1 .. Len(relocs) : relocs[k].va - base \in Rvas(img.secs[s])}

PatchAndWrite ==
  /\ pc = "patch"
  /\ buf' = [rva \in DOMAIN buf |->
               IF \E k \in 1 .. Len(imports) : imports[k].slot = rva THEN 0 ELSE buf[rva]]
  /\ wr' = Writable
  /\ pc' = "written"
  /\ UNCHANGED <<img, opt, n, m, base, imports, relocs, tls, syms, rela, buckets, chain,
                 slotRela, infoRela, entry, bias, mem, info>>

-----------------------------------------------------------------------------
(* External: the dynamic loader maps the segments, an ET_DYN anywhere and  *)
(* an ET_EXEC where it was linked, and applies the relocations in order.   *)

Mapped == {s \in Secs : ~(opt.strip_pdata /\ img.secs[s].pdata)}
Trampoline == trampoline_va .. trampoline_va + kTrampolineWords - 1

MappedVas == Trampoline \cup {base + rva : rva \in UNION {Rvas(img.secs[s]) : s \in Mapped}}

Map ==
  /\ pc = "written"
  /\ bias' \in IF opt.pie \/ opt.so THEN Biases ELSE {0}
  /\ mem' = [a \in MappedVas |->
               IF a \in Trampoline
               THEN IF a >= trampoline_va + InfoOff
                    THEN tls[InfoFields[a - trampoline_va - InfoOff + 1]] ELSE 0
               ELSE IF InFile(a - base) THEN buf[a - base] ELSE 0]
  /\ pc' = "relocate" /\ n' = 1
  /\ UNCHANGED <<img, opt, m, base, buf, imports, relocs, tls, syms, rela, buckets, chain,
                 slotRela, infoRela, entry, wr, info>>

WritableVas == Trampoline \cup {base + rva : rva \in UNION {Rvas(img.secs[s]) : s \in wr \cap Mapped}}

\* DF_1_NOW: an undefined symbol ends the program before it starts.
Resolved(r) == r.type = "R_X86_64_64" => syms[r.sym] \in DOMAIN Exports

Relocate ==
  LET r == rela[n] IN
  /\ pc = "relocate" /\ n <= Len(rela)
  /\ pc' = IF r.off \notin WritableVas THEN "fault" ELSE IF ~Resolved(r) THEN "unresolved" ELSE pc
  /\ mem' = IF r.off \in WritableVas /\ Resolved(r)
            THEN [mem EXCEPT ![r.off] = IF r.type = "R_X86_64_64" THEN Exports[syms[r.sym]]
                                        ELSE bias + r.addend]
            ELSE mem
  /\ n' = n + 1
  /\ UNCHANGED <<img, opt, m, base, buf, imports, relocs, tls, syms, rela, buckets, chain,
                 slotRela, infoRela, entry, wr, bias, info>>

\* The dynamic loader's lookup: it follows the chain of the bucket to the
\* first symbol of that name, or to 0.
Lookup(s) ==
  LET walk[k \in 0 .. Len(syms)] ==
        IF k = 0 THEN buckets[Hash[s] % (Len(syms) + 1)]
        ELSE IF walk[k - 1] = 0 THEN 0
        ELSE IF syms[walk[k - 1]] = s THEN walk[k - 1] ELSE chain[walk[k - 1]]
  IN walk[Len(syms)]

\* The program is entered at the trampoline, by the kernel or through
\* dlsym(_entrypoint), which calls shim_register_tls with its ShimTlsInfo.
Enter ==
  /\ pc = "relocate" /\ n > Len(rela)
  /\ \/ ~opt.so /\ entry = trampoline_va
     \/ opt.so /\ Lookup(Entrypoint) # 0
  /\ info' = [f \in DOMAIN NoInfo |-> mem[trampoline_va + InfoOff
                                           + (CHOOSE k \in 0 .. 5 : InfoFields[k + 1] = f)]]
  /\ pc' = "running"
  /\ UNCHANGED <<img, opt, n, m, base, buf, imports, relocs, tls, syms, rela, buckets, chain,
                 slotRela, infoRela, entry, wr, bias, mem>>

Next ==
  \/ LostDirectory \/ CollectImport \/ UnknownOrdinal \/ NextDescriptor \/ ImportsDone \/ CollectReloc \/ RelocsDone
  \/ CannotRebase \/ Rebase \/ Rebased \/ CollectTls
  \/ NameImport \/ BuildRela \/ BuildHash \/ HashDone
  \/ Finalize \/ CannotFinalize \/ PatchAndWrite
  \/ Map \/ Relocate \/ Enter

Spec == Init /\ [][Next]_vars

-----------------------------------------------------------------------------
(* Properties.                                                             *)

\* Whether the RVA is in a section, or in the raw data of one.
InSection(i, rva) == \E s \in 1 .. Len(i.secs) : rva \in Rvas(i.secs[s])
HasData(i, rva)   == rva \in DOMAIN i.data /\ \E s \in 1 .. Len(i.secs) : rva \in RawRvas(i.secs[s])

\* The import entries that have a slot and a name; those of a slot.
Binds(i) == {e \in Entries(i) : /\ ~Skipped(i.descs[e[1]]) /\ NameOf(i, e) # ""
                                /\ InSection(i, SlotOf(i, e))}
BindsAt(i, rva) == {e \in Binds(i) : SlotOf(i, e) = rva}

Before(e, f) == e[1] < f[1] \/ (e[1] = f[1] /\ e[2] < f[2])
LastOf(E) == CHOOSE e \in E : \A f \in E : f = e \/ Before(f, e)

IsSite(i, rva) == \E k \in 1 .. Len(i.sites) : i.sites[k].type = 10 /\ i.sites[k].rva = rva

(* What the Windows loader would have put at an RVA of the image it mapped *)
(* at address b: the address of the imported function, the relocated       *)
(* pointer, the data of the file, or zero.                                 *)
ByWindows(rva, b) ==
  IF BindsAt(img, rva) # {} THEN Exports[SymbolOf(img, LastOf(BindsAt(img, rva)))]
  ELSE (IF rva \in DOMAIN img.data THEN img.data[rva] ELSE 0)
       + (IF IsSite(img, rva) THEN b - img.base ELSE 0)

(* The running program finds in its sections what Windows would have put   *)
(* there for the address they are at, whichever way the relocations were   *)
(* applied: by rebase, by ld.so, or not at all.                            *)
LoadedLikeWindows ==
  pc = "running" =>
    \A s \in Mapped : \A rva \in Rvas(img.secs[s]) : mem[base + rva] = ByWindows(rva, base + bias)

(* ld.so finds every symbol it is asked for, and the right one: dlsym in   *)
(* load.cpp depends on it.                                                 *)
HashFinds ==
  opt.so /\ pc \in {"finalize", "patch", "written", "relocate", "running"} =>
    \A k \in 1 .. Len(syms) : Lookup(syms[k]) = k

(* No relocation is applied to memory that is unmapped or read-only.       *)
NeverFaults == pc # "fault"

\* Where in the TLS directory a field is.
TlsField == [template |-> 0, index |-> 2, callbacks |-> 3]

(* The TLS fields the trampoline hands to shim_register_tls are addresses  *)
(* of the image where it really is: "the VAs in ShimTlsInfo are always in  *)
(* the final address space" (!tls-cl.md).                                  *)
TlsInfoFinal ==
  pc = "running" /\ img.tls # 0 =>
    \A f \in {"template", "index", "callbacks"} :
      info[f] = ByWindows(img.tls + TlsField[f], base + bias)

-----------------------------------------------------------------------------
(* What the properties ask of a job; the converter looks at none of it.    *)

\* No import has the name of one of the converter's own two symbols.
OwnNames(j) == \A e \in Binds(j.img) : SymbolOf(j.img, e) \notin {Entrypoint, ShimRegisterTls}

\* The exception tables --strip-pdata takes away have nothing to relocate.
StripsInert(j) ==
  j.opt.strip_pdata =>
    \A s \in 1 .. Len(j.img.secs) : j.img.secs[s].pdata =>
      \A rva \in Rvas(j.img.secs[s]) : BindsAt(j.img, rva) = {} /\ ~IsSite(j.img, rva)

\* Pointers to relocate are in the file; --base finds each listed once, and
\* is not given with an option that leaves relocation to ld.so.
SitesSound(j) ==
  /\ \A k \in 1 .. Len(j.img.sites) :
       j.img.sites[k].type = 10 /\ InSection(j.img, j.img.sites[k].rva) => HasData(j.img, j.img.sites[k].rva)
  /\ j.opt.base # 0 =>
       /\ ~j.opt.pie /\ ~j.opt.so
       /\ \A k, l \in 1 .. Len(j.img.sites) :
            j.img.sites[k] = j.img.sites[l] /\ j.img.sites[k].type = 10 => k = l

\* The TLS directory is in the file, and each of its addresses is zero or a
\* pointer to relocate; only --so relocates them at run time.
TlsSound(j) ==
  j.img.tls # 0 =>
    /\ j.opt.pie => j.opt.so
    /\ \A k \in 0 .. 4 : HasData(j.img, j.img.tls + k) /\ BindsAt(j.img, j.img.tls + k) = {}
    /\ \A k \in {0, 2, 3} : IsSite(j.img, j.img.tls + k) <=> j.img.data[j.img.tls + k] # 0
=============================================================================
