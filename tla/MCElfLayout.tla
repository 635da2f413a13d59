----------------------------- MODULE MCElfLayout -----------------------------
(***************************************************************************)
(* Instances of ElfLayout for TLC: images as a linker produces them, with  *)
(* sections in ascending order on page boundaries.                         *)
(***************************************************************************)
EXTENDS ElfLayout

\* A section's sizes and role, before it has an address.
Shapes == {[virtsz |-> v[1], rawsz |-> v[2], pdata |-> f = "pdata", iat |-> f = "iat"] :
             v \in {<<100, 0>>, <<300, 512>>, <<4096, 4096>>, <<9000, 4608>>},
             f \in {"plain", "pdata", "iat"}}

\* The linker gives every section the next free page.
Linked(shapes) ==
  LET va[n \in 1 .. Len(shapes)] ==
        IF n = 1 THEN kPageSize
        ELSE align_up(va[n - 1] + Larger(shapes[n - 1].virtsz, shapes[n - 1].rawsz), kPageSize)
  IN [n \in 1 .. Len(shapes) |->
        [va |-> va[n], virtsz |-> shapes[n].virtsz, rawsz |-> shapes[n].rawsz,
         pdata |-> shapes[n].pdata, iat |-> shapes[n].iat]]

Image(base, secs, dynstr, hash, rela, strip, keep) ==
  [base |-> base, secs |-> secs, hdr |-> 1024, interp |-> 28,
   dynsym |-> rela + 1, dynstr |-> dynstr, hash |-> hash, rela |-> rela,
   dynamic |-> 12, strip_pdata |-> strip, keep_shdr |-> keep, shstrtab |-> 61]

\* Few sections, every combination; image bases below, at and above the
\* smallest that leaves room for the synthetic segment.
Small == {Image(b, Linked(shapes), z[1], z[2], z[3], strip, keep) :
            b \in {0, 65536 + 8192, 4194304},
            shapes \in UNION {[1 .. n -> Shapes] : n \in 0 .. 2},
            z \in {<<1, 0, 1>>, <<2710, 48, 2>>, <<2711, 40, 3>>},
            strip \in BOOLEAN, keep \in BOOLEAN}

\* Many sections of a page each, the second with the IAT.
Long(n, dynstr) ==
  Image(1073741824, [k \in 1 .. n |-> [va |-> k * kPageSize, virtsz |-> 4096, rawsz |-> 512,
                                       pdata |-> FALSE, iat |-> k = 2]],
        dynstr, 0, 1, FALSE, TRUE)

\* As many sections as the estimate of the synthetic segment allows for.
Large == {Long(86, 16 * d) : d \in 130 .. 190}

Linkable == Small \cup Large

\* The theorems about the segments apply to all of them.
ASSUME LinkableAssumption == \A x \in Linkable : Loadable(x)
=============================================================================
