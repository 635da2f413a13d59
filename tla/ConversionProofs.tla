--------------------------- MODULE ConversionProofs ---------------------------
(***************************************************************************)
(* Proofs about Conversion, for any images, options, hash function and     *)
(* places where ld.so maps a file:                                         *)
(*                                                                         *)
(*   - no relocation is applied to memory that is unmapped or read-only    *)
(*     (NeverFaults), if --strip-pdata takes no pointer away;              *)
(*   - ld.so finds every symbol in the hash table (HashFinds), if no       *)
(*     import has the name of one of the converter's own symbols;          *)
(*   - the program finds in memory what Windows would have put there       *)
(*     (LoadedLikeWindows), if the pointers to relocate are in the file;   *)
(*   - and so does shim_register_tls (TlsInfoFinal).                       *)
(*                                                                         *)
(* The stages follow each other, so an invariant says for one table what   *)
(* it has in it at every stage; tables are said to follow those they are   *)
(* made from by a function between their indices.                          *)
(***************************************************************************)
EXTENDS Conversion, SequenceTheorems, WellFoundedInduction, TLAPS

Job == [img |-> img, opt |-> opt]

\* The stages before a table is complete, and those after.
Reading   == {"imports", "relocs", "rebase", "tls"}
Loading   == {"relocate", "running"}
Emitted   == {"hash", "finalize", "patch", "written"} \cup Loading
Finalized == {"patch", "written"} \cup Loading

(* The job, and the base the file is linked at.                            *)
LinkBase == IF opt.base # 0 THEN opt.base ELSE img.base

GivenInv ==
  /\ IsImage(img) /\ opt \in Option
  /\ \A e \in Entries(img) : NameOf(img, e) # "" => SymbolOf(img, e) \in DOMAIN Hash
  /\ n \in Nat /\ n >= 1 /\ m \in Nat /\ m >= 1 /\ bias \in Int
  /\ pc \in Reading \cup {"symbols"} \cup Emitted \cup {"failed", "fault", "unresolved"}
  /\ pc \in Loading /\ bias # 0 => opt.pie \/ opt.so
  /\ pc \in {"imports", "relocs", "rebase"} => base = img.base
  /\ pc = "rebase" => opt.base # 0
  /\ pc \notin {"imports", "relocs", "rebase", "failed"} => base = LinkBase

-----------------------------------------------------------------------------
(* Imports: those read so far, in their order.                             *)

ImportOf(i, e) == [dll |-> i.descs[e[1]].dll, fn |-> NameOf(i, e), slot |-> SlotOf(i, e)]

\* Entry e comes before entry l of descriptor k.
Read(stage, k, l, e) == stage = "imports" => e[1] < k \/ (e[1] = k /\ e[2] < l)

ImportsInv == pc # "failed" =>
  /\ imports \in Seq({ImportOf(img, e) : e \in Binds(img)})
  /\ \E g \in [1 .. Len(imports) -> Binds(img)] :
       /\ \A k \in 1 .. Len(imports) : imports[k] = ImportOf(img, g[k]) /\ Read(pc, n, m, g[k])
       /\ \A k, l \in 1 .. Len(imports) : k < l => Before(g[k], g[l])
       /\ \A e \in Binds(img) : Read(pc, n, m, e) => \E k \in 1 .. Len(imports) : g[k] = e

-----------------------------------------------------------------------------
(* Base relocations: those read so far, in their order.                    *)

\* A pointer to relocate, that is not a slot.
Moves(i, rva) == IsSite(i, rva) /\ HasData(i, rva) /\ BindsAt(i, rva) = {}

RelocOf(i, k) == [va |-> i.base + i.sites[k].rva, addend |-> i.data[i.sites[k].rva]]
Kept(i, k)    == i.sites[k].type = 10 /\ Moves(i, i.sites[k].rva)

RelocsUpTo(last) ==
  \E g \in [1 .. Len(relocs) -> 1 .. Len(img.sites)] :
    /\ \A k \in 1 .. Len(relocs) : g[k] < last /\ Kept(img, g[k]) /\ relocs[k] = RelocOf(img, g[k])
    /\ \A k, l \in 1 .. Len(relocs) : k < l => g[k] < g[l]
    /\ \A l \in 1 .. Len(img.sites) : l < last /\ Kept(img, l) => \E k \in 1 .. Len(relocs) : g[k] = l

RelocsInv == pc # "failed" =>
  /\ relocs \in Seq([va : Int, addend : Int])
  /\ pc = "imports" => relocs = <<>>
  /\ pc = "relocs"  => RelocsUpTo(n)
  /\ pc = "rebase"  => RelocsUpTo(Len(img.sites) + 1)
  /\ pc \notin {"imports", "relocs", "rebase"} =>
       IF opt.base # 0 THEN relocs = <<>> ELSE RelocsUpTo(Len(img.sites) + 1)

-----------------------------------------------------------------------------
(* The buffer: as rebase leaves it, then with empty slots.                 *)

Word(rva) == img.data[rva] + (IF Moves(img, rva) THEN LinkBase - img.base ELSE 0)

FileInv == pc # "failed" =>
  /\ buf \in [DOMAIN img.data -> Int]
  /\ pc \in {"imports", "relocs"} => buf = img.data

BufInv ==
  /\ pc = "rebase" => \A rva \in DOMAIN buf :
       buf[rva] = img.data[rva]
                  + (IF \E k \in 1 .. Len(relocs) : k < n /\ relocs[k].va - base = rva
                     THEN opt.base - base ELSE 0)
  /\ pc \notin {"imports", "relocs", "rebase", "failed"} => \A rva \in DOMAIN buf :
       BindsAt(img, rva) = {} \/ pc \in {"tls", "symbols"} => buf[rva] = Word(rva)

TlsTypeInv == pc \notin Reading \cup {"failed"} => tls \in [DOMAIN NoInfo -> Int]

TlsInv ==
  pc \notin Reading \cup {"failed"} /\ img.tls # 0 /\ (\A k \in 0 .. 4 : HasData(img, img.tls + k)) =>
    \A f \in DOMAIN TlsField : tls[f] = Word(img.tls + TlsField[f])

-----------------------------------------------------------------------------
(* Symbols: those of the imports, once each; then the converter's own.     *)

Imported(u) ==
  /\ u \in Seq(DOMAIN Hash)
  /\ \A p, q \in 1 .. Len(u) : u[p] = u[q] => p = q
  /\ \A p \in 1 .. Len(u) : \E k \in 1 .. Len(imports) : u[p] = Symbol(imports[k])

WithOwn(u) == u \o <<ShimRegisterTls>> \o (IF opt.so THEN <<Entrypoint>> ELSE <<>>)

SymsInv ==
  /\ pc \in Reading => syms = <<>>
  /\ pc = "symbols" => /\ Imported(syms)
                       /\ \A k \in 1 .. Len(imports) : k < n => Known(Symbol(imports[k])) # {}
  /\ pc \in Emitted => \E u : Imported(u) /\ syms = WithOwn(u)

-----------------------------------------------------------------------------
(* Relocations: a table of four parts.                                     *)

Once(s) == \A k, l \in 1 .. Len(s) : s[k] = s[l] => k = l
Has(s, x) == \E k \in 1 .. Len(s) : s[k] = x

Rela == [type : {"R_X86_64_64", "R_X86_64_RELATIVE"}, off : Int, sym : Nat, addend : Int]

Binding(r, off, s) == /\ r.type = "R_X86_64_64" /\ r.off = off
                      /\ r.sym \in 1 .. Len(syms) /\ syms[r.sym] = s

RelaInv == pc \in Emitted =>
  /\ rela \in Seq(Rela)
  /\ Len(rela) = Len(imports) + Len(relocs) + 1 + Len(InfoVas)
  /\ slotRela = Len(imports) + Len(relocs) + 1
  /\ \A k \in 1 .. Len(imports) : Binding(rela[k], base + imports[k].slot, Symbol(imports[k]))
  /\ \A k \in 1 .. Len(relocs) :
       rela[Len(imports) + k] = Relative(relocs[k].va, relocs[k].addend)
  /\ Binding(rela[slotRela], IF pc \in Finalized THEN trampoline_va + SlotOff ELSE 0, ShimRegisterTls)
  /\ \A k \in 1 .. Len(InfoVas) :
       /\ infoRela[InfoVas[k]] = slotRela + k
       /\ rela[slotRela + k] = Relative(IF pc \in Finalized
                                        THEN trampoline_va + InfoOff + InfoAt(InfoVas[k]) ELSE 0,
                                        tls[InfoVas[k]])
  /\ DOMAIN infoRela = DOMAIN TlsField
  /\ \A f \in DOMAIN TlsField : infoRela[f] # 0 => Has(InfoVas, f)

-----------------------------------------------------------------------------
(* The hash table: the symbols of a bucket are chained from the last to    *)
(* the first.                                                              *)

InBucket(k, b) == Hash[syms[k]] % (Len(syms) + 1) = b

\* p is the last symbol of the bucket before k, or 0.
LastBefore(p, k, b) ==
  /\ p \in 0 .. k - 1
  /\ p # 0 => InBucket(p, b)
  /\ \A q \in p + 1 .. k - 1 : ~InBucket(q, b)

HashInv == pc \in Emitted /\ opt.so =>
  LET done == IF pc = "hash" THEN n ELSE Len(syms) + 1 IN
  /\ done <= Len(syms) + 1
  /\ DOMAIN buckets = 0 .. Len(syms) /\ DOMAIN chain = 0 .. Len(syms)
  /\ \A b \in 0 .. Len(syms) : LastBefore(buckets[b], done, b)
  /\ \A k \in 1 .. Len(syms) : k < done =>
       LastBefore(chain[k], k, Hash[syms[k]] % (Len(syms) + 1))

-----------------------------------------------------------------------------
(* Loading: every word of memory is as the last relocation of it left it,  *)
(* or as it was mapped.                                                    *)

MapInv == pc \in {"written"} \cup Loading => wr = Writable

Template(a) ==
  IF a \in Trampoline
  THEN IF a >= trampoline_va + InfoOff THEN tls[InfoFields[a - trampoline_va - InfoOff + 1]] ELSE 0
  ELSE IF InFile(a - base) THEN buf[a - base] ELSE 0

Relocated(r) == IF r.type = "R_X86_64_64" THEN Exports[syms[r.sym]] ELSE bias + r.addend

Hits(a) == {k \in 1 .. Len(rela) : k < n /\ rela[k].off = a}

MemInv == pc \in Loading =>
  /\ DOMAIN mem = MappedVas
  /\ \A a \in MappedVas :
       \/ Hits(a) = {} /\ mem[a] = Template(a)
       \/ \E k \in Hits(a) : (\A l \in Hits(a) : l <= k) /\ mem[a] = Relocated(rela[k])
  /\ pc = "running" => /\ n > Len(rela)
                       /\ \A f \in DOMAIN TlsField : info[f] = mem[trampoline_va + InfoOff + InfoAt(f)]

-----------------------------------------------------------------------------
(* What a job is made of.                                                  *)

(* RVAs are integers, and raw data lies in its section.                    *)
LEMMA SectionRvas ==
  ASSUME NEW sec \in Section
  PROVE  Rvas(sec) \subseteq Nat /\ RawRvas(sec) \subseteq Rvas(sec)
  BY DEF Section, Rvas, RawRvas, Larger

(* The entries of the import tables are pairs of indices.                  *)
LEMMA EntriesAre ==
  ASSUME IsImage(img), NEW e \in Entries(img)
  PROVE  /\ e[1] \in 1 .. Len(img.descs) /\ e[2] \in 1 .. Len(img.descs[e[1]].entries)
         /\ e = <<e[1], e[2]>>
         /\ img.descs[e[1]] \in Descriptor
         /\ Len(img.descs[e[1]].entries) \in Nat
         /\ SlotOf(img, e) \in Nat
  <1>1. PICK d \in 1 .. Len(img.descs) : e \in {d} \X (1 .. Len(img.descs[d].entries))
    BY DEF Entries
  <1>2. img.descs[d] \in Descriptor
    BY <1>1 DEF IsImage
  <1>3. e[1] = d /\ e[2] \in 1 .. Len(img.descs[d].entries) /\ e = <<e[1], e[2]>>
    BY <1>1
  <1>4. Len(img.descs[d].entries) \in Nat /\ img.descs[d].iat \in Nat
    BY <1>2 DEF Descriptor
  <1>5. img.descs[d].iat + e[2] - 1 \in Nat
    BY <1>3, <1>4
  <1> QED BY <1>1, <1>2, <1>3, <1>4, <1>5 DEF SlotOf

(* Any pair of indices is one.                                             *)
LEMMA EntryIs ==
  ASSUME IsImage(img), NEW d \in 1 .. Len(img.descs), NEW k \in 1 .. Len(img.descs[d].entries)
  PROVE  <<d, k>> \in Entries(img)
  BY DEF Entries

(* A slot that is in a section.                                            *)
LEMMA InSectionIs ==
  ASSUME NEW rva
  PROVE  InSection(img, rva) <=> SectionOf(rva) # {}
  BY DEF InSection, SectionOf, Secs

(* Order of entries.                                                       *)
LEMMA BeforeOrder ==
  ASSUME IsImage(img), NEW e \in Entries(img), NEW f \in Entries(img)
  PROVE  /\ ~(Before(e, f) /\ Before(f, e))
         /\ e = f \/ Before(e, f) \/ Before(f, e)
         /\ ~Before(e, e)
  BY EntriesAre DEF Before

-----------------------------------------------------------------------------
(* The job and the stages.                                                 *)

(* The first stage.                                                        *)
LEMMA GivenInit == Init => GivenInv
  <1> SUFFICES ASSUME Init PROVE GivenInv
    OBVIOUS
  <1>1. PICK j \in Jobs : img = j.img /\ opt = j.opt
    BY DEF Init
  <1>2. IsImage(img) /\ opt \in Option
        /\ \A e \in Entries(img) : NameOf(img, e) # "" => SymbolOf(img, e) \in DOMAIN Hash
    BY <1>1, JobsAssumption
  <1>3. n = 1 /\ m = 1 /\ bias = 0 /\ pc = "imports" /\ base = img.base
    BY DEF Init
  <1>4. n \in Nat /\ n >= 1 /\ m \in Nat /\ m >= 1 /\ bias \in Int
    BY <1>3
  <1> QED BY <1>2, <1>3, <1>4 DEF GivenInv, Reading, Loading

(* The job stays; indices are positive; the base changes once.             *)
LEMMA GivenStep == GivenInv /\ [Next]_vars => GivenInv'
  <1> SUFFICES ASSUME GivenInv, [Next]_vars PROVE GivenInv'
    OBVIOUS
  <1>1. img' = img /\ opt' = opt
    BY DEF Next, vars, LostDirectory, CollectImport, UnknownOrdinal, NextDescriptor, ImportsDone,
           CollectReloc, RelocsDone, CannotRebase, Rebase, Rebased, CollectTls, NameImport, BuildRela,
           BuildHash, HashDone, Finalize, CannotFinalize, PatchAndWrite, Map, Relocate, Enter, Fail
  <1> SUFFICES /\ n' \in Nat /\ n' >= 1 /\ m' \in Nat /\ m' >= 1 /\ bias' \in Int
               /\ pc' \in Reading \cup {"symbols"} \cup Emitted \cup {"failed", "fault", "unresolved"}
               /\ pc' \in Loading /\ bias' # 0 => opt.pie \/ opt.so
               /\ pc' \in {"imports", "relocs", "rebase"} => base' = img.base
               /\ pc' = "rebase" => opt.base # 0
               /\ pc' \notin {"imports", "relocs", "rebase", "failed"} => base' = LinkBase
    BY <1>1 DEF GivenInv, LinkBase
  <1>a. n \in Nat /\ n >= 1 /\ m \in Nat /\ m >= 1
    BY DEF GivenInv
  <1>b. n + 1 \in Nat /\ n + 1 >= 1 /\ m + 1 \in Nat /\ m + 1 >= 1 /\ 1 \in Nat /\ 1 >= 1
    BY <1>a
  <1>2. /\ bias \in Int
        /\ pc \in Reading \cup {"symbols"} \cup Emitted \cup {"failed", "fault", "unresolved"}
        /\ pc \in Loading /\ bias # 0 => opt.pie \/ opt.so
        /\ pc \in {"imports", "relocs", "rebase"} => base = img.base
        /\ pc = "rebase" => opt.base # 0
        /\ pc \notin {"imports", "relocs", "rebase", "failed"} => base = LinkBase
    BY DEF GivenInv
  <1> USE <1>a, <1>b DEF LinkBase, Reading, Loading, Emitted
  <1>3. CASE LostDirectory
    BY <1>2, <1>3 DEF LostDirectory, Fail
  <1>4. CASE CollectImport
    BY <1>2, <1>4 DEF CollectImport, AtEntry
  <1>5. CASE UnknownOrdinal
    BY <1>2, <1>5 DEF UnknownOrdinal, Fail, AtEntry
  <1>6. CASE NextDescriptor
    BY <1>2, <1>6 DEF NextDescriptor
  <1>7. CASE ImportsDone
    BY <1>2, <1>7 DEF ImportsDone
  <1>8. CASE CollectReloc
    BY <1>2, <1>8 DEF CollectReloc
  <1>9. CASE RelocsDone
    BY <1>2, <1>9 DEF RelocsDone
  <1>10. CASE CannotRebase
    BY <1>2, <1>10 DEF CannotRebase, Fail
  <1>11. CASE Rebase
    BY <1>2, <1>11 DEF Rebase
  <1>12. CASE Rebased
    BY <1>2, <1>12 DEF Rebased
  <1>13. CASE CollectTls
    BY <1>2, <1>13 DEF CollectTls
  <1>14. CASE NameImport
    BY <1>2, <1>14 DEF NameImport
  <1>15. CASE BuildRela
    BY <1>2, <1>15 DEF BuildRela
  <1>16. CASE BuildHash
    BY <1>2, <1>16 DEF BuildHash
  <1>17. CASE HashDone
    BY <1>2, <1>17 DEF HashDone
  <1>18. CASE Finalize
    BY <1>2, <1>18 DEF Finalize
  <1>19. CASE CannotFinalize
    BY <1>2, <1>19 DEF CannotFinalize, Fail
  <1>20. CASE PatchAndWrite
    BY <1>2, <1>20 DEF PatchAndWrite
  <1>21. CASE Map
    BY <1>2, <1>21, LoaderAssumption DEF Map
  <1>22. CASE Relocate
    BY <1>2, <1>22 DEF Relocate
  <1>23. CASE Enter
    BY <1>2, <1>23 DEF Enter
  <1>24. CASE UNCHANGED vars
    <2>1. pc' = pc /\ n' = n /\ m' = m /\ bias' = bias /\ base' = base
      BY <1>24 DEF vars
    <2> QED BY <1>2, <2>1
  <1> QED BY <1>3, <1>4, <1>5, <1>6, <1>7, <1>8, <1>9, <1>10, <1>11, <1>12, <1>13, <1>14, <1>15, <1>16, <1>17, <1>18, <1>19, <1>20, <1>21, <1>22, <1>23, <1>24 DEF Next

-----------------------------------------------------------------------------
(* Which actions write which table.                                        *)

(* The tables of PeImage.                                                  *)
LEMMA ReadersWrite ==
  ASSUME [Next]_vars
  PROVE  /\ img' = img /\ opt' = opt
         /\ imports' = imports \/ CollectImport
         /\ relocs' = relocs \/ CollectReloc \/ Rebased
         /\ buf' = buf \/ Rebase \/ PatchAndWrite
         /\ tls' = tls \/ CollectTls
         /\ base' = base \/ Rebased
  BY DEF Next, vars, LostDirectory, CollectImport, UnknownOrdinal, NextDescriptor, ImportsDone,
         CollectReloc, RelocsDone, CannotRebase, Rebase, Rebased, CollectTls, NameImport, BuildRela,
         BuildHash, HashDone, Finalize, CannotFinalize, PatchAndWrite, Map, Relocate, Enter, Fail

(* The tables of Builder, and memory.                                      *)
LEMMA BuildersWrite ==
  ASSUME [Next]_vars
  PROVE  /\ syms' = syms \/ NameImport \/ BuildRela
         /\ rela' = rela \/ BuildRela \/ Finalize
         /\ (slotRela' = slotRela /\ infoRela' = infoRela) \/ BuildRela
         /\ (buckets' = buckets /\ chain' = chain) \/ BuildRela \/ BuildHash
         /\ wr' = wr \/ PatchAndWrite
         /\ bias' = bias \/ Map
         /\ mem' = mem \/ Map \/ Relocate
         /\ info' = info \/ Enter
  BY DEF Next, vars, LostDirectory, CollectImport, UnknownOrdinal, NextDescriptor, ImportsDone,
         CollectReloc, RelocsDone, CannotRebase, Rebase, Rebased, CollectTls, NameImport, BuildRela,
         BuildHash, HashDone, Finalize, CannotFinalize, PatchAndWrite, Map, Relocate, Enter, Fail

(* The stages in their order.                                              *)
LEMMA StageSteps ==
  ASSUME [Next]_vars
  PROVE  \/ pc' = pc
         \/ pc' \in {"failed", "fault", "unresolved"}
         \/ ImportsDone \/ RelocsDone \/ Rebased \/ CollectTls \/ BuildRela \/ HashDone
         \/ Finalize \/ PatchAndWrite \/ Map \/ Enter
  BY DEF Next, vars, LostDirectory, CollectImport, UnknownOrdinal, NextDescriptor, 
         CollectReloc, CannotRebase, Rebase, NameImport,
         BuildHash, CannotFinalize, Relocate, Fail

(* The index of a loop.                                                    *)
LEMMA IndexSteps ==
  ASSUME [Next]_vars, pc' = pc
  PROVE  \/ n' = n /\ (m' = m \/ CollectImport)
         \/ NextDescriptor \/ CollectReloc \/ Rebase \/ NameImport \/ BuildHash \/ Relocate
  BY DEF Next, vars, LostDirectory, CollectImport, UnknownOrdinal, ImportsDone,
         RelocsDone, CannotRebase, Rebased, CollectTls, BuildRela,
         HashDone, Finalize, CannotFinalize, PatchAndWrite, Map, Enter, Fail

-----------------------------------------------------------------------------
(* Imports.                                                                *)

(* What is bound, is an entry of a descriptor that is not passed over.     *)
LEMMA BindsAre ==
  ASSUME NEW e \in Binds(img)
  PROVE  e \in Entries(img) /\ ~Skipped(img.descs[e[1]]) /\ NameOf(img, e) # "" /\ SectionOf(SlotOf(img, e)) # {}
  BY InSectionIs DEF Binds

(* Imports that stay the imports read so far.                              *)
LEMMA ImportsStay ==
  ASSUME ImportsInv, pc # "failed", img' = img, imports' = imports,
         \A e \in Binds(img) : Read(pc', n', m', e) <=> Read(pc, n, m, e)
  PROVE  ImportsInv'
  <1>1. PICK g \in [1 .. Len(imports) -> Binds(img)] :
          /\ \A k \in 1 .. Len(imports) : imports[k] = ImportOf(img, g[k]) /\ Read(pc, n, m, g[k])
          /\ \A k, l \in 1 .. Len(imports) : k < l => Before(g[k], g[l])
          /\ \A e \in Binds(img) : Read(pc, n, m, e) => \E k \in 1 .. Len(imports) : g[k] = e
    BY DEF ImportsInv
  <1>3. imports' \in Seq({ImportOf(img, e) : e \in Binds(img)})'
    BY DEF ImportsInv
  <1>4. /\ \A k \in 1 .. Len(imports) : imports[k] = ImportOf(img', g[k]) /\ Read(pc', n', m', g[k])
        /\ \A k, l \in 1 .. Len(imports) : k < l => Before(g[k], g[l])
        /\ \A e \in Binds(img) : Read(pc', n', m', e) => \E k \in 1 .. Len(imports) : g[k] = e
    BY <1>1
  <1> QED BY <1>3, <1>4 DEF ImportsInv

(* One more is read.                                                       *)
LEMMA ImportsCollect ==
  ASSUME GivenInv, ImportsInv, CollectImport
  PROVE  ImportsInv'
  <1> DEFINE e0 == <<n, m>>
  <1>1. PICK g \in [1 .. Len(imports) -> Binds(img)] :
          /\ \A k \in 1 .. Len(imports) : imports[k] = ImportOf(img, g[k]) /\ Read(pc, n, m, g[k])
          /\ \A k, l \in 1 .. Len(imports) : k < l => Before(g[k], g[l])
          /\ \A e \in Binds(img) : Read(pc, n, m, e) => \E k \in 1 .. Len(imports) : g[k] = e
    BY DEF ImportsInv, CollectImport, AtEntry
  <1>2. /\ pc = "imports" /\ pc' = "imports" /\ img' = img /\ n' = n /\ m' = m + 1
        /\ n \in 1 .. Len(img.descs) /\ ~Skipped(img.descs[n]) /\ m \in 1 .. Len(img.descs[n].entries)
    <2>1. n \in Nat /\ n >= 1 /\ m \in Nat /\ m >= 1 /\ IsImage(img)
      BY DEF GivenInv
    <2>2. n <= Len(img.descs) /\ m <= Len(img.descs[n].entries)
      BY DEF CollectImport, AtEntry
    <2>3. img.descs \in Seq(Descriptor)
      BY <2>1 DEF IsImage
    <2>4. n \in 1 .. Len(img.descs)
      BY <2>1, <2>2, <2>3
    <2>5. Len(img.descs[n].entries) \in Nat
      BY <2>3, <2>4 DEF Descriptor
    <2>6. m \in 1 .. Len(img.descs[n].entries)
      BY <2>1, <2>2, <2>5
    <2> QED BY <2>4, <2>6 DEF CollectImport, AtEntry
  <1>3. IsImage(img)
    BY DEF GivenInv
  <1>4. e0 \in Entries(img)
    BY <1>2, <1>3, EntryIs
  <1>5. ASSUME NEW e \in Entries(img)
        PROVE  /\ Read(pc', n', m', e) => Read(pc, n, m, e) \/ e = e0
               /\ Read(pc, n, m, e) => Read(pc', n', m', e) /\ Before(e, e0)
               /\ e = e0 => Read(pc', n', m', e)
    <2>1. e = <<e[1], e[2]>> /\ e[1] \in Nat /\ e[2] \in Nat
      BY <1>3, EntriesAre
    <2>2. e0[1] = n /\ e0[2] = m
      OBVIOUS
    <2>3. e = e0 <=> e[1] = n /\ e[2] = m
      BY <2>1, <2>2
    <2>4. Read(pc, n, m, e) <=> e[1] < n \/ (e[1] = n /\ e[2] < m)
      BY <1>2 DEF Read
    <2>5. Read(pc', n', m', e) <=> e[1] < n \/ (e[1] = n /\ e[2] < m + 1)
      BY <1>2 DEF Read
    <2>6. m \in Nat
      BY DEF GivenInv
    <2>7. e[2] < m + 1 <=> e[2] < m \/ e[2] = m
      BY <2>1, <2>6
    <2>8. Read(pc, n, m, e) => Before(e, e0)
      BY <2>4, <2>2 DEF Before
    <2> HIDE DEF e0
    <2> QED BY <2>3, <2>4, <2>5, <2>7, <2>8
  <1>6. img' = img
    BY <1>2
  <1>7. Binds(img) \subseteq Entries(img)
    BY DEF Binds
  <1>8. CASE e0 \in Binds(img)
    <2>1. imports' = Append(imports, ImportOf(img, e0))
      <3>1. NameOf(img, e0) # "" /\ SectionOf(SlotOf(img, e0)) # {}
        BY <1>8, BindsAre
      <3> QED BY <3>1 DEF CollectImport, ImportOf
    <2>2. imports \in Seq({ImportOf(img, e) : e \in Binds(img)}) /\ Len(imports) \in Nat
      BY <1>2 DEF ImportsInv
    <2>3. imports' \in Seq({ImportOf(img, e) : e \in Binds(img)})
      BY <2>1, <2>2, <1>8
    <2>4. imports' \in Seq({ImportOf(img, e) : e \in Binds(img)})'
      BY <2>3, <1>6, <1>2
    <2>5. /\ Len(imports') = Len(imports) + 1
          /\ imports'[Len(imports) + 1] = ImportOf(img, e0)
          /\ \A k \in 1 .. Len(imports) : imports'[k] = imports[k]
      BY <2>1, <2>2
    <2> DEFINE h == [k \in 1 .. Len(imports) + 1 |-> IF k <= Len(imports) THEN g[k] ELSE e0]
    <2>6. h \in [1 .. Len(imports) + 1 -> Binds(img)]
      BY <1>8, <2>2
    <2>7. /\ h[Len(imports) + 1] = e0 /\ \A k \in 1 .. Len(imports) : h[k] = g[k]
      BY <2>2
    <2>8. 1 .. Len(imports') = (1 .. Len(imports)) \cup {Len(imports) + 1}
      BY <2>2, <2>5
    <2> HIDE DEF h, e0
    <2>9. \A k \in 1 .. Len(imports') : imports'[k] = ImportOf(img', h[k]) /\ Read(pc', n', m', h[k])
      <3>1. ASSUME NEW k \in 1 .. Len(imports) PROVE imports'[k] = ImportOf(img', h[k]) /\ Read(pc', n', m', h[k])
        <4>1. g[k] \in Binds(img) /\ imports[k] = ImportOf(img, g[k]) /\ Read(pc, n, m, g[k]) /\ h[k] = g[k]
          BY <1>1, <2>7
        <4>2. Read(pc', n', m', g[k])
          BY <4>1, <1>5, <1>7
        <4> QED BY <4>1, <4>2, <2>5, <1>6
      <3>2. Read(pc', n', m', e0)
        BY <1>5, <1>4
      <3> QED BY <3>1, <3>2, <2>8, <2>7, <2>5, <1>6
    <2>10. \A k, l \in 1 .. Len(imports') : k < l => Before(h[k], h[l])
      <3> SUFFICES ASSUME NEW k \in 1 .. Len(imports'), NEW l \in 1 .. Len(imports'), k < l
                   PROVE  Before(h[k], h[l])
        OBVIOUS
      <3>1. k \in 1 .. Len(imports)
        BY <2>8, <2>2
      <3>2. h[k] = g[k] /\ g[k] \in Entries(img) /\ Read(pc, n, m, g[k])
        BY <3>1, <2>7, <1>1, <1>7
      <3>3. CASE l = Len(imports) + 1
        BY <3>2, <3>3, <2>7, <1>5
      <3>4. CASE l \in 1 .. Len(imports)
        BY <3>1, <3>2, <3>4, <2>7, <1>1
      <3> QED BY <3>3, <3>4, <2>8
    <2>11. \A e \in Binds(img) : Read(pc', n', m', e) => \E k \in 1 .. Len(imports') : h[k] = e
      BY <1>1, <1>5, <1>7, <2>7, <2>8
    <2>12. pc' # "failed" /\ Binds(img)' = Binds(img)
      BY <1>2
    <2>13. h \in [1 .. Len(imports') -> Binds(img)]
      BY <2>6, <2>5
    <2> QED BY <2>4, <2>9, <2>10, <2>11, <2>12, <2>13, <1>2 DEF ImportsInv
  <1>9. CASE e0 \notin Binds(img)
    <2>1. imports' = imports
      <3>1. SectionOf(SlotOf(img, e0)) = {} \/ NameOf(img, e0) = ""
        BY <1>4, <1>9, <1>2, InSectionIs DEF Binds
      <3> QED BY <3>1 DEF CollectImport
    <2>2. \A e \in Binds(img) : Read(pc', n', m', e) <=> Read(pc, n, m, e)
      BY <1>5, <1>7, <1>9
    <2> QED BY <2>1, <2>2, <1>2, ImportsStay
  <1> QED BY <1>8, <1>9

(* The imports are those read so far.                                      *)
LEMMA ImportsStep == GivenInv /\ ImportsInv /\ [Next]_vars => ImportsInv'
  <1> SUFFICES ASSUME GivenInv, ImportsInv, [Next]_vars PROVE ImportsInv'
    OBVIOUS
  <1>1. CASE CollectImport
    BY <1>1, ImportsCollect
  <1>2. CASE pc' = "failed"
    BY <1>2 DEF ImportsInv
  <1>3. IsImage(img) /\ n \in Nat /\ m \in Nat
    BY DEF GivenInv
  <1>4. \A e \in Binds(img) : /\ e[1] \in 1 .. Len(img.descs) /\ e[2] \in 1 .. Len(img.descs[e[1]].entries)
                             /\ Len(img.descs[e[1]].entries) \in Nat /\ ~Skipped(img.descs[e[1]])
    BY <1>3, BindsAre, EntriesAre
  <1>5. CASE NextDescriptor
    <2>1. /\ pc = "imports" /\ pc' = "imports" /\ n' = n + 1 /\ m' = 1 /\ img' = img /\ imports' = imports
          /\ Skipped(img.descs[n]) \/ m > Len(img.descs[n].entries)
      BY <1>5 DEF NextDescriptor
    <2>2. ASSUME NEW e \in Binds(img) PROVE Read(pc', n', m', e) <=> Read(pc, n, m, e)
      <3>1. Read(pc, n, m, e) <=> e[1] < n \/ (e[1] = n /\ e[2] < m)
        BY <2>1 DEF Read
      <3>2. Read(pc', n', m', e) <=> e[1] < n + 1 \/ (e[1] = n + 1 /\ e[2] < 1)
        BY <2>1 DEF Read
      <3>3. e[1] \in Nat /\ e[2] \in Nat /\ e[2] >= 1 /\ (e[1] = n => e[2] < m)
        <4>1. e[1] \in Nat /\ e[2] \in Nat /\ e[2] >= 1
          BY <1>4
        <4>2. e[1] = n => e[2] <= Len(img.descs[n].entries) /\ ~Skipped(img.descs[n])
                          /\ Len(img.descs[n].entries) \in Nat
          BY <1>4
        <4>3. e[1] = n => e[2] < m
          BY <4>1, <4>2, <2>1, <1>3
        <4> QED BY <4>1, <4>3
      <3>4. e[1] < n + 1 <=> e[1] < n \/ e[1] = n
        BY <3>3, <1>3
      <3>5. ~(e[2] < 1)
        BY <3>3
      <3> QED BY <3>1, <3>2, <3>3, <3>4, <3>5
    <2> QED BY <2>1, <2>2, ImportsStay
  <1>6. CASE ImportsDone
    <2>1. pc = "imports" /\ pc' = "relocs" /\ n > Len(img.descs) /\ img' = img /\ imports' = imports
      BY <1>6 DEF ImportsDone
    <2>2. Len(img.descs) \in Nat
      BY <1>3 DEF IsImage
    <2>3. ASSUME NEW e \in Binds(img) PROVE Read(pc', n', m', e) <=> Read(pc, n, m, e)
      <3>1. e[1] < n
        BY <1>3, <1>4, <2>1, <2>2
      <3> QED BY <3>1, <2>1 DEF Read
    <2> QED BY <2>1, <2>3, ImportsStay
  <1>7. CASE pc' = pc /\ n' = n /\ m' = m /\ imports' = imports /\ pc # "failed"
    <2>1. img' = img
      BY ReadersWrite
    <2>2. \A e \in Binds(img) : Read(pc', n', m', e) <=> Read(pc, n, m, e)
      BY <1>7 DEF Read
    <2> QED BY <1>7, <2>1, <2>2, ImportsStay
  <1>8. CASE pc # "imports" /\ pc' # "imports" /\ imports' = imports /\ pc # "failed"
    <2>1. img' = img
      BY ReadersWrite
    <2>2. \A e \in Binds(img) : Read(pc', n', m', e) <=> Read(pc, n, m, e)
      BY <1>8 DEF Read
    <2> QED BY <1>8, <2>1, <2>2, ImportsStay
  <1>9. ASSUME ~CollectImport, ~NextDescriptor, ~ImportsDone, pc' # "failed"
        PROVE  /\ imports' = imports /\ pc # "failed"
               /\ (pc' = pc /\ n' = n /\ m' = m) \/ (pc # "imports" /\ pc' # "imports")
    BY <1>9 DEF Next, vars, LostDirectory, UnknownOrdinal,
         CollectReloc, RelocsDone, CannotRebase, Rebase, Rebased, CollectTls, NameImport, BuildRela,
         BuildHash, HashDone, Finalize, CannotFinalize, PatchAndWrite, Map, Relocate, Enter, Fail
  <1> QED BY <1>1, <1>2, <1>5, <1>6, <1>7, <1>8, <1>9

-----------------------------------------------------------------------------
(* What the imports are once all are read.                                 *)

(* The parts of an import.                                                 *)
LEMMA ImportParts ==
  ASSUME NEW e
  PROVE  /\ ImportOf(img, e).slot = SlotOf(img, e) /\ ImportOf(img, e).fn = NameOf(img, e)
         /\ ImportOf(img, e).dll = img.descs[e[1]].dll
         /\ Symbol(ImportOf(img, e)) = SymbolOf(img, e)
  BY DEF ImportOf, Symbol, SymbolOf

(* An import is an entry that binds.                                       *)
LEMMA ImportIs ==
  ASSUME GivenInv, ImportsInv, pc # "failed", NEW k \in 1 .. Len(imports)
  PROVE  \E e \in Binds(img) : /\ imports[k] = ImportOf(img, e) /\ Symbol(imports[k]) = SymbolOf(img, e)
                               /\ imports[k].slot = SlotOf(img, e) /\ SlotOf(img, e) \in Nat
                               /\ Symbol(imports[k]) \in DOMAIN Hash
  <1>1. PICK e \in Binds(img) : imports[k] = ImportOf(img, e)
    BY DEF ImportsInv
  <1>2. e \in Entries(img) /\ NameOf(img, e) # "" /\ IsImage(img)
    BY BindsAre DEF GivenInv
  <1>3. SlotOf(img, e) \in Nat
    BY <1>2, EntriesAre
  <1>4. Symbol(imports[k]) = SymbolOf(img, e) /\ imports[k].slot = SlotOf(img, e)
    BY <1>1 DEF Symbol, ImportOf, SymbolOf
  <1> QED BY <1>1, <1>2, <1>3, <1>4 DEF GivenInv

(* The slots of the imports are those that are bound.                      *)
LEMMA SlotsBound ==
  ASSUME GivenInv, ImportsInv, pc \notin {"imports", "failed"}, NEW rva
  PROVE  BindsAt(img, rva) # {} <=> \E k \in 1 .. Len(imports) : imports[k].slot = rva
  <1>1. PICK g \in [1 .. Len(imports) -> Binds(img)] :
          /\ \A k \in 1 .. Len(imports) : imports[k] = ImportOf(img, g[k])
          /\ \A e \in Binds(img) : Read(pc, n, m, e) => \E k \in 1 .. Len(imports) : g[k] = e
    BY DEF ImportsInv
  <1>2. \A e : Read(pc, n, m, e)
    BY DEF Read
  <1>3. \A k \in 1 .. Len(imports) : imports[k].slot = SlotOf(img, g[k]) /\ g[k] \in Binds(img)
    BY <1>1, ImportParts
  <1>4. ASSUME BindsAt(img, rva) # {} PROVE \E k \in 1 .. Len(imports) : imports[k].slot = rva
    <2>1. PICK e \in Binds(img) : SlotOf(img, e) = rva
      BY <1>4 DEF BindsAt
    <2>2. PICK k \in 1 .. Len(imports) : g[k] = e
      BY <1>1, <1>2
    <2> QED BY <2>1, <2>2, <1>3
  <1>5. ASSUME NEW k \in 1 .. Len(imports), imports[k].slot = rva PROVE BindsAt(img, rva) # {}
    BY <1>3, <1>5 DEF BindsAt
  <1> QED BY <1>4, <1>5

(* The last import of a slot is the last entry that binds it.              *)
LEMMA LastImport ==
  ASSUME GivenInv, ImportsInv, pc \notin {"imports", "failed"}, NEW k \in 1 .. Len(imports),
         \A l \in 1 .. Len(imports) : imports[l].slot = imports[k].slot => l <= k
  PROVE  Symbol(imports[k]) = SymbolOf(img, LastOf(BindsAt(img, imports[k].slot)))
  <1> DEFINE E == BindsAt(img, imports[k].slot)
  <1>1. PICK g \in [1 .. Len(imports) -> Binds(img)] :
          /\ \A q \in 1 .. Len(imports) : imports[q] = ImportOf(img, g[q])
          /\ \A q, l \in 1 .. Len(imports) : q < l => Before(g[q], g[l])
          /\ \A e \in Binds(img) : Read(pc, n, m, e) => \E q \in 1 .. Len(imports) : g[q] = e
    BY DEF ImportsInv
  <1>2. \A e : Read(pc, n, m, e)
    BY DEF Read
  <1>3. \A q \in 1 .. Len(imports) : imports[q].slot = SlotOf(img, g[q]) /\ g[q] \in Binds(img)
    BY <1>1, ImportParts
  <1>4. Symbol(imports[k]) = SymbolOf(img, g[k])
    BY <1>1, ImportParts
  <1>5. g[k] \in E
    BY <1>3 DEF BindsAt
  <1>6. \A f \in E : f = g[k] \/ Before(f, g[k])
    <2> SUFFICES ASSUME NEW f \in E PROVE f = g[k] \/ Before(f, g[k])
      OBVIOUS
    <2>1. f \in Binds(img) /\ SlotOf(img, f) = imports[k].slot
      BY DEF BindsAt
    <2>2. PICK q \in 1 .. Len(imports) : g[q] = f
      BY <1>1, <1>2, <2>1
    <2>3. q <= k
      BY <2>1, <2>2, <1>3
    <2>4. q = k \/ q < k
      BY <2>3
    <2> QED BY <1>1, <2>2, <2>4
  <1>7. E \subseteq Entries(img) /\ IsImage(img)
    BY DEF BindsAt, Binds, GivenInv
  <1>8. LastOf(E) = g[k]
    <2> HIDE DEF E
    <2>1. \E e \in E : \A f \in E : f = e \/ Before(f, e)
      BY <1>5, <1>6
    <2>2. LastOf(E) \in E /\ \A f \in E : f = LastOf(E) \/ Before(f, LastOf(E))
      BY <2>1 DEF LastOf
    <2>3. g[k] = LastOf(E) \/ (Before(g[k], LastOf(E)) /\ Before(LastOf(E), g[k]))
      BY <2>2, <1>5, <1>6
    <2> QED BY <2>2, <2>3, <1>5, <1>7, BeforeOrder
  <1> QED BY <1>4, <1>8

-----------------------------------------------------------------------------
(* The buffer keeps its shape.                                             *)

(* The indices of relocations, while they are used.                        *)
LEMMA RelocTypes ==
  ASSUME GivenInv, NEW k \in 1 .. Len(img.sites), HasData(img, img.sites[k].rva)
  PROVE  /\ img.sites[k].rva \in Nat /\ img.sites[k].rva \in DOMAIN img.data
         /\ img.data[img.sites[k].rva] \in Int /\ img.base \in Nat
         /\ RelocOf(img, k) \in [va : Int, addend : Int]
  <1>1. IsImage(img)
    BY DEF GivenInv
  <1>a. img.sites \in Seq([type : 0 .. 15, rva : Nat])
    BY <1>1 DEF IsImage
  <1>2. img.sites[k] \in [type : 0 .. 15, rva : Nat]
    BY <1>a, ElementOfSeq, Zenon
  <1>3. img.sites[k].rva \in Nat /\ img.sites[k].rva \in DOMAIN img.data /\ img.base \in Nat
    BY <1>1, <1>2 DEF HasData, IsImage
  <1>4. img.data[img.sites[k].rva] \in Int
    BY <1>1, <1>3 DEF IsImage
  <1> QED BY <1>3, <1>4 DEF RelocOf

(* It is the file until it is relocated, and has the same words then.      *)
LEMMA FileStep == GivenInv /\ RelocsInv /\ FileInv /\ [Next]_vars => FileInv'
  <1> SUFFICES ASSUME GivenInv, RelocsInv, FileInv, [Next]_vars, pc' # "failed" PROVE FileInv'
    BY DEF FileInv
  <1>1. img' = img
    BY ReadersWrite
  <1>2. pc # "failed"
    BY DEF Next, vars, LostDirectory, CollectImport, UnknownOrdinal, NextDescriptor, ImportsDone, AtEntry,
         CollectReloc, RelocsDone, CannotRebase, Rebase, Rebased, CollectTls, NameImport, BuildRela,
         BuildHash, HashDone, Finalize, CannotFinalize, PatchAndWrite, Map, Relocate, Enter, Fail
  <1>3. buf \in [DOMAIN img.data -> Int]
    BY <1>2 DEF FileInv
  <1>4. CASE Rebase
    <2>1. pc = "rebase" /\ pc' = "rebase"
          /\ buf' = [buf EXCEPT ![relocs[n].va - base] = @ + (opt.base - base)]
      BY <1>4 DEF Rebase
    <2>a. opt \in Option /\ IsImage(img) /\ base = img.base
      BY <2>1 DEF GivenInv
    <2>2. opt.base \in Int /\ base \in Int
      BY <2>a DEF IsImage, Option
    <2>b. opt.base - base \in Int
      BY <2>2
    <2>c. \A rva \in DOMAIN img.data : buf[rva] + (opt.base - base) \in Int
      BY <1>3, <2>b
    <2>3. buf' \in [DOMAIN img.data -> Int]
      BY <1>3, <2>1, <2>c
    <2> QED BY <1>1, <2>1, <2>3 DEF FileInv
  <1>5. CASE PatchAndWrite
    <2>1. pc' = "written" /\ DOMAIN buf' = DOMAIN buf /\ \A rva \in DOMAIN buf : buf'[rva] \in {0, buf[rva]}
      BY <1>5 DEF PatchAndWrite
    <2>2. buf' = [rva \in DOMAIN buf |-> buf'[rva]]
      BY <1>5 DEF PatchAndWrite
    <2>3. buf' \in [DOMAIN img.data -> Int]
      BY <1>3, <2>1, <2>2
    <2> QED BY <1>1, <2>1, <2>3 DEF FileInv
  <1>6. CASE buf' = buf
    <2>1. pc' \in {"imports", "relocs"} => pc \in {"imports", "relocs"}
      BY StageSteps DEF ImportsDone, RelocsDone, Rebased, CollectTls, BuildRela, HashDone, Finalize,
           PatchAndWrite, Map, Enter
    <2> QED BY <1>1, <1>2, <1>6, <2>1 DEF FileInv
  <1> QED BY <1>4, <1>5, <1>6, ReadersWrite

-----------------------------------------------------------------------------
(* Base relocations.                                                       *)

(* One more entry is read.                                                 *)
LEMMA RelocsCollect ==
  ASSUME GivenInv, ImportsInv, FileInv, RelocsInv, CollectReloc
  PROVE  RelocsInv'
  <1>1. /\ pc = "relocs" /\ pc' = "relocs" /\ img' = img /\ n' = n + 1
        /\ relocs' = IF /\ img.sites[n].type = 10 /\ HasOffset(img.sites[n].rva) /\ InFile(img.sites[n].rva)
                        /\ ~IsIat(base + img.sites[n].rva)
                     THEN Append(relocs, [va |-> base + img.sites[n].rva, addend |-> buf[img.sites[n].rva]])
                     ELSE relocs
    BY DEF CollectReloc
  <1>2. n \in 1 .. Len(img.sites) /\ img.sites[n].rva \in Nat /\ base = img.base /\ base \in Nat
        /\ Len(img.sites) \in Nat
    <2>1. IsImage(img) /\ n \in Nat /\ n >= 1
      BY DEF GivenInv
    <2>2. n <= Len(img.sites) /\ Len(img.sites) \in Nat
      BY <2>1 DEF CollectReloc, IsImage
    <2>3. n \in 1 .. Len(img.sites)
      BY <2>1, <2>2
    <2>a. img.sites \in Seq([type : 0 .. 15, rva : Nat])
      BY <2>1 DEF IsImage
    <2>4. img.sites[n] \in [type : 0 .. 15, rva : Nat]
      BY <2>3, <2>a, ElementOfSeq, Zenon
    <2> QED BY <2>1, <2>2, <2>3, <2>4, <1>1 DEF GivenInv, IsImage
  <1>3. buf = img.data
    BY <1>1 DEF FileInv
  <1>4. HasOffset(img.sites[n].rva) /\ InFile(img.sites[n].rva) <=> HasData(img, img.sites[n].rva)
    BY <1>3 DEF HasOffset, InFile, HasData, Secs
  <1>5. IsIat(base + img.sites[n].rva) <=> BindsAt(img, img.sites[n].rva) # {}
    <2>1. BindsAt(img, img.sites[n].rva) # {} <=> \E k \in 1 .. Len(imports) : imports[k].slot = img.sites[n].rva
      BY <1>1, SlotsBound
    <2>2. \A k \in 1 .. Len(imports) : imports[k].slot \in Nat
      BY <1>1, ImportIs
    <2>3. \A k \in 1 .. Len(imports) : base + imports[k].slot = base + img.sites[n].rva
                                       <=> imports[k].slot = img.sites[n].rva
      BY <2>2, <1>2
    <2> QED BY <2>1, <2>3 DEF IsIat
  <1>6. img.sites[n].type = 10 => IsSite(img, img.sites[n].rva)
    BY <1>2 DEF IsSite
  <1>7. relocs' = IF Kept(img, n) THEN Append(relocs, RelocOf(img, n)) ELSE relocs
    BY <1>1, <1>2, <1>3, <1>4, <1>5, <1>6 DEF Kept, Moves, RelocOf
  <1>8. PICK g \in [1 .. Len(relocs) -> 1 .. Len(img.sites)] :
          /\ \A k \in 1 .. Len(relocs) : g[k] < n /\ Kept(img, g[k]) /\ relocs[k] = RelocOf(img, g[k])
          /\ \A k, l \in 1 .. Len(relocs) : k < l => g[k] < g[l]
          /\ \A l \in 1 .. Len(img.sites) : l < n /\ Kept(img, l) => \E k \in 1 .. Len(relocs) : g[k] = l
    BY <1>1 DEF RelocsInv, RelocsUpTo
  <1>9. relocs \in Seq([va : Int, addend : Int]) /\ Len(relocs) \in Nat
    BY <1>1 DEF RelocsInv
  <1>10. \A k \in 1 .. Len(img.sites) : k < n + 1 <=> k < n \/ k = n
    BY <1>2
  <1>11. \A k \in 1 .. Len(relocs) : g[k] \in 1 .. Len(img.sites) /\ g[k] < n + 1
    BY <1>8, <1>10
  <1>12. CASE ~Kept(img, n)
    <2>1. relocs' = relocs
      BY <1>7, <1>12
    <2>2. /\ \A k \in 1 .. Len(relocs) : g[k] < n + 1 /\ Kept(img, g[k]) /\ relocs[k] = RelocOf(img, g[k])
          /\ \A k, l \in 1 .. Len(relocs) : k < l => g[k] < g[l]
          /\ \A l \in 1 .. Len(img.sites) : l < n + 1 /\ Kept(img, l) => \E k \in 1 .. Len(relocs) : g[k] = l
      BY <1>8, <1>10, <1>11, <1>12
    <2>3. RelocsUpTo(n)'
      BY <2>1, <2>2, <1>1 DEF RelocsUpTo
    <2> QED BY <2>1, <2>3, <1>1, <1>9 DEF RelocsInv
  <1>13. CASE Kept(img, n)
    <2>1. relocs' = Append(relocs, RelocOf(img, n))
      BY <1>7, <1>13
    <2>2. RelocOf(img, n) \in [va : Int, addend : Int]
      BY <1>2, <1>13, RelocTypes DEF Kept, Moves
    <2>3. /\ relocs' \in Seq([va : Int, addend : Int]) /\ Len(relocs') = Len(relocs) + 1
          /\ relocs'[Len(relocs) + 1] = RelocOf(img, n)
          /\ \A k \in 1 .. Len(relocs) : relocs'[k] = relocs[k]
      BY <2>1, <2>2, <1>9
    <2>4. 1 .. Len(relocs') = (1 .. Len(relocs)) \cup {Len(relocs) + 1}
      BY <2>3, <1>9
    <2> DEFINE h == [k \in 1 .. Len(relocs) + 1 |-> IF k <= Len(relocs) THEN g[k] ELSE n]
    <2>5. h \in [1 .. Len(relocs') -> 1 .. Len(img.sites)]
      BY <1>2, <1>9, <2>3
    <2>6. h[Len(relocs) + 1] = n /\ \A k \in 1 .. Len(relocs) : h[k] = g[k]
      BY <1>9
    <2> HIDE DEF h
    <2>7. \A k \in 1 .. Len(relocs') : h[k] < n + 1 /\ Kept(img, h[k]) /\ relocs'[k] = RelocOf(img, h[k])
      <3>1. ASSUME NEW k \in 1 .. Len(relocs)
            PROVE  h[k] < n + 1 /\ Kept(img, h[k]) /\ relocs'[k] = RelocOf(img, h[k])
        BY <1>8, <1>11, <2>3, <2>6
      <3>2. n < n + 1
        BY <1>2
      <3> QED BY <3>1, <3>2, <2>3, <2>4, <2>6, <1>13
    <2>8. \A k, l \in 1 .. Len(relocs') : k < l => h[k] < h[l]
      <3> SUFFICES ASSUME NEW k \in 1 .. Len(relocs'), NEW l \in 1 .. Len(relocs'), k < l PROVE h[k] < h[l]
        OBVIOUS
      <3>1. k \in 1 .. Len(relocs)
        BY <2>3, <1>9
      <3>2. l \in 1 .. Len(relocs) \/ l = Len(relocs) + 1
        BY <2>4
      <3> QED BY <3>1, <3>2, <1>8, <2>6
    <2>9. \A l \in 1 .. Len(img.sites) : l < n + 1 /\ Kept(img, l) => \E k \in 1 .. Len(relocs') : h[k] = l
      BY <1>8, <1>10, <2>4, <2>6
    <2>10. RelocsUpTo(n)'
      <3>1. \E f \in [1 .. Len(relocs') -> 1 .. Len(img.sites)] :
              /\ \A k \in 1 .. Len(relocs') : f[k] < n + 1 /\ Kept(img, f[k]) /\ relocs'[k] = RelocOf(img, f[k])
              /\ \A k, l \in 1 .. Len(relocs') : k < l => f[k] < f[l]
              /\ \A l \in 1 .. Len(img.sites) :
                   l < n + 1 /\ Kept(img, l) => \E k \in 1 .. Len(relocs') : f[k] = l
        BY <2>5, <2>7, <2>8, <2>9
      <3> QED BY <3>1, <1>1 DEF RelocsUpTo
    <2> QED BY <2>3, <2>10, <1>1 DEF RelocsInv
  <1> QED BY <1>12, <1>13

(* The relocations are those read so far.                                  *)
LEMMA RelocsStep == GivenInv /\ ImportsInv /\ FileInv /\ RelocsInv /\ [Next]_vars => RelocsInv'
  <1> SUFFICES ASSUME GivenInv, ImportsInv, FileInv, RelocsInv, [Next]_vars, pc' # "failed" PROVE RelocsInv'
    BY DEF RelocsInv
  <1>1. img' = img /\ opt' = opt
    BY ReadersWrite
  <1>2. pc # "failed"
    BY DEF Next, vars, LostDirectory, CollectImport, UnknownOrdinal, NextDescriptor, ImportsDone, AtEntry,
         CollectReloc, RelocsDone, CannotRebase, Rebase, Rebased, CollectTls, NameImport, BuildRela,
         BuildHash, HashDone, Finalize, CannotFinalize, PatchAndWrite, Map, Relocate, Enter, Fail
  <1>3. relocs \in Seq([va : Int, addend : Int]) /\ IsImage(img) /\ Len(img.sites) \in Nat /\ n \in Nat
    <2>1. relocs \in Seq([va : Int, addend : Int]) /\ IsImage(img) /\ n \in Nat
      BY <1>2 DEF RelocsInv, GivenInv
    <2>2. img.sites \in Seq([type : 0 .. 15, rva : Nat])
      BY <2>1 DEF IsImage
    <2> QED BY <2>1, <2>2
  <1>4. CASE CollectReloc
    BY <1>4, RelocsCollect
  <1>5. CASE Rebased
    <2>1. pc = "rebase" /\ pc' = "tls" /\ relocs' = <<>> /\ opt.base # 0
      BY <1>5 DEF Rebased, GivenInv
    <2> QED BY <2>1, <1>1 DEF RelocsInv
  <1>6. CASE ImportsDone
    <2>1. pc = "imports" /\ pc' = "relocs" /\ n' = 1 /\ relocs' = relocs /\ relocs = <<>>
      BY <1>6 DEF ImportsDone, RelocsInv
    <2> DEFINE g == [k \in 1 .. 0 |-> 1]
    <2>2. Len(relocs') = 0 /\ 1 .. 0 = {} /\ g \in [1 .. 0 -> 1 .. Len(img.sites)]
      BY <2>1
    <2>3. \A l \in 1 .. Len(img.sites) : ~(l < 1)
      BY <1>3
    <2>4. RelocsUpTo(n)'
      BY <2>1, <2>2, <2>3, <1>1 DEF RelocsUpTo
    <2> QED BY <2>1, <2>4, <1>3 DEF RelocsInv
  <1>7. CASE RelocsDone
    <2>1. pc = "relocs" /\ pc' \in {"rebase", "tls"} /\ relocs' = relocs /\ n > Len(img.sites)
          /\ (pc' = "tls" => opt.base = 0)
      BY <1>7 DEF RelocsDone
    <2>2. \A l \in 1 .. Len(img.sites) : l < n /\ l < Len(img.sites) + 1
      BY <1>3, <2>1
    <2>3. RelocsUpTo(n)
      BY <2>1 DEF RelocsInv
    <2>4. RelocsUpTo(Len(img.sites) + 1)'
      BY <2>1, <2>2, <2>3, <1>1 DEF RelocsUpTo
    <2> QED BY <2>1, <2>4, <1>1, <1>3 DEF RelocsInv
  <1>8. CASE relocs' = relocs /\ ~CollectReloc /\ ~ImportsDone /\ ~RelocsDone
    <2>1. \/ pc' = pc /\ (pc = "relocs" => n' = n)
          \/ pc \notin {"imports", "relocs", "rebase"} /\ pc' \notin {"imports", "relocs", "rebase"}
          \/ Rebased
      BY <1>8, <1>2 DEF Next, vars, LostDirectory, CollectImport, UnknownOrdinal, NextDescriptor, AtEntry,
         CannotRebase, Rebase, CollectTls, NameImport, BuildRela,
         BuildHash, HashDone, Finalize, CannotFinalize, PatchAndWrite, Map, Relocate, Enter, Fail
    <2>2. ASSUME NEW k PROVE RelocsUpTo(k) => RelocsUpTo(k)'
      BY <1>1, <1>8 DEF RelocsUpTo
    <2>3. CASE pc' = pc /\ (pc = "relocs" => n' = n)
      <3>1. RelocsUpTo(n) /\ n' = n => RelocsUpTo(n)'
        BY <1>1, <1>8 DEF RelocsUpTo
      <3>2. RelocsUpTo(Len(img.sites) + 1) => RelocsUpTo(Len(img.sites) + 1)'
        BY <1>1, <1>8 DEF RelocsUpTo
      <3> QED BY <3>1, <3>2, <2>3, <1>1, <1>2, <1>3, <1>8 DEF RelocsInv
    <2>4. CASE pc \notin {"imports", "relocs", "rebase"} /\ pc' \notin {"imports", "relocs", "rebase"}
      <3>1. RelocsUpTo(Len(img.sites) + 1) => RelocsUpTo(Len(img.sites) + 1)'
        BY <1>1, <1>8 DEF RelocsUpTo
      <3> QED BY <3>1, <2>4, <1>1, <1>2, <1>3, <1>8 DEF RelocsInv
    <2> QED BY <2>1, <2>3, <2>4, <1>5
  <1> QED BY <1>4, <1>5, <1>6, <1>7, <1>8, ReadersWrite

(* The parts of a relocation.                                              *)
LEMMA RelocParts ==
  ASSUME NEW k
  PROVE  /\ RelocOf(img, k).va = img.base + img.sites[k].rva
         /\ RelocOf(img, k).addend = img.data[img.sites[k].rva]
  BY DEF RelocOf

(* A distance from the base.                                               *)
LEMMA Distance == \A b, r \in Int : b + r - b = r
  OBVIOUS

(* The relocations, once all are read, are the pointers to relocate.       *)
LEMMA RelocsCover ==
  ASSUME GivenInv, RelocsUpTo(Len(img.sites) + 1)
  PROVE  /\ \A k \in 1 .. Len(relocs) : \E r \in Nat :
              /\ Moves(img, r) /\ r \in DOMAIN img.data /\ img.data[r] \in Int
              /\ relocs[k].va = img.base + r /\ relocs[k].addend = img.data[r] /\ relocs[k].va - img.base = r
         /\ \A r : Moves(img, r) => \E k \in 1 .. Len(relocs) : relocs[k].va - img.base = r
         /\ img.base \in Nat
  <1>1. PICK g \in [1 .. Len(relocs) -> 1 .. Len(img.sites)] :
          /\ \A k \in 1 .. Len(relocs) : Kept(img, g[k]) /\ relocs[k] = RelocOf(img, g[k])
          /\ \A l \in 1 .. Len(img.sites) : l < Len(img.sites) + 1 /\ Kept(img, l)
                                            => \E k \in 1 .. Len(relocs) : g[k] = l
    BY DEF RelocsUpTo
  <1>2. IsImage(img)
    BY DEF GivenInv
  <1>3. img.base \in Nat /\ Len(img.sites) \in Nat
    BY <1>2 DEF IsImage
  <1>4. ASSUME NEW k \in 1 .. Len(relocs)
        PROVE  \E r \in Nat :
              /\ Moves(img, r) /\ r \in DOMAIN img.data /\ img.data[r] \in Int
              /\ relocs[k].va = img.base + r /\ relocs[k].addend = img.data[r] /\ relocs[k].va - img.base = r
    <2> DEFINE r == img.sites[g[k]].rva
    <2>1. g[k] \in 1 .. Len(img.sites) /\ Moves(img, r) /\ relocs[k] = RelocOf(img, g[k])
      BY <1>1 DEF Kept
    <2>2. r \in Nat /\ r \in DOMAIN img.data /\ img.data[r] \in Int
      BY <2>1, RelocTypes DEF Moves
    <2>3. relocs[k].va = img.base + r /\ relocs[k].addend = img.data[r]
      BY <2>1, RelocParts
    <2> HIDE DEF r
    <2>4. img.base \in Int /\ r \in Int
      BY <2>2, <1>3
    <2>5. relocs[k].va - img.base = r
      BY <2>3, <2>4, Distance
    <2> QED BY <2>1, <2>2, <2>3, <2>5, Zenon
  <1>5. ASSUME NEW r, Moves(img, r) PROVE \E k \in 1 .. Len(relocs) : relocs[k].va - img.base = r
    <2>1. PICK l \in 1 .. Len(img.sites) : img.sites[l].type = 10 /\ img.sites[l].rva = r
      BY <1>5 DEF Moves, IsSite
    <2>2. Kept(img, l) /\ l < Len(img.sites) + 1
      BY <2>1, <1>5, <1>3 DEF Kept
    <2>3. PICK k \in 1 .. Len(relocs) : g[k] = l
      BY <1>1, <2>2
    <2>4. relocs[k] = RelocOf(img, l)
      BY <2>3, <1>1
    <2>5. relocs[k].va = img.base + r
      BY <2>1, <2>4, RelocParts
    <2>6. r \in Nat
      BY <2>1, <2>2, RelocTypes DEF Kept, Moves
    <2>7. img.base \in Int /\ r \in Int
      BY <2>6, <1>3
    <2>8. relocs[k].va - img.base = r
      BY <2>5, <2>7, Distance
    <2> QED BY <2>8
  <1> QED BY <1>3, <1>4, <1>5

(* --base finds every pointer once.                                        *)
LEMMA RelocsOnce ==
  ASSUME GivenInv, RelocsUpTo(Len(img.sites) + 1), SitesSound(Job), opt.base # 0,
         NEW k \in 1 .. Len(relocs), NEW l \in 1 .. Len(relocs), relocs[k].va - img.base = relocs[l].va - img.base
  PROVE  k = l
  <1>1. PICK g \in [1 .. Len(relocs) -> 1 .. Len(img.sites)] :
          /\ \A q \in 1 .. Len(relocs) : Kept(img, g[q]) /\ relocs[q] = RelocOf(img, g[q])
          /\ \A p, q \in 1 .. Len(relocs) : p < q => g[p] < g[q]
    BY DEF RelocsUpTo
  <1>2. IsImage(img)
    BY DEF GivenInv
  <1>3. img.base \in Nat
    BY <1>2 DEF IsImage
  <1>4. img.sites \in Seq([type : 0 .. 15, rva : Nat])
    BY <1>2 DEF IsImage
  <1>5. ASSUME NEW q \in 1 .. Len(relocs)
        PROVE  /\ g[q] \in 1 .. Len(img.sites) /\ img.sites[g[q]] \in [type : 0 .. 15, rva : Nat]
               /\ img.sites[g[q]].type = 10 /\ relocs[q].va = img.base + img.sites[g[q]].rva
    <2>1. g[q] \in 1 .. Len(img.sites)
      BY <1>1
    <2>2. img.sites[g[q]] \in [type : 0 .. 15, rva : Nat]
      BY <2>1, <1>4, ElementOfSeq, Zenon
    <2>3. Kept(img, g[q]) /\ relocs[q].va = img.base + img.sites[g[q]].rva
      BY <1>1, RelocParts
    <2> QED BY <2>1, <2>2, <2>3 DEF Kept
  <1>6. img.sites[g[k]].rva = img.sites[g[l]].rva
    <2>1. img.sites[g[k]].rva \in Nat /\ img.sites[g[l]].rva \in Nat
      BY <1>5
    <2>2. img.base \in Int /\ img.sites[g[k]].rva \in Int /\ img.sites[g[l]].rva \in Int
      BY <2>1, <1>3
    <2>3. relocs[k].va - img.base = img.sites[g[k]].rva
      BY <1>5, <2>2, Distance
    <2>4. relocs[l].va - img.base = img.sites[g[l]].rva
      BY <1>5, <2>2, Distance
    <2> QED BY <2>3, <2>4
  <1>7. img.sites[g[k]] = img.sites[g[l]]
    <2>1. img.sites[g[k]].type = 10 /\ img.sites[g[l]].type = 10
      BY <1>5
    <2>2. /\ img.sites[g[k]] = [type |-> img.sites[g[k]].type, rva |-> img.sites[g[k]].rva]
          /\ img.sites[g[l]] = [type |-> img.sites[g[l]].type, rva |-> img.sites[g[l]].rva]
      BY <1>5
    <2> QED BY <2>1, <2>2, <1>6
  <1>8. g[k] = g[l]
    <2>1. \A p, q \in 1 .. Len(img.sites) : img.sites[p] = img.sites[q] /\ img.sites[p].type = 10 => p = q
      BY DEF SitesSound, Job
    <2> QED BY <2>1, <1>5, <1>7
  <1>9. ~(k < l) /\ ~(l < k)
    BY <1>1, <1>8, <1>5
  <1> QED BY <1>9

(* What is added to a pointer, once all is relocated.                      *)
LEMMA WordIs ==
  ASSUME GivenInv, FileInv, pc # "failed", NEW rva \in DOMAIN buf
  PROVE  /\ rva \in Nat /\ rva \in DOMAIN img.data /\ img.data[rva] \in Int /\ LinkBase \in Nat /\ img.base \in Nat
         /\ opt.base \in Nat
         /\ Word(rva) \in Int
         /\ LinkBase = img.base => Word(rva) = img.data[rva]
  <1>1. IsImage(img) /\ opt \in Option
    BY DEF GivenInv
  <1>2. rva \in DOMAIN img.data
    BY DEF FileInv
  <1>3. rva \in Nat /\ img.data[rva] \in Int /\ img.base \in Nat /\ opt.base \in Nat
    BY <1>1, <1>2 DEF IsImage, Option
  <1>4. LinkBase \in Nat
    BY <1>3 DEF LinkBase
  <1> QED BY <1>2, <1>3, <1>4 DEF Word

(* One pointer is rebased.                                                 *)
LEMMA BufRebase ==
  ASSUME GivenInv, FileInv, RelocsInv, SitesSound(Job), BufInv, Rebase
  PROVE  BufInv'
  <1>1. /\ pc = "rebase" /\ pc' = "rebase" /\ n <= Len(relocs) /\ n' = n + 1 /\ img' = img /\ opt' = opt
        /\ base' = base /\ relocs' = relocs /\ base = img.base /\ opt.base # 0
        /\ buf' = [buf EXCEPT ![relocs[n].va - base] = @ + (opt.base - base)]
    BY DEF Rebase, GivenInv
  <1>2. RelocsUpTo(Len(img.sites) + 1) /\ relocs \in Seq([va : Int, addend : Int])
    BY <1>1 DEF RelocsInv
  <1>a. n \in Nat /\ n >= 1
    BY DEF GivenInv
  <1>b. Len(relocs) \in Nat
    BY <1>2
  <1>3. n \in 1 .. Len(relocs) /\ n \in Nat
    BY <1>1, <1>a, <1>b
  <1>4. DOMAIN buf' = DOMAIN buf
    BY <1>1
  <1>5. ASSUME NEW rva \in DOMAIN buf
        PROVE  buf'[rva] = img.data[rva]
                  + (IF \E k \in 1 .. Len(relocs) : k < n + 1 /\ relocs[k].va - base = rva
                     THEN opt.base - base ELSE 0)
    <2>1. img.data[rva] \in Int /\ opt.base \in Nat /\ base \in Nat
      BY <1>1, WordIs
    <2>2. buf[rva] = img.data[rva]
                  + (IF \E k \in 1 .. Len(relocs) : k < n /\ relocs[k].va - base = rva
                     THEN opt.base - base ELSE 0)
      BY <1>1 DEF BufInv
    <2>3. \A k \in 1 .. Len(relocs) : k < n + 1 <=> k < n \/ k = n
      BY <1>3
    <2>4. CASE relocs[n].va - base = rva
      <3>1. ~\E k \in 1 .. Len(relocs) : k < n /\ relocs[k].va - base = rva
        <4> SUFFICES ASSUME NEW k \in 1 .. Len(relocs), k < n, relocs[k].va - base = rva PROVE FALSE
          OBVIOUS
        <4>1. k = n
          BY <2>4, <1>1, <1>2, <1>3, RelocsOnce
        <4> QED BY <4>1, <1>3
      <3>2. buf'[rva] = buf[rva] + (opt.base - base)
        BY <1>1, <2>4
      <3>3. buf[rva] = img.data[rva]
        BY <2>1, <2>2, <3>1
      <3>4. \E k \in 1 .. Len(relocs) : k < n + 1 /\ relocs[k].va - base = rva
        BY <1>3, <2>3, <2>4
      <3> QED BY <3>2, <3>3, <3>4
    <2>5. CASE relocs[n].va - base # rva
      <3>1. buf'[rva] = buf[rva]
        BY <1>1, <2>5
      <3>2. (\E k \in 1 .. Len(relocs) : k < n + 1 /\ relocs[k].va - base = rva)
            <=> (\E k \in 1 .. Len(relocs) : k < n /\ relocs[k].va - base = rva)
        BY <2>3, <2>5
      <3> QED BY <3>1, <3>2, <2>2
    <2> QED BY <2>4, <2>5
  <1> QED BY <1>1, <1>4, <1>5 DEF BufInv

(* The buffer is as it should be at every stage.                           *)
LEMMA BufStep ==
  GivenInv /\ ImportsInv /\ FileInv /\ RelocsInv /\ SitesSound(Job) /\ BufInv /\ [Next]_vars => BufInv'
  <1> SUFFICES ASSUME GivenInv, ImportsInv, FileInv, RelocsInv, SitesSound(Job), BufInv, [Next]_vars
               PROVE  BufInv'
    OBVIOUS
  <1>1. img' = img /\ opt' = opt
    BY ReadersWrite
  <1>2. \A rva : Word(rva)' = Word(rva)
    BY <1>1 DEF Word, LinkBase
  <1>3. CASE Rebase
    BY <1>3, BufRebase
  <1>4. CASE RelocsDone
    <2>1. /\ pc = "relocs" /\ buf' = buf /\ n' = 1 /\ relocs' = relocs /\ base' = base
          /\ pc' = (IF opt.base # 0 THEN "rebase" ELSE "tls") /\ buf = img.data
      BY <1>4 DEF RelocsDone, FileInv
    <2>2. relocs \in Seq([va : Int, addend : Int])
      BY <2>1 DEF RelocsInv
    <2>3. \A k \in 1 .. Len(relocs) : ~(k < 1)
      BY <2>2
    <2>4. ASSUME NEW rva \in DOMAIN buf
          PROVE  buf[rva] + 0 = buf[rva] /\ (opt.base = 0 => buf[rva] = Word(rva))
      <3>1. buf[rva] \in Int /\ (LinkBase = img.base => Word(rva) = buf[rva])
        BY <2>1, WordIs
      <3> QED BY <3>1 DEF LinkBase
    <2>5. CASE opt.base # 0
      BY <2>1, <2>3, <2>4, <2>5, <1>1 DEF BufInv
    <2>6. CASE opt.base = 0
      <3>1. pc' = "tls" /\ buf' = buf /\ \A rva \in DOMAIN buf : buf[rva] = Word(rva)
        BY <2>1, <2>4, <2>6
      <3>2. \A rva \in DOMAIN buf' : buf'[rva] = Word(rva)'
        BY <3>1, <1>2
      <3> QED BY <3>1, <3>2 DEF BufInv
    <2> QED BY <2>5, <2>6
  <1>5. CASE Rebased
    <2>1. /\ pc = "rebase" /\ pc' = "tls" /\ buf' = buf /\ base = img.base /\ opt.base # 0 /\ LinkBase = opt.base
          /\ opt.base = base \/ n > Len(relocs)
      BY <1>5 DEF Rebased, GivenInv, LinkBase
    <2>2. RelocsUpTo(Len(img.sites) + 1) /\ relocs \in Seq([va : Int, addend : Int]) /\ n \in Nat
      BY <2>1 DEF RelocsInv, GivenInv
    <2>3. ASSUME NEW rva \in DOMAIN buf PROVE buf[rva] = Word(rva)
      <3>1. buf[rva] = img.data[rva]
                  + (IF \E k \in 1 .. Len(relocs) : k < n /\ relocs[k].va - base = rva
                     THEN opt.base - base ELSE 0)
        BY <2>1 DEF BufInv
      <3>2. img.data[rva] \in Int /\ opt.base \in Nat /\ base \in Nat /\ (LinkBase = img.base => Word(rva) = img.data[rva])
        BY <2>1, WordIs
      <3>3. CASE opt.base = base
        <4>1. opt.base - base = 0
          BY <3>2, <3>3
        <4>2. buf[rva] = img.data[rva]
          BY <3>1, <3>2, <4>1
        <4> QED BY <3>2, <3>3, <4>2, <2>1
      <3>4. CASE n > Len(relocs)
        <4>1. \A k \in 1 .. Len(relocs) : k < n
          BY <3>4, <2>2
        <4>2. Moves(img, rva) <=> \E k \in 1 .. Len(relocs) : relocs[k].va - base = rva
          BY <2>1, <2>2, RelocsCover
        <4>3. buf[rva] = img.data[rva] + (IF Moves(img, rva) THEN opt.base - base ELSE 0)
          BY <3>1, <4>1, <4>2
        <4> QED BY <4>3, <2>1 DEF Word
      <3> QED BY <3>3, <3>4, <2>1
    <2>4. \A rva \in DOMAIN buf' : buf'[rva] = Word(rva)'
      BY <2>1, <2>3, <1>2
    <2> QED BY <2>1, <2>4 DEF BufInv
  <1>6. CASE PatchAndWrite
    <2>1. /\ pc = "patch" /\ pc' = "written" /\ DOMAIN buf' = DOMAIN buf
          /\ \A rva \in DOMAIN buf : (\A k \in 1 .. Len(imports) : imports[k].slot # rva) => buf'[rva] = buf[rva]
      BY <1>6 DEF PatchAndWrite
    <2>2. \A rva \in DOMAIN buf : BindsAt(img, rva) = {} => buf'[rva] = buf[rva] /\ buf[rva] = Word(rva)
      <3>1. \A rva : BindsAt(img, rva) # {} <=> \E k \in 1 .. Len(imports) : imports[k].slot = rva
        BY <2>1, SlotsBound
      <3> QED BY <2>1, <3>1 DEF BufInv
    <2>3. \A rva \in DOMAIN buf' : BindsAt(img', rva) = {} => buf'[rva] = Word(rva)'
      BY <2>1, <2>2, <1>1, <1>2
    <2> QED BY <2>1, <2>3 DEF BufInv
  <1>7. CASE buf' = buf /\ ~RelocsDone /\ ~Rebased
    <2>1. \/ pc' = pc /\ (pc = "rebase" => n' = n /\ relocs' = relocs /\ base' = base)
          \/ pc \in {"imports", "relocs"} /\ pc' \in {"imports", "relocs"}
          \/ pc' = "failed"
          \/ /\ pc \notin {"imports", "relocs", "rebase", "failed"}
             /\ pc' \notin {"imports", "relocs", "rebase", "failed"}
             /\ pc' \in {"tls", "symbols"} => pc \in {"tls", "symbols"}
          \/ Rebase
      BY <1>7 DEF Next, vars, LostDirectory, CollectImport, UnknownOrdinal, NextDescriptor, ImportsDone, AtEntry,
         CannotRebase, CollectTls, NameImport, BuildRela, CollectReloc,
         BuildHash, HashDone, Finalize, CannotFinalize, PatchAndWrite, Map, Relocate, Enter, Fail
    <2>2. CASE pc' = pc /\ pc # "rebase"
      <3>1. pc \notin {"imports", "relocs", "rebase", "failed"} => \A rva \in DOMAIN buf :
               BindsAt(img', rva) = {} \/ pc' \in {"tls", "symbols"} => buf'[rva] = Word(rva)'
        BY <2>2, <1>1, <1>2, <1>7 DEF BufInv
      <3> QED BY <3>1, <2>2, <1>7 DEF BufInv
    <2>3. CASE pc' = pc /\ pc = "rebase" /\ n' = n /\ relocs' = relocs /\ base' = base
      BY <2>3, <1>1, <1>7 DEF BufInv
    <2>4. CASE pc' \in {"imports", "relocs", "failed"}
      BY <2>4 DEF BufInv
    <2>5. CASE /\ pc \notin {"imports", "relocs", "rebase", "failed"}
               /\ pc' \notin {"imports", "relocs", "rebase", "failed"}
               /\ pc' \in {"tls", "symbols"} => pc \in {"tls", "symbols"}
      <3>1. \A rva \in DOMAIN buf : BindsAt(img, rva) = {} \/ pc' \in {"tls", "symbols"} => buf[rva] = Word(rva)
        BY <2>5 DEF BufInv
      <3>2. \A rva \in DOMAIN buf' : BindsAt(img', rva) = {} \/ pc' \in {"tls", "symbols"} => buf'[rva] = Word(rva)'
        BY <3>1, <1>1, <1>2, <1>7
      <3> QED BY <3>2, <2>5 DEF BufInv
    <2> QED BY <2>1, <2>2, <2>3, <2>4, <2>5, <1>3
  <1> QED BY <1>3, <1>4, <1>5, <1>6, <1>7, ReadersWrite

(* collect_tls reads numbers.                                              *)
LEMMA TlsTypeStep == GivenInv /\ FileInv /\ TlsTypeInv /\ [Next]_vars => TlsTypeInv'
  <1> SUFFICES ASSUME GivenInv, FileInv, TlsTypeInv, [Next]_vars PROVE TlsTypeInv'
    OBVIOUS
  <1>1. CASE CollectTls
    <2>1. /\ pc = "tls" /\ pc' = "symbols"
          /\ tls' = IF img.tls # 0 /\ HasOffset(img.tls) /\ \A k \in 0 .. 4 : InFile(img.tls + k)
                    THEN [template |-> buf[img.tls + 0], size |-> TemplateSize(buf[img.tls + 0], buf[img.tls + 1]),
                          index |-> buf[img.tls + 2], callbacks |-> buf[img.tls + 3],
                          zero_fill |-> buf[img.tls + 4], align |-> buf[img.tls + 4]]
                    ELSE NoInfo
      BY <1>1 DEF CollectTls
    <2>2. DOMAIN NoInfo = {"template", "size", "zero_fill", "align", "index", "callbacks"}
      BY DEF NoInfo
    <2>3. \A r \in DOMAIN buf : buf[r] \in Int
      BY <2>1 DEF FileInv
    <2>4. tls' \in [DOMAIN NoInfo -> Int]
      <3>1. CASE img.tls # 0 /\ HasOffset(img.tls) /\ \A k \in 0 .. 4 : InFile(img.tls + k)
        <4>1. \A k \in 0 .. 4 : buf[img.tls + k] \in Int
          BY <3>1, <2>3 DEF InFile
        <4>2. /\ buf[img.tls + 0] \in Int /\ buf[img.tls + 1] \in Int /\ buf[img.tls + 2] \in Int
              /\ buf[img.tls + 3] \in Int /\ buf[img.tls + 4] \in Int
          BY <4>1
        <4>3. TemplateSize(buf[img.tls + 0], buf[img.tls + 1]) \in Int
          BY <4>2 DEF TemplateSize
        <4> QED BY <2>1, <2>2, <3>1, <4>2, <4>3
      <3>2. CASE ~(img.tls # 0 /\ HasOffset(img.tls) /\ \A k \in 0 .. 4 : InFile(img.tls + k))
        <4>1. tls' = NoInfo
          BY <2>1, <3>2
        <4> QED BY <4>1 DEF NoInfo
      <3> QED BY <3>1, <3>2
    <2> QED BY <2>4 DEF TlsTypeInv
  <1>2. CASE tls' = tls /\ ~CollectTls
    <2>1. pc' \in Reading \cup {"failed"} \/ pc \notin Reading \cup {"failed"}
      BY <1>2 DEF Reading, Next, vars, LostDirectory, CollectImport, UnknownOrdinal, NextDescriptor, ImportsDone, AtEntry,
         CollectReloc, RelocsDone, CannotRebase, Rebase, Rebased, NameImport, BuildRela,
         BuildHash, HashDone, Finalize, CannotFinalize, PatchAndWrite, Map, Relocate, Enter, Fail
    <2> QED BY <2>1, <1>2 DEF TlsTypeInv
  <1> QED BY <1>1, <1>2, ReadersWrite

(* And relocated addresses.                                                *)
LEMMA TlsStep ==
  GivenInv /\ FileInv /\ BufInv /\ TlsInv /\ [Next]_vars => TlsInv'
  <1> SUFFICES ASSUME GivenInv, FileInv, BufInv, TlsInv, [Next]_vars PROVE TlsInv'
    OBVIOUS
  <1>1. img' = img /\ opt' = opt
    BY ReadersWrite
  <1>2. \A rva : Word(rva)' = Word(rva)
    BY <1>1 DEF Word, LinkBase
  <1>3. CASE CollectTls
    <2>1. /\ pc = "tls" /\ pc' = "symbols"
          /\ tls' = IF img.tls # 0 /\ HasOffset(img.tls) /\ \A k \in 0 .. 4 : InFile(img.tls + k)
                    THEN [template |-> buf[img.tls + 0], size |-> TemplateSize(buf[img.tls + 0], buf[img.tls + 1]),
                          index |-> buf[img.tls + 2], callbacks |-> buf[img.tls + 3],
                          zero_fill |-> buf[img.tls + 4], align |-> buf[img.tls + 4]]
                    ELSE NoInfo
      BY <1>3 DEF CollectTls
    <2>5. ASSUME img.tls # 0, \A k \in 0 .. 4 : HasData(img, img.tls + k), NEW f \in DOMAIN TlsField
          PROVE  tls'[f] = Word(img.tls + TlsField[f])
      <3>1. \A k \in 0 .. 4 : img.tls + k \in DOMAIN buf
        BY <2>1, <2>5 DEF HasData, FileInv
      <3>a. img.tls \in Nat
        BY DEF GivenInv, IsImage
      <3>2. img.tls + 0 = img.tls
        BY <3>a
      <3>3. HasOffset(img.tls)
        BY <2>5, <3>2 DEF HasOffset, HasData, Secs
      <3>4. \A k \in 0 .. 4 : buf[img.tls + k] = Word(img.tls + k)
        BY <2>1, <3>1 DEF BufInv
      <3>5. \A k \in 0 .. 4 : InFile(img.tls + k)
        BY <3>1 DEF InFile
      <3>6. /\ tls'["template"] = buf[img.tls + 0] /\ tls'["index"] = buf[img.tls + 2]
            /\ tls'["callbacks"] = buf[img.tls + 3]
        BY <2>1, <2>5, <3>3, <3>5
      <3>7. f \in {"template", "index", "callbacks"}
        BY DEF TlsField
      <3>8. TlsField["template"] = 0 /\ TlsField["index"] = 2 /\ TlsField["callbacks"] = 3
        BY DEF TlsField
      <3> QED BY <3>4, <3>6, <3>7, <3>8
    <2> QED BY <2>1, <2>5, <1>1, <1>2 DEF TlsInv
  <1>4. CASE tls' = tls /\ ~CollectTls
    <2>1. pc' \in Reading \cup {"failed"} \/ pc \notin Reading \cup {"failed"}
      BY <1>4 DEF Reading, Next, vars, LostDirectory, CollectImport, UnknownOrdinal, NextDescriptor, ImportsDone, AtEntry,
         CollectReloc, RelocsDone, CannotRebase, Rebase, Rebased, NameImport, BuildRela,
         BuildHash, HashDone, Finalize, CannotFinalize, PatchAndWrite, Map, Relocate, Enter, Fail
    <2>2. CASE pc \notin Reading \cup {"failed"}
      BY <2>2, <1>1, <1>2, <1>4 DEF TlsInv
    <2>3. CASE pc' \in Reading \cup {"failed"}
      BY <2>3 DEF TlsInv
    <2> QED BY <2>1, <2>2, <2>3
  <1> QED BY <1>3, <1>4, ReadersWrite


-----------------------------------------------------------------------------
(* Symbols.                                                                *)

(* The converter's own two.                                                *)
LEMMA OwnSymbols ==
  /\ Entrypoint \in DOMAIN Hash /\ ShimRegisterTls \in DOMAIN Hash /\ Entrypoint # ShimRegisterTls
  BY LoaderAssumption DEF Entrypoint, ShimRegisterTls

(* A table of symbols, by its places.                                      *)
LEMMA WithOwnIs ==
  ASSUME NEW u \in Seq(DOMAIN Hash), opt \in Option
  PROVE  /\ WithOwn(u) \in Seq(DOMAIN Hash)
         /\ Len(WithOwn(u)) = Len(u) + 1 + (IF opt.so THEN 1 ELSE 0)
         /\ \A k \in 1 .. Len(u) : WithOwn(u)[k] = u[k]
         /\ WithOwn(u)[Len(u) + 1] = ShimRegisterTls
         /\ opt.so => WithOwn(u)[Len(u) + 2] = Entrypoint
  <1> DEFINE v == u \o <<ShimRegisterTls>>
  <1>1. /\ v \in Seq(DOMAIN Hash) /\ Len(v) = Len(u) + 1
        /\ \A k \in 1 .. Len(u) : v[k] = u[k]
        /\ v[Len(u) + 1] = ShimRegisterTls
    BY OwnSymbols
  <1>2. WithOwn(u) = v \o (IF opt.so THEN <<Entrypoint>> ELSE <<>>)
    BY DEF WithOwn
  <1>3. Len(u) \in Nat
    OBVIOUS
  <1> HIDE DEF v
  <1>4. CASE opt.so
    <2>1. WithOwn(u) = Append(v, Entrypoint)
      BY <1>1, <1>2, <1>4
    <2> QED BY <2>1, <1>1, <1>3, <1>4, OwnSymbols
  <1>5. CASE ~opt.so
    <2>1. WithOwn(u) = v
      BY <1>1, <1>2, <1>5, ConcatEmptySeq
    <2> QED BY <2>1, <1>1, <1>3, <1>5
  <1> QED BY <1>4, <1>5

(* The table once it is made.                                              *)
LEMMA SymsAre ==
  ASSUME GivenInv, SymsInv, pc \in Emitted
  PROVE  syms \in Seq(DOMAIN Hash) /\ Len(syms) \in Nat
  <1>1. PICK u : Imported(u) /\ syms = WithOwn(u)
    BY DEF SymsInv
  <1>2. u \in Seq(DOMAIN Hash) /\ opt \in Option
    BY <1>1 DEF Imported, GivenInv
  <1> QED BY <1>1, <1>2, WithOwnIs

(* Each name is in it once.                                                *)
LEMMA SymsDistinct ==
  ASSUME GivenInv, ImportsInv, SymsInv, pc \in Emitted, OwnNames(Job),
         NEW p \in 1 .. Len(syms), NEW q \in 1 .. Len(syms), syms[p] = syms[q]
  PROVE  p = q
  <1>1. PICK u : Imported(u) /\ syms = WithOwn(u)
    BY DEF SymsInv
  <1>a. u \in Seq(DOMAIN Hash) /\ opt \in Option
    BY <1>1 DEF Imported, GivenInv
  <1>2. u \in Seq(DOMAIN Hash) /\ opt \in Option /\ Len(u) \in Nat
    BY <1>a
  <1>3. /\ Len(syms) = Len(u) + 1 + (IF opt.so THEN 1 ELSE 0)
        /\ \A k \in 1 .. Len(u) : syms[k] = u[k]
        /\ syms[Len(u) + 1] = ShimRegisterTls
        /\ opt.so => syms[Len(u) + 2] = Entrypoint
    BY <1>1, <1>2, WithOwnIs
  <1>4. \A k \in 1 .. Len(u) : u[k] # ShimRegisterTls /\ u[k] # Entrypoint
    <2> SUFFICES ASSUME NEW k \in 1 .. Len(u) PROVE u[k] # ShimRegisterTls /\ u[k] # Entrypoint
      OBVIOUS
    <2>1. PICK l \in 1 .. Len(imports) : u[k] = Symbol(imports[l])
      BY <1>1 DEF Imported
    <2>2. pc # "failed"
      BY DEF Emitted, Loading
    <2>3. PICK e \in Binds(img) : Symbol(imports[l]) = SymbolOf(img, e)
      BY <2>2, ImportIs
    <2> QED BY <2>1, <2>3 DEF OwnNames, Job
  <1>5. /\ p \in 1 .. Len(u) \/ p = Len(u) + 1 \/ (opt.so /\ p = Len(u) + 2)
        /\ q \in 1 .. Len(u) \/ q = Len(u) + 1 \/ (opt.so /\ q = Len(u) + 2)
    BY <1>2, <1>3
  <1>6. \A k, l \in 1 .. Len(u) : u[k] = u[l] => k = l
    BY <1>1 DEF Imported
  <1> QED BY <1>3, <1>4, <1>5, <1>6, OwnSymbols

(* One import is named.                                                    *)
LEMMA SymsName ==
  ASSUME GivenInv, ImportsInv, SymsInv, NameImport
  PROVE  SymsInv'
  <1> DEFINE s == Symbol(imports[n])
  <1>1. /\ pc = "symbols" /\ pc' = "symbols" /\ imports' = imports /\ n' = n + 1
        /\ syms' = IF Known(s) # {} THEN syms ELSE Append(syms, s)
        /\ n <= Len(imports)
    BY DEF NameImport
  <1>2. /\ syms \in Seq(DOMAIN Hash) /\ Len(syms) \in Nat
        /\ \A p, q \in 1 .. Len(syms) : syms[p] = syms[q] => p = q
        /\ \A p \in 1 .. Len(syms) : \E k \in 1 .. Len(imports) : syms[p] = Symbol(imports[k])
        /\ \A k \in 1 .. Len(imports) : k < n => \E p \in 1 .. Len(syms) : syms[p] = Symbol(imports[k])
    BY <1>1 DEF SymsInv, Imported, Known
  <1>3. n \in Nat /\ n >= 1
    BY DEF GivenInv
  <1>a. Len(imports) \in Nat
    BY <1>1 DEF ImportsInv
  <1>4. n \in 1 .. Len(imports)
    BY <1>1, <1>3, <1>a
  <1>5. s \in DOMAIN Hash
    BY <1>1, <1>4, ImportIs
  <1>6. \A k \in 1 .. Len(imports) : k < n + 1 => k < n \/ k = n
    BY <1>3
  <1>7. /\ syms' \in Seq(DOMAIN Hash)
        /\ \A p, q \in 1 .. Len(syms') : syms'[p] = syms'[q] => p = q
        /\ \A p \in 1 .. Len(syms') : \E k \in 1 .. Len(imports) : syms'[p] = Symbol(imports[k])
        /\ \A k \in 1 .. Len(imports) : k < n + 1 => \E p \in 1 .. Len(syms') : syms'[p] = Symbol(imports[k])
    <2>1. CASE Known(s) # {}
      <3>1. syms' = syms /\ \E p \in 1 .. Len(syms) : syms[p] = s
        BY <2>1, <1>1 DEF Known
      <3> QED BY <3>1, <1>2, <1>6
    <2>2. CASE Known(s) = {}
      <3>1. syms' = Append(syms, s) /\ \A p \in 1 .. Len(syms) : syms[p] # s
        BY <2>2, <1>1 DEF Known
      <3> HIDE DEF s
      <3>2. /\ syms' \in Seq(DOMAIN Hash) /\ Len(syms') = Len(syms) + 1
            /\ \A p \in 1 .. Len(syms) : syms'[p] = syms[p]
            /\ syms'[Len(syms) + 1] = s
        BY <3>1, <1>2, <1>5
      <3>3. 1 .. Len(syms') = (1 .. Len(syms)) \cup {Len(syms) + 1}
        BY <3>2, <1>2
      <3>4. \A p, q \in 1 .. Len(syms') : syms'[p] = syms'[q] => p = q
        BY <3>1, <3>2, <3>3, <1>2
      <3>5. s = Symbol(imports[n])
        BY DEF s
      <3>6. \A p \in 1 .. Len(syms') : \E k \in 1 .. Len(imports) : syms'[p] = Symbol(imports[k])
        BY <3>2, <3>3, <3>5, <1>2, <1>4
      <3>7. \A k \in 1 .. Len(imports) : k < n + 1 => \E p \in 1 .. Len(syms') : syms'[p] = Symbol(imports[k])
        BY <3>2, <3>3, <3>5, <1>2, <1>6
      <3> QED BY <3>2, <3>4, <3>6, <3>7
    <2> QED BY <2>1, <2>2
  <1>8. Imported(syms)' 
    BY <1>1, <1>7 DEF Imported
  <1>9. \A k \in 1 .. Len(imports') : k < n' => \E p \in 1 .. Len(syms') : syms'[p] = Symbol(imports[k])
    BY <1>1, <1>7
  <1>10. \A k \in 1 .. Len(imports') : k < n' => Known(Symbol(imports[k]))' # {}
    BY <1>9, <1>1 DEF Known, Symbol
  <1> QED BY <1>1, <1>8, <1>10 DEF SymsInv, Reading, Emitted, Loading, Symbol

(* The symbols are those of the imports named so far.                      *)
LEMMA SymsStep == GivenInv /\ ImportsInv /\ SymsInv /\ [Next]_vars => SymsInv'
  <1> SUFFICES ASSUME GivenInv, ImportsInv, SymsInv, [Next]_vars PROVE SymsInv'
    OBVIOUS
  <1>1. img' = img /\ opt' = opt
    BY ReadersWrite
  <1>2. CASE NameImport
    BY <1>2, SymsName
  <1>3. CASE BuildRela
    <2>1. pc = "symbols" /\ pc' \in {"hash", "finalize"} /\ imports' = imports /\ syms' = WithOwn(syms)
      BY <1>3 DEF BuildRela, WithOwn
    <2>2. Imported(syms)
      BY <2>1 DEF SymsInv
    <2>3. \E u : Imported(u)' /\ syms' = WithOwn(u)
      <3>1. PICK u : u = syms
        OBVIOUS
      <3>2. Imported(u)'
        BY <2>1, <2>2, <3>1 DEF Imported
      <3> QED BY <3>1, <3>2, <2>1
    <2>4. \E u : Imported(u)' /\ syms' = WithOwn(u)'
      BY <2>3, <1>1 DEF WithOwn
    <2> QED BY <2>1, <2>4 DEF SymsInv, Reading, Emitted, Loading
  <1>4. CASE CollectTls
    <2>1. pc = "tls" /\ pc' = "symbols" /\ n' = 1 /\ imports' = imports /\ syms' = syms /\ syms = <<>>
      BY <1>4 DEF CollectTls, SymsInv, Reading
    <2>2. Imported(syms)'
      BY <2>1 DEF Imported
    <2>3. Len(imports) \in Nat
      BY <2>1 DEF ImportsInv
    <2>4. \A k \in 1 .. Len(imports') : ~(k < n')
      BY <2>1, <2>3
    <2> QED BY <2>1, <2>2, <2>4 DEF SymsInv, Reading, Emitted, Loading
  <1>5. CASE syms' = syms /\ ~NameImport /\ ~BuildRela /\ ~CollectTls
    <2>1. \/ pc' \in Reading /\ pc \in Reading
          \/ pc' = "symbols" /\ pc = "symbols" /\ n' = n /\ imports' = imports
          \/ pc' \in Emitted /\ pc \in Emitted /\ imports' = imports
          \/ pc' \in {"failed", "fault", "unresolved"}
      BY <1>5 DEF GivenInv, Reading, Emitted, Loading,
         Next, vars, LostDirectory, CollectImport, UnknownOrdinal, NextDescriptor, ImportsDone, AtEntry,
         CollectReloc, RelocsDone, CannotRebase, Rebase, Rebased,
         BuildHash, HashDone, Finalize, CannotFinalize, PatchAndWrite, Map, Relocate, Enter, Fail
    <2>2. CASE pc' \in Reading /\ pc \in Reading
      BY <2>2, <1>5 DEF SymsInv, Reading, Emitted, Loading
    <2>3. CASE pc' = "symbols" /\ pc = "symbols" /\ n' = n /\ imports' = imports
      <3>1. Imported(syms) /\ Imported(syms)'
        BY <2>3, <1>5 DEF SymsInv, Imported
      <3>2. \A k \in 1 .. Len(imports') : k < n' => Known(Symbol(imports[k]))' # {}
        BY <2>3, <1>5 DEF SymsInv, Known, Symbol
      <3> QED BY <2>3, <3>1, <3>2 DEF SymsInv, Reading, Emitted, Loading, Symbol
    <2>4. CASE pc' \in Emitted /\ pc \in Emitted /\ imports' = imports
      <3>1. PICK u : Imported(u) /\ syms = WithOwn(u)
        BY <2>4 DEF SymsInv
      <3>2. Imported(u)' /\ syms' = WithOwn(u)'
        BY <3>1, <2>4, <1>1, <1>5 DEF Imported, WithOwn
      <3> QED BY <3>2, <2>4 DEF SymsInv, Reading, Emitted, Loading
    <2>5. CASE pc' \in {"failed", "fault", "unresolved"}
      BY <2>5 DEF SymsInv, Reading, Emitted, Loading
    <2> QED BY <2>1, <2>2, <2>3, <2>4, <2>5
  <1> QED BY <1>2, <1>3, <1>4, <1>5, BuildersWrite

-----------------------------------------------------------------------------
(* Relocations.                                                            *)

(* A sequence with nothing, or one thing more.                             *)
LEMMA OneMore ==
  /\ \A S : \A s \in Seq(S) : s \o <<>> = s
  /\ \A S : \A s \in Seq(S), x \in S : s \o <<x>> = Append(s, x)
  BY ConcatEmptySeq

\* With x, where c is TRUE.
Plus(s, x, c) == s \o (IF c = TRUE THEN <<x>> ELSE <<>>)

(* Something new is added, or not.                                         *)
LEMMA AppendNew ==
  ASSUME NEW S, NEW s \in Seq(S), NEW x \in S, Once(s), ~Has(s, x), NEW c
  PROVE  /\ Plus(s, x, c) \in Seq(S) /\ Once(Plus(s, x, c))
         /\ \A f : Has(Plus(s, x, c), f) <=> Has(s, f) \/ (c = TRUE /\ f = x)
  <1>a. PICK t : t = Plus(s, x, c)
    OBVIOUS
  <1>1. CASE c = TRUE
    <2>1. t = Append(s, x)
      BY <1>1, <1>a, OneMore DEF Plus
    <2>2. /\ t \in Seq(S) /\ Len(t) = Len(s) + 1 /\ Len(s) \in Nat
          /\ \A k \in 1 .. Len(s) : t[k] = s[k]
          /\ t[Len(s) + 1] = x
      BY <2>1
    <2>3. 1 .. Len(t) = (1 .. Len(s)) \cup {Len(s) + 1}
      BY <2>2
    <2>4. Once(t)
      BY <2>2, <2>3 DEF Once, Has
    <2>5. \A f : Has(t, f) <=> Has(s, f) \/ f = x
      BY <2>2, <2>3 DEF Has
    <2> QED BY <2>2, <2>4, <2>5, <1>1, <1>a
  <1>2. CASE c # TRUE
    <2>1. t = s
      BY <1>2, <1>a, OneMore DEF Plus
    <2> QED BY <2>1, <1>2, <1>a
  <1> QED BY <1>1, <1>2

(* The fields that get one, each once.                                     *)
LEMMA InfoVasAre ==
  /\ InfoVas \in Seq(DOMAIN TlsField) /\ Len(InfoVas) \in Nat
  /\ Once(InfoVas)
  /\ \A f \in DOMAIN TlsField : Has(InfoVas, f) <=> (opt.so /\ tls[f] # 0)
  <1>1. DOMAIN TlsField = {"template", "index", "callbacks"}
    BY DEF TlsField
  <1>2. PICK S : S = DOMAIN TlsField
    OBVIOUS
  <1> DEFINE Given(f) == opt.so /\ tls[f] # 0
  <1>3. PICK a : a = IfVa("template")
    OBVIOUS
  <1>4. PICK b : b = a \o IfVa("index")
    OBVIOUS
  <1>5. InfoVas = b \o IfVa("callbacks")
    BY <1>3, <1>4 DEF InfoVas
  <1>6. "template" \in S /\ "index" \in S /\ "callbacks" \in S
    BY <1>1, <1>2
  <1>7. \A f : IfVa(f) = IF Given(f) THEN <<f>> ELSE <<>>
    BY DEF IfVa
  <1>8. \A f : Given(f) \in BOOLEAN
    OBVIOUS
  <1> HIDE DEF Given
  <1>9. a \in Seq(S) /\ Once(a) /\ \A f : Has(a, f) <=> Given("template") /\ f = "template"
    <2>1. a = IF Given("template") THEN <<"template">> ELSE <<>>
      BY <1>3, <1>7
    <2>2. CASE Given("template")
      BY <2>1, <2>2, <1>6 DEF Once, Has
    <2>3. CASE ~Given("template")
      BY <2>1, <2>3 DEF Once, Has
    <2> QED BY <2>2, <2>3
  <1>10. b \in Seq(S) /\ Once(b)
         /\ \A f : Has(b, f) <=> (Given("template") /\ f = "template") \/ (Given("index") /\ f = "index")
    <2>1. b = Plus(a, "index", Given("index"))
      BY <1>4, <1>7, <1>8 DEF Plus
    <2>2. ~Has(a, "index")
      BY <1>9
    <2>3. b \in Seq(S) /\ Once(b) /\ \A f : Has(b, f) <=> Has(a, f) \/ (Given("index") /\ f = "index")
      <3>1. a \in Seq(S) /\ Once(a) /\ "index" \in S
        BY <1>6, <1>9
      <3>2. \A c : /\ Plus(a, "index", c) \in Seq(S) /\ Once(Plus(a, "index", c))
                  /\ \A f : Has(Plus(a, "index", c), f) <=> Has(a, f) \/ (c = TRUE /\ f = "index")
        BY <2>2, <3>1, AppendNew
      <3> QED BY <2>1, <3>2, <1>8
    <2> QED BY <2>3, <1>9
  <1>11. /\ InfoVas \in Seq(S) /\ Once(InfoVas)
         /\ \A f : Has(InfoVas, f) <=> \/ Given("template") /\ f = "template"
                                       \/ Given("index") /\ f = "index"
                                       \/ Given("callbacks") /\ f = "callbacks"
    <2>1. InfoVas = Plus(b, "callbacks", Given("callbacks"))
      BY <1>5, <1>7, <1>8 DEF Plus
    <2>2. ~Has(b, "callbacks")
      BY <1>10
    <2>3. InfoVas \in Seq(S) /\ Once(InfoVas)
          /\ \A f : Has(InfoVas, f) <=> Has(b, f) \/ (Given("callbacks") /\ f = "callbacks")
      <3>1. b \in Seq(S) /\ Once(b) /\ "callbacks" \in S
        BY <1>6, <1>10
      <3>2. \A c : /\ Plus(b, "callbacks", c) \in Seq(S) /\ Once(Plus(b, "callbacks", c))
                  /\ \A f : Has(Plus(b, "callbacks", c), f) <=> Has(b, f) \/ (c = TRUE /\ f = "callbacks")
        BY <2>2, <3>1, AppendNew
      <3> QED BY <2>1, <3>2, <1>8
    <2> QED BY <2>3, <1>10
  <1>12. Len(InfoVas) \in Nat
    BY <1>11
  <1>13. \A f \in DOMAIN TlsField : Has(InfoVas, f) <=> Given(f)
    BY <1>11, <1>1
  <1> QED BY <1>2, <1>11, <1>12, <1>13 DEF Given

(* Entries of the table.                                                   *)
LEMMA Entry ==
  /\ \A off \in Int, k \in Nat : /\ Bind(off, k) \in Rela /\ Bind(off, k).type = "R_X86_64_64"
                                 /\ Bind(off, k).off = off /\ Bind(off, k).sym = k
  /\ \A off, addend \in Int : Relative(off, addend) \in Rela
  /\ \A off, addend : /\ Relative(off, addend).type = "R_X86_64_RELATIVE" /\ Relative(off, addend).off = off
                      /\ Relative(off, addend).addend = addend
  <1>1. \A off \in Int, k \in Nat : Bind(off, k) \in Rela
    BY DEF Bind, Rela
  <1>2. \A off, k : /\ Bind(off, k).type = "R_X86_64_64" /\ Bind(off, k).off = off /\ Bind(off, k).sym = k
    BY DEF Bind
  <1>3. \A off, addend \in Int : Relative(off, addend) \in Rela
    BY DEF Relative, Rela
  <1>4. \A off, addend : /\ Relative(off, addend).type = "R_X86_64_RELATIVE" /\ Relative(off, addend).off = off
                         /\ Relative(off, addend).addend = addend
    BY DEF Relative
  <1> QED BY <1>1, <1>2, <1>3, <1>4

(* A table of two parts.                                                   *)
LEMMA TwoParts ==
  ASSUME NEW S, NEW s \in Seq(S), NEW t \in Seq(S)
  PROVE  /\ s \o t \in Seq(S) /\ Len(s \o t) = Len(s) + Len(t)
         /\ \A k \in 1 .. Len(s) : (s \o t)[k] = s[k]
         /\ \A k \in 1 .. Len(t) : (s \o t)[Len(s) + k] = t[k]
  <1>1. Len(s) \in Nat /\ Len(t) \in Nat
    OBVIOUS
  <1>2. /\ s \o t \in Seq(S) /\ Len(s \o t) = Len(s) + Len(t)
        /\ \A i \in 1 .. Len(s) + Len(t) : (s \o t)[i] = IF i <= Len(s) THEN s[i] ELSE t[i - Len(s)]
    BY ConcatProperties
  <1> DEFINE u == s \o t
  <1>3. u \in Seq(S) /\ Len(u) = Len(s) + Len(t)
        /\ \A i \in 1 .. Len(s) + Len(t) : u[i] = IF i <= Len(s) THEN s[i] ELSE t[i - Len(s)]
    BY <1>2
  <1> HIDE DEF u
  <1>4. \A k \in 1 .. Len(s) : u[k] = s[k]
    BY <1>1, <1>3
  <1>5. ASSUME NEW k \in 1 .. Len(t) PROVE u[Len(s) + k] = t[k]
    <2>1. Len(s) + k \in 1 .. Len(s) + Len(t) /\ ~(Len(s) + k <= Len(s)) /\ Len(s) + k - Len(s) = k
      BY <1>1
    <2> QED BY <2>1, <1>3
  <1>6. /\ u \in Seq(S) /\ Len(u) = Len(s) + Len(t)
        /\ \A k \in 1 .. Len(s) : u[k] = s[k]
        /\ \A k \in 1 .. Len(t) : u[Len(s) + k] = t[k]
    BY <1>3, <1>4, <1>5
  <1> QED BY <1>6 DEF u

Parts(s, t, x, u) == s \o t \o <<x>> \o u

(* And one of four, of which the third is one entry.                       *)
LEMMA FourParts ==
  ASSUME NEW S, NEW s \in Seq(S), NEW t \in Seq(S), NEW x \in S, NEW u \in Seq(S)
  PROVE  /\ Parts(s, t, x, u) \in Seq(S) /\ Len(Parts(s, t, x, u)) = Len(s) + Len(t) + 1 + Len(u)
         /\ \A k \in 1 .. Len(s) : Parts(s, t, x, u)[k] = s[k]
         /\ \A k \in 1 .. Len(t) : Parts(s, t, x, u)[Len(s) + k] = t[k]
         /\ Parts(s, t, x, u)[Len(s) + Len(t) + 1] = x
         /\ \A k \in 1 .. Len(u) : Parts(s, t, x, u)[Len(s) + Len(t) + 1 + k] = u[k]
  <1>0. PICK r : r = Parts(s, t, x, u)
    OBVIOUS
  <1>1. Len(s) \in Nat /\ Len(t) \in Nat /\ Len(u) \in Nat
    OBVIOUS
  <1>2. PICK a : a = s \o t
    OBVIOUS
  <1>3. PICK b : b = a \o <<x>>
    OBVIOUS
  <1>4. /\ a \in Seq(S) /\ Len(a) = Len(s) + Len(t)
        /\ \A k \in 1 .. Len(s) : a[k] = s[k]
        /\ \A k \in 1 .. Len(t) : a[Len(s) + k] = t[k]
    BY <1>2, TwoParts
  <1>5. <<x>> \in Seq(S) /\ Len(<<x>>) = 1 /\ <<x>>[1] = x
    OBVIOUS
  <1>6. /\ b \in Seq(S) /\ Len(b) = Len(a) + 1
        /\ \A k \in 1 .. Len(a) : b[k] = a[k]
        /\ b[Len(a) + 1] = x
    <2>1. b = Append(a, x)
      BY <1>3, <1>4, OneMore
    <2> QED BY <2>1, <1>1, <1>4
  <1>7. /\ r \in Seq(S) /\ Len(r) = Len(b) + Len(u)
        /\ \A k \in 1 .. Len(b) : r[k] = b[k]
        /\ \A k \in 1 .. Len(u) : r[Len(b) + k] = u[k]
    <2>1. r = b \o u
      BY <1>0, <1>2, <1>3 DEF Parts
    <2>2. PICK q : q = b \o u
      OBVIOUS
    <2>3. /\ q \in Seq(S) /\ Len(q) = Len(b) + Len(u)
          /\ \A k \in 1 .. Len(b) : q[k] = b[k]
          /\ \A k \in 1 .. Len(u) : q[Len(b) + k] = u[k]
      <3>1. b \in Seq(S)
        BY <1>6
      <3> QED BY <2>2, <3>1, TwoParts
    <2> QED BY <2>1, <2>2, <2>3
  <1>8. \A k \in 1 .. Len(s) : k \in 1 .. Len(a) /\ k \in 1 .. Len(b)
    BY <1>1, <1>4, <1>6
  <1>9. \A k \in 1 .. Len(t) : Len(s) + k \in 1 .. Len(a) /\ Len(s) + k \in 1 .. Len(b)
    BY <1>1, <1>4, <1>6
  <1>10. Len(s) + Len(t) + 1 \in 1 .. Len(b)
    BY <1>1, <1>4, <1>6
  <1>11. \A k \in 1 .. Len(s) : r[k] = s[k]
    BY <1>4, <1>6, <1>7, <1>8
  <1>12. \A k \in 1 .. Len(t) : r[Len(s) + k] = t[k]
    BY <1>4, <1>6, <1>7, <1>9
  <1>13. r[Len(s) + Len(t) + 1] = x
    BY <1>4, <1>6, <1>7, <1>10
  <1>14. \A k \in 1 .. Len(u) : r[Len(s) + Len(t) + 1 + k] = u[k]
    BY <1>4, <1>6, <1>7
  <1> QED BY <1>0, <1>4, <1>6, <1>7, <1>11, <1>12, <1>13, <1>14

(* A function of the first numbers is a sequence.                          *)
LEMMA FnSeq ==
  ASSUME NEW S, NEW len \in Nat, NEW f \in [1 .. len -> S]
  PROVE  f \in Seq(S) /\ Len(f) = len
  <1>1. f \in Seq(S)
    BY SeqDef
  <1>2. DOMAIN f = 1 .. len
    OBVIOUS
  <1> QED BY <1>1, <1>2, LenProperties

(* The index of a known symbol.                                            *)
LEMMA SymIndexIs ==
  ASSUME NEW s, Known(s) # {}
  PROVE  SymIndex(s) \in 1 .. Len(syms) /\ syms[SymIndex(s)] = s
  <1>1. \E k \in 1 .. Len(syms) : syms[k] = s
    BY DEF Known
  <1> QED BY <1>1 DEF SymIndex

(* The addresses and values of relocations are numbers.                    *)
LEMMA AddressTypes ==
  ASSUME GivenInv, ImportsInv, RelocsInv, pc \notin Reading \cup {"failed"}
  PROVE  /\ base \in Nat /\ Len(imports) \in Nat /\ Len(relocs) \in Nat
         /\ \A k \in 1 .. Len(imports) : imports[k].slot \in Nat
         /\ \A k \in 1 .. Len(relocs) : relocs[k].va \in Int /\ relocs[k].addend \in Int
  <1>1. pc \notin {"imports", "relocs", "rebase", "failed"}
    BY DEF Reading
  <1>2. IsImage(img) /\ opt \in Option /\ base = LinkBase
    BY <1>1 DEF GivenInv
  <1>3. img.base \in Nat /\ opt.base \in Nat
    BY <1>2 DEF IsImage, Option
  <1>4. base \in Nat
    BY <1>2, <1>3 DEF LinkBase
  <1>5. Len(imports) \in Nat
    BY <1>1 DEF ImportsInv
  <1>6. \A k \in 1 .. Len(imports) : imports[k].slot \in Nat
    BY <1>1, ImportIs
  <1>7. relocs \in Seq([va : Int, addend : Int])
    BY <1>1 DEF RelocsInv
  <1>8. Len(relocs) \in Nat /\ \A k \in 1 .. Len(relocs) : relocs[k] \in [va : Int, addend : Int]
    <2>1. Len(relocs) \in Nat
      BY <1>7
    <2>2. \A k \in 1 .. Len(relocs) : relocs[k] \in [va : Int, addend : Int]
      BY <1>7, ElementOfSeq, Zenon
    <2> QED BY <2>1, <2>2
  <1>9. \A k \in 1 .. Len(relocs) : relocs[k].va \in Int /\ relocs[k].addend \in Int
    BY <1>8
  <1> QED BY <1>4, <1>5, <1>6, <1>8, <1>9

(* The TLS fields are numbers.                                             *)
LEMMA TlsTypes ==
  ASSUME TlsTypeInv, pc \notin Reading \cup {"failed"}
  PROVE  /\ \A f \in DOMAIN TlsField : tls[f] \in Int
         /\ \A k \in 1 .. Len(InfoVas) : InfoVas[k] \in DOMAIN TlsField /\ tls[InfoVas[k]] \in Int
  <1>1. tls \in [DOMAIN NoInfo -> Int]
    BY DEF TlsTypeInv
  <1>2. DOMAIN TlsField \subseteq DOMAIN NoInfo
    BY DEF TlsField, NoInfo
  <1>3. \A f \in DOMAIN TlsField : tls[f] \in Int
    BY <1>1, <1>2
  <1>4. \A k \in 1 .. Len(InfoVas) : InfoVas[k] \in DOMAIN TlsField
    BY InfoVasAre
  <1> QED BY <1>3, <1>4

(* The table is built.                                                     *)
LEMMA RelaBuild ==
  ASSUME GivenInv, ImportsInv, RelocsInv, TlsTypeInv, SymsInv, BuildRela
  PROVE  RelaInv'
  <1> DEFINE own == [k \in 1 .. Len(imports) |-> Bind(base + imports[k].slot, SymIndex(Symbol(imports[k])))]
  <1> DEFINE rel == [k \in 1 .. Len(relocs) |-> Relative(relocs[k].va, relocs[k].addend)]
  <1> DEFINE inf == [k \in 1 .. Len(InfoVas) |-> Relative(0, tls[InfoVas[k]])]
  <1> DEFINE slot == Len(own) + Len(rel) + 1
  <1>1. /\ pc = "symbols" /\ pc' \in {"hash", "finalize"} /\ n > Len(imports)
        /\ rela' = own \o rel \o << Bind(0, Len(syms) + 1) >> \o inf
        /\ slotRela' = slot
        /\ infoRela' = [f \in {"template", "index", "callbacks"} |->
                    IF \E k \in 1 .. Len(InfoVas) : InfoVas[k] = f
                    THEN slot + (CHOOSE k \in 1 .. Len(InfoVas) : InfoVas[k] = f) ELSE 0]
        /\ syms' = WithOwn(syms)
        /\ img' = img /\ opt' = opt /\ base' = base /\ imports' = imports /\ relocs' = relocs /\ tls' = tls
    BY DEF BuildRela, WithOwn
  <1>2. pc \notin Reading \cup {"failed"} /\ pc' \notin Finalized /\ pc # "failed"
    BY <1>1 DEF Reading, Finalized, Loading
  <1>3. Imported(syms) /\ \A k \in 1 .. Len(imports) : k < n => Known(Symbol(imports[k])) # {}
    BY <1>1 DEF SymsInv
  <1>4. /\ base \in Nat /\ Len(imports) \in Nat /\ Len(relocs) \in Nat
        /\ \A k \in 1 .. Len(imports) : imports[k].slot \in Nat
        /\ \A k \in 1 .. Len(relocs) : relocs[k].va \in Int /\ relocs[k].addend \in Int
    BY <1>2, AddressTypes
  <1>5. /\ \A f \in DOMAIN TlsField : tls[f] \in Int
        /\ \A k \in 1 .. Len(InfoVas) : InfoVas[k] \in DOMAIN TlsField /\ tls[InfoVas[k]] \in Int
    BY <1>2, TlsTypes
  <1>6. syms \in Seq(DOMAIN Hash) /\ opt \in Option
    BY <1>3 DEF Imported, GivenInv
  <1>7. /\ Len(syms) \in Nat /\ Len(syms') >= Len(syms) + 1 /\ Len(syms') \in Nat
        /\ \A k \in 1 .. Len(syms) : syms'[k] = syms[k]
        /\ syms'[Len(syms) + 1] = ShimRegisterTls
    <2>1. Len(syms) \in Nat
      BY <1>6
    <2>2. /\ Len(syms') = Len(syms) + 1 + (IF opt.so THEN 1 ELSE 0)
          /\ \A k \in 1 .. Len(syms) : syms'[k] = syms[k]
          /\ syms'[Len(syms) + 1] = ShimRegisterTls
      BY <1>1, <1>6, WithOwnIs
    <2> QED BY <2>1, <2>2
  <1>8. ASSUME NEW k \in 1 .. Len(imports)
        PROVE  /\ SymIndex(Symbol(imports[k])) \in 1 .. Len(syms)
               /\ syms[SymIndex(Symbol(imports[k]))] = Symbol(imports[k])
               /\ base + imports[k].slot \in Int
    <2>1. n \in Nat
      BY DEF GivenInv
    <2>2. k < n
      BY <2>1, <1>1, <1>4
    <2>3. Known(Symbol(imports[k])) # {}
      BY <2>2, <1>3
    <2>4. base + imports[k].slot \in Int
      BY <1>4
    <2> QED BY <2>3, <2>4, SymIndexIs
  <1>9. own \in Seq(Rela) /\ Len(own) = Len(imports)
        /\ \A k \in 1 .. Len(imports) : own[k] = Bind(base + imports[k].slot, SymIndex(Symbol(imports[k])))
    <2>1. \A k \in 1 .. Len(imports) : Bind(base + imports[k].slot, SymIndex(Symbol(imports[k]))) \in Rela
      <3>1. \A k \in 1 .. Len(syms) : k \in Nat
        OBVIOUS
      <3> QED BY <3>1, <1>8, Entry
    <2>2. own \in [1 .. Len(imports) -> Rela]
      BY <2>1
    <2>3. \A k \in 1 .. Len(imports) : own[k] = Bind(base + imports[k].slot, SymIndex(Symbol(imports[k])))
      OBVIOUS
    <2> HIDE DEF own
    <2> QED BY <2>2, <2>3, <1>4, FnSeq
  <1>10. rel \in Seq(Rela) /\ Len(rel) = Len(relocs)
         /\ \A k \in 1 .. Len(relocs) : rel[k] = Relative(relocs[k].va, relocs[k].addend)
    <2>1. \A k \in 1 .. Len(relocs) : Relative(relocs[k].va, relocs[k].addend) \in Rela
      BY <1>4, Entry
    <2>2. rel \in [1 .. Len(relocs) -> Rela]
      BY <2>1
    <2>3. \A k \in 1 .. Len(relocs) : rel[k] = Relative(relocs[k].va, relocs[k].addend)
      OBVIOUS
    <2> HIDE DEF rel
    <2> QED BY <2>2, <2>3, <1>4, FnSeq
  <1>11. inf \in Seq(Rela) /\ Len(inf) = Len(InfoVas)
         /\ \A k \in 1 .. Len(InfoVas) : inf[k] = Relative(0, tls[InfoVas[k]])
    <2>1. \A k \in 1 .. Len(InfoVas) : Relative(0, tls[InfoVas[k]]) \in Rela
      BY <1>5, Entry
    <2>2. inf \in [1 .. Len(InfoVas) -> Rela]
      BY <2>1
    <2>3. \A k \in 1 .. Len(InfoVas) : inf[k] = Relative(0, tls[InfoVas[k]])
      OBVIOUS
    <2>4. Len(InfoVas) \in Nat
      BY InfoVasAre
    <2> HIDE DEF inf
    <2> QED BY <2>2, <2>3, <2>4, FnSeq
  <1>12. Bind(0, Len(syms) + 1) \in Rela
    <2>1. 0 \in Int /\ Len(syms) + 1 \in Nat
      BY <1>7
    <2> QED BY <2>1, Entry
  <1>13. infoRela' = [f \in {"template", "index", "callbacks"} |->
                    IF Has(InfoVas, f)
                    THEN slot + (CHOOSE k \in 1 .. Len(InfoVas) : InfoVas[k] = f) ELSE 0]
    BY <1>1 DEF Has
  <1> HIDE DEF own, rel, inf
  <1>14. /\ rela' \in Seq(Rela) /\ Len(rela') = Len(imports) + Len(relocs) + 1 + Len(InfoVas)
         /\ \A k \in 1 .. Len(imports) : rela'[k] = own[k]
         /\ \A k \in 1 .. Len(relocs) : rela'[Len(imports) + k] = rel[k]
         /\ rela'[slotRela'] = Bind(0, Len(syms) + 1)
         /\ \A k \in 1 .. Len(InfoVas) : rela'[slotRela' + k] = inf[k]
    <2>1. /\ rela' \in Seq(Rela) /\ Len(rela') = Len(own) + Len(rel) + 1 + Len(inf)
          /\ \A k \in 1 .. Len(own) : rela'[k] = own[k]
          /\ \A k \in 1 .. Len(rel) : rela'[Len(own) + k] = rel[k]
          /\ rela'[Len(own) + Len(rel) + 1] = Bind(0, Len(syms) + 1)
          /\ \A k \in 1 .. Len(inf) : rela'[Len(own) + Len(rel) + 1 + k] = inf[k]
      <3>1. own \in Seq(Rela) /\ rel \in Seq(Rela) /\ inf \in Seq(Rela)
        BY <1>9, <1>10, <1>11
      <3>2. rela' = Parts(own, rel, Bind(0, Len(syms) + 1), inf)
        BY <1>1 DEF Parts
      <3>3. PICK S : S = Rela
        OBVIOUS
      <3>4. PICK a, b, x, c : a = own /\ b = rel /\ x = Bind(0, Len(syms) + 1) /\ c = inf
        OBVIOUS
      <3>5. a \in Seq(S) /\ b \in Seq(S) /\ x \in S /\ c \in Seq(S)
        BY <3>1, <3>3, <3>4, <1>12
      <3>7. Parts(a, b, x, c) \in Seq(S) /\ Len(Parts(a, b, x, c)) = Len(a) + Len(b) + 1 + Len(c)
        BY <3>5, FourParts
      <3>8. \A k \in 1 .. Len(a) : Parts(a, b, x, c)[k] = a[k]
        BY <3>5, FourParts
      <3>9. \A k \in 1 .. Len(b) : Parts(a, b, x, c)[Len(a) + k] = b[k]
        BY <3>5, FourParts
      <3>10. Parts(a, b, x, c)[Len(a) + Len(b) + 1] = x
        BY <3>5, FourParts
      <3>11. \A k \in 1 .. Len(c) : Parts(a, b, x, c)[Len(a) + Len(b) + 1 + k] = c[k]
        BY <3>5, FourParts
      <3>12. rela' = Parts(a, b, x, c)
        BY <3>2, <3>4
      <3> QED BY <3>3, <3>4, <3>7, <3>8, <3>9, <3>10, <3>11, <3>12
    <2> QED BY <2>1, <1>1, <1>9, <1>10, <1>11
  <1>15. slotRela' = Len(imports) + Len(relocs) + 1
    BY <1>1, <1>9, <1>10
  <1>16. ASSUME NEW k \in 1 .. Len(imports)
         PROVE  Binding(rela[k], base + imports[k].slot, Symbol(imports[k]))'
    <2>1. /\ rela'[k].type = "R_X86_64_64" /\ rela'[k].off = base + imports[k].slot
          /\ rela'[k].sym = SymIndex(Symbol(imports[k]))
      BY <1>8, <1>9, <1>14, Entry
    <2>2. rela'[k].sym \in 1 .. Len(syms') /\ syms'[rela'[k].sym] = Symbol(imports[k])
      <3>1. SymIndex(Symbol(imports[k])) \in 1 .. Len(syms')
        BY <1>7, <1>8
      <3> QED BY <2>1, <3>1, <1>7, <1>8
    <2> QED BY <2>1, <2>2, <1>1 DEF Binding, Symbol
  <1>17. Binding(rela[slotRela], 0, ShimRegisterTls)'
    <2>1. Len(syms) + 1 \in Nat /\ Len(syms) + 1 \in 1 .. Len(syms') /\ 0 \in Int
      BY <1>7
    <2>2. /\ rela'[slotRela'].type = "R_X86_64_64" /\ rela'[slotRela'].off = 0
          /\ rela'[slotRela'].sym = Len(syms) + 1
      BY <2>1, <1>14, Entry
    <2> QED BY <2>1, <2>2, <1>7 DEF Binding, ShimRegisterTls
  <1>18. InfoVas' = InfoVas
    BY <1>1 DEF InfoVas, IfVa
  <1>19. \A k \in 1 .. Len(InfoVas) : infoRela'[InfoVas[k]] = slotRela' + k
    <2> SUFFICES ASSUME NEW k \in 1 .. Len(InfoVas) PROVE infoRela'[InfoVas[k]] = slotRela' + k
      OBVIOUS
    <2>1. \A l \in 1 .. Len(InfoVas) : InfoVas[l] = InfoVas[k] => l = k
      BY InfoVasAre DEF Once
    <2>2. (CHOOSE l \in 1 .. Len(InfoVas) : InfoVas[l] = InfoVas[k]) = k
      BY <2>1
    <2>3. Has(InfoVas, InfoVas[k])
      BY DEF Has
    <2>4. InfoVas[k] \in {"template", "index", "callbacks"}
      BY <1>5 DEF TlsField
    <2> QED BY <2>2, <2>3, <2>4, <1>13, <1>1
  <1>20. DOMAIN infoRela' = DOMAIN TlsField /\ \A f \in DOMAIN TlsField : infoRela'[f] # 0 => Has(InfoVas, f)
    <2>1. DOMAIN TlsField = {"template", "index", "callbacks"}
      BY DEF TlsField
    <2> QED BY <2>1, <1>13
  <1>21. \A k \in 1 .. Len(relocs) : rela'[Len(imports) + k] = Relative(relocs[k].va, relocs[k].addend)
    BY <1>10, <1>14
  <1>22. \A k \in 1 .. Len(InfoVas) : rela'[slotRela' + k] = Relative(0, tls[InfoVas[k]])
    BY <1>11, <1>14
  <1> QED BY <1>1, <1>2, <1>14, <1>15, <1>16, <1>17, <1>18, <1>19, <1>20, <1>21, <1>22 DEF RelaInv, Relative

(* The words of ShimTlsInfo.                                               *)
LEMMA InfoAtIs ==
  /\ \A f \in DOMAIN NoInfo : InfoAt(f) \in 0 .. 5 /\ InfoFields[InfoAt(f) + 1] = f
  /\ DOMAIN TlsField \subseteq DOMAIN NoInfo
  /\ \A k \in 0 .. 5 : InfoFields[k + 1] \in DOMAIN NoInfo
  /\ \A f \in DOMAIN NoInfo, k \in 0 .. 5 : InfoFields[k + 1] = f => k = InfoAt(f)
  <1>1. /\ InfoFields[0 + 1] = "template" /\ InfoFields[1 + 1] = "size" /\ InfoFields[2 + 1] = "zero_fill"
        /\ InfoFields[3 + 1] = "align" /\ InfoFields[4 + 1] = "index" /\ InfoFields[5 + 1] = "callbacks"
    BY DEF InfoFields
  <1>2. DOMAIN NoInfo = {"template", "size", "zero_fill", "align", "index", "callbacks"}
    BY DEF NoInfo
  <1>3. 0 .. 5 = {0, 1, 2, 3, 4, 5}
    OBVIOUS
  <1>4. \A f \in DOMAIN NoInfo : \E k \in 0 .. 5 : InfoFields[k + 1] = f
    BY <1>1, <1>2, <1>3
  <1>5. \A f \in DOMAIN NoInfo : InfoAt(f) \in 0 .. 5 /\ InfoFields[InfoAt(f) + 1] = f
    BY <1>4 DEF InfoAt
  <1>6. \A k, l \in 0 .. 5 : InfoFields[k + 1] = InfoFields[l + 1] => k = l
    BY <1>1, <1>3
  <1>7. \A f \in DOMAIN NoInfo, k \in 0 .. 5 : InfoFields[k + 1] = f => k = InfoAt(f)
    BY <1>5, <1>6
  <1>8. \A k \in 0 .. 5 : InfoFields[k + 1] \in DOMAIN NoInfo
    BY <1>1, <1>2, <1>3
  <1>9. DOMAIN TlsField \subseteq DOMAIN NoInfo
    BY <1>2 DEF TlsField
  <1> QED BY <1>5, <1>7, <1>8, <1>9

(* The offsets that were not known are filled in.                          *)
LEMMA RelaFinalize ==
  ASSUME GivenInv, ImportsInv, RelocsInv, TlsTypeInv, RelaInv, Finalize
  PROVE  RelaInv'
  <1>1. /\ pc = "finalize" /\ pc' = "patch"
        /\ rela' = [k \in 1 .. Len(rela) |->
                IF k = slotRela THEN [rela[k] EXCEPT !.off = trampoline_va + SlotOff]
                ELSE IF \E f \in DOMAIN infoRela : infoRela[f] = k
                THEN [rela[k] EXCEPT !.off = trampoline_va + InfoOff
                        + InfoAt(CHOOSE f \in DOMAIN infoRela : infoRela[f] = k)]
                ELSE rela[k]]
        /\ img' = img /\ opt' = opt /\ base' = base /\ imports' = imports /\ relocs' = relocs /\ tls' = tls
        /\ syms' = syms /\ slotRela' = slotRela /\ infoRela' = infoRela
    BY DEF Finalize
  <1>2. pc \in Emitted /\ pc \notin Finalized /\ pc' \in Finalized /\ pc' \in Emitted
        /\ pc \notin Reading \cup {"failed"}
    BY <1>1 DEF Emitted, Finalized, Loading, Reading
  <1>3. /\ base \in Nat /\ Len(imports) \in Nat /\ Len(relocs) \in Nat
    BY <1>2, AddressTypes
  <1>4. Len(InfoVas) \in Nat /\ Once(InfoVas)
    BY InfoVasAre
  <1>5. /\ rela \in Seq(Rela)
        /\ Len(rela) = Len(imports) + Len(relocs) + 1 + Len(InfoVas)
        /\ slotRela = Len(imports) + Len(relocs) + 1
        /\ DOMAIN infoRela = DOMAIN TlsField
        /\ \A f \in DOMAIN TlsField : infoRela[f] # 0 => Has(InfoVas, f)
        /\ \A k \in 1 .. Len(InfoVas) : infoRela[InfoVas[k]] = slotRela + k
    BY <1>2 DEF RelaInv
  <1>6. Len(rela) \in Nat /\ slotRela \in Nat
    BY <1>3, <1>4, <1>5
  <1>7. \A k \in 1 .. Len(InfoVas) : InfoVas[k] \in DOMAIN TlsField
    BY InfoVasAre
  <1>8. \A f \in DOMAIN TlsField : infoRela[f] # 0 => \E k \in 1 .. Len(InfoVas) : InfoVas[k] = f /\ infoRela[f] = slotRela + k
    BY <1>5 DEF Has
  <1>9. trampoline_va \in Int /\ trampoline_va + SlotOff \in Int
        /\ \A f \in DOMAIN TlsField : trampoline_va + InfoOff + InfoAt(f) \in Int
    <2>1. trampoline_va \in Int
      BY <1>3, LoaderAssumption DEF trampoline_va
    <2>2. \A f \in DOMAIN TlsField : InfoAt(f) \in Int
      BY InfoAtIs
    <2> QED BY <2>1, <2>2 DEF SlotOff, InfoOff
  <1>10. Len(rela') = Len(rela)
    BY <1>1, <1>6
  <1>11. ASSUME NEW k \in 1 .. Len(rela), k < slotRela PROVE rela'[k] = rela[k]
    <2>1. ~\E f \in DOMAIN infoRela : infoRela[f] = k
      <3> SUFFICES ASSUME NEW f \in DOMAIN TlsField, infoRela[f] = k PROVE FALSE
        BY <1>5
      <3>1. k # 0
        OBVIOUS
      <3>2. PICK l \in 1 .. Len(InfoVas) : infoRela[f] = slotRela + l
        BY <1>8, <3>1
      <3> QED BY <3>2, <1>6, <1>11
    <2>2. k # slotRela
      BY <1>6, <1>11
    <2> QED BY <2>1, <2>2, <1>1
  <1>12. slotRela \in 1 .. Len(rela) /\ rela'[slotRela] = [rela[slotRela] EXCEPT !.off = trampoline_va + SlotOff]
    <2>1. slotRela \in 1 .. Len(rela)
      BY <1>3, <1>4, <1>5
    <2> QED BY <2>1, <1>1
  <1>13. ASSUME NEW k \in 1 .. Len(InfoVas)
         PROVE  /\ slotRela + k \in 1 .. Len(rela)
                /\ rela'[slotRela + k] = [rela[slotRela + k] EXCEPT !.off = trampoline_va + InfoOff + InfoAt(InfoVas[k])]
    <2>1. slotRela + k \in 1 .. Len(rela) /\ slotRela + k # slotRela
      BY <1>3, <1>4, <1>5
    <2>2. InfoVas[k] \in DOMAIN infoRela /\ infoRela[InfoVas[k]] = slotRela + k
      BY <1>5, <1>7
    <2>3. ASSUME NEW f \in DOMAIN infoRela, infoRela[f] = slotRela + k PROVE f = InfoVas[k]
      <3>1. slotRela + k # 0
        BY <1>6
      <3>2. PICK l \in 1 .. Len(InfoVas) : InfoVas[l] = f /\ infoRela[f] = slotRela + l
        BY <2>3, <3>1, <1>8, <1>5
      <3>3. l = k
        BY <2>3, <3>2, <1>6
      <3> QED BY <3>2, <3>3
    <2>4. (CHOOSE f \in DOMAIN infoRela : infoRela[f] = slotRela + k) = InfoVas[k]
      BY <2>2, <2>3
    <2> QED BY <2>1, <2>2, <2>4, <1>1
  <1>14. \A k \in 1 .. Len(rela) : rela[k] \in Rela
    BY <1>5, ElementOfSeq, Zenon
  <1>15. \A k \in 1 .. Len(rela) : rela'[k] \in Rela
    <2> SUFFICES ASSUME NEW k \in 1 .. Len(rela) PROVE rela'[k] \in Rela
      OBVIOUS
    <2>1. \A r \in Rela, off \in Int : [r EXCEPT !.off = off] \in Rela
      BY DEF Rela
    <2>2. CASE k < slotRela
      BY <2>2, <1>11, <1>14
    <2>3. CASE k = slotRela
      BY <2>1, <2>3, <1>12, <1>14, <1>9
    <2>4. CASE k > slotRela
      <3>1. PICK l : l = k - slotRela
        OBVIOUS
      <3>2. l \in 1 .. Len(InfoVas) /\ k = slotRela + l
        BY <3>1, <2>4, <1>3, <1>4, <1>5
      <3>3. rela'[k] = [rela[k] EXCEPT !.off = trampoline_va + InfoOff + InfoAt(InfoVas[l])]
        BY <3>2, <1>13
      <3>4. trampoline_va + InfoOff + InfoAt(InfoVas[l]) \in Int
        BY <3>2, <1>7, <1>9
      <3> QED BY <3>3, <3>4, <2>1, <1>14
    <2> QED BY <2>2, <2>3, <2>4, <1>6
  <1>16. rela' \in Seq(Rela)
    <2>1. rela' \in [1 .. Len(rela) -> Rela]
      <3>1. rela' = [k \in 1 .. Len(rela) |-> rela'[k]]
        BY <1>1
      <3> QED BY <3>1, <1>15
    <2> QED BY <2>1, <1>6, FnSeq
  <1>17. ASSUME NEW k \in 1 .. Len(imports)
         PROVE  Binding(rela[k], base + imports[k].slot, Symbol(imports[k]))'
    <2>1. k \in 1 .. Len(rela) /\ k < slotRela
      BY <1>3, <1>4, <1>5
    <2>2. Binding(rela[k], base + imports[k].slot, Symbol(imports[k]))
      BY <1>2 DEF RelaInv
    <2>3. rela'[k] = rela[k]
      BY <2>1, <1>11
    <2> QED BY <2>2, <2>3, <1>1 DEF Binding, Symbol
  <1>18. Binding(rela[slotRela], trampoline_va + SlotOff, ShimRegisterTls)'
    <2>1. Binding(rela[slotRela], 0, ShimRegisterTls)
      BY <1>2 DEF RelaInv
    <2>2. /\ rela'[slotRela].type = rela[slotRela].type /\ rela'[slotRela].sym = rela[slotRela].sym
          /\ rela'[slotRela].off = trampoline_va + SlotOff
      <3>1. rela[slotRela] \in Rela
        BY <1>12, <1>14
      <3> QED BY <3>1, <1>12 DEF Rela
    <2>3. trampoline_va' = trampoline_va
      BY <1>1 DEF trampoline_va
    <2> QED BY <2>1, <2>2, <2>3, <1>1 DEF Binding, ShimRegisterTls
  <1>19. InfoVas' = InfoVas /\ trampoline_va' = trampoline_va
    BY <1>1 DEF InfoVas, IfVa, trampoline_va
  <1>20. \A k \in 1 .. Len(relocs) : rela'[Len(imports) + k] = Relative(relocs[k].va, relocs[k].addend)
    <2> SUFFICES ASSUME NEW k \in 1 .. Len(relocs)
                 PROVE  rela'[Len(imports) + k] = Relative(relocs[k].va, relocs[k].addend)
      OBVIOUS
    <2>1. Len(imports) + k \in 1 .. Len(rela) /\ Len(imports) + k < slotRela
      BY <1>3, <1>4, <1>5
    <2>2. rela[Len(imports) + k] = Relative(relocs[k].va, relocs[k].addend)
      BY <1>2 DEF RelaInv
    <2> QED BY <2>1, <2>2, <1>11
  <1>21. \A k \in 1 .. Len(InfoVas) : rela'[slotRela + k]
             = Relative(trampoline_va + InfoOff + InfoAt(InfoVas[k]), tls[InfoVas[k]])
    <2> SUFFICES ASSUME NEW k \in 1 .. Len(InfoVas)
                 PROVE  rela'[slotRela + k] = Relative(trampoline_va + InfoOff + InfoAt(InfoVas[k]), tls[InfoVas[k]])
      OBVIOUS
    <2>1. rela[slotRela + k] = Relative(0, tls[InfoVas[k]])
      BY <1>2 DEF RelaInv
    <2>2. \A off : [Relative(0, tls[InfoVas[k]]) EXCEPT !.off = off] = Relative(off, tls[InfoVas[k]])
      BY DEF Relative
    <2> QED BY <2>1, <2>2, <1>13
  <1>22. Binding(rela[slotRela], IF pc \in Finalized THEN trampoline_va + SlotOff ELSE 0, ShimRegisterTls)'
    BY <1>2, <1>18
  <1>23. \A k \in 1 .. Len(InfoVas') :
           /\ infoRela'[InfoVas'[k]] = slotRela' + k
           /\ rela'[slotRela' + k] = Relative(IF pc' \in Finalized
                                        THEN trampoline_va' + InfoOff + InfoAt(InfoVas'[k]) ELSE 0,
                                        tls'[InfoVas'[k]])
    BY <1>1, <1>2, <1>5, <1>19, <1>21
  <1>24. /\ \A k \in 1 .. Len(imports') : Binding(rela[k], base + imports[k].slot, Symbol(imports[k]))'
         /\ \A k \in 1 .. Len(relocs') : rela'[Len(imports') + k] = Relative(relocs'[k].va, relocs'[k].addend)
    BY <1>1, <1>17, <1>20
  <1>25. /\ Len(rela') = Len(imports') + Len(relocs') + 1 + Len(InfoVas')
         /\ slotRela' = Len(imports') + Len(relocs') + 1
         /\ DOMAIN infoRela' = DOMAIN TlsField
         /\ \A f \in DOMAIN TlsField : infoRela'[f] # 0 => Has(InfoVas', f)
    BY <1>1, <1>5, <1>10, <1>19
  <1> QED BY <1>16, <1>22, <1>23, <1>24, <1>25 DEF RelaInv, Relative

(* The relocations follow the tables they are made from.                   *)
LEMMA RelaStep ==
  GivenInv /\ ImportsInv /\ RelocsInv /\ TlsTypeInv /\ SymsInv /\ RelaInv /\ [Next]_vars => RelaInv'
  <1> SUFFICES ASSUME GivenInv, ImportsInv, RelocsInv, TlsTypeInv, SymsInv, RelaInv, [Next]_vars PROVE RelaInv'
    OBVIOUS
  <1>1. CASE BuildRela
    BY <1>1, RelaBuild
  <1>2. CASE Finalize
    BY <1>2, RelaFinalize
  <1>3. CASE ~BuildRela /\ ~Finalize
    <2>1. \/ pc' \notin Emitted
          \/ /\ pc \in Emitted /\ (pc' \in Finalized <=> pc \in Finalized)
             /\ rela' = rela /\ base' = base /\ imports' = imports /\ relocs' = relocs /\ tls' = tls
             /\ syms' = syms /\ slotRela' = slotRela /\ infoRela' = infoRela
      BY <1>3 DEF Reading, Emitted, Loading, Finalized,
         Next, vars, LostDirectory, CollectImport, UnknownOrdinal, NextDescriptor, ImportsDone, AtEntry,
         CollectReloc, RelocsDone, CannotRebase, Rebase, Rebased, CollectTls, NameImport,
         BuildHash, HashDone, CannotFinalize, PatchAndWrite, Map, Relocate, Enter, Fail
    <2>2. CASE pc' \notin Emitted
      BY <2>2 DEF RelaInv
    <2>3. CASE /\ pc \in Emitted /\ (pc' \in Finalized <=> pc \in Finalized)
               /\ rela' = rela /\ base' = base /\ imports' = imports /\ relocs' = relocs /\ tls' = tls
               /\ syms' = syms /\ slotRela' = slotRela /\ infoRela' = infoRela
      <3>1. opt' = opt
        BY ReadersWrite
      <3>2. InfoVas' = InfoVas /\ trampoline_va' = trampoline_va
        BY <2>3, <3>1 DEF InfoVas, IfVa, trampoline_va
      <3>3. \A k \in 1 .. Len(imports) : Binding(rela[k], base + imports[k].slot, Symbol(imports[k]))'
        <4>1. \A k \in 1 .. Len(imports) : Binding(rela[k], base + imports[k].slot, Symbol(imports[k]))
          BY <2>3 DEF RelaInv
        <4> QED BY <4>1, <2>3 DEF Binding, Symbol
      <3>4. Binding(rela[slotRela], IF pc \in Finalized THEN trampoline_va + SlotOff ELSE 0, ShimRegisterTls)'
        <4>1. Binding(rela[slotRela], IF pc \in Finalized THEN trampoline_va + SlotOff ELSE 0, ShimRegisterTls)
          BY <2>3 DEF RelaInv
        <4> QED BY <4>1, <2>3, <3>2 DEF Binding, ShimRegisterTls
      <3>5. rela \in Seq(Rela) /\ RelaInv /\ pc \in Emitted
        BY <2>3 DEF RelaInv
      <3> QED BY <2>3, <3>2, <3>3, <3>4, <3>5 DEF RelaInv
    <2> QED BY <2>1, <2>2, <2>3
  <1> QED BY <1>1, <1>2, <1>3

-----------------------------------------------------------------------------
(* The hash table.                                                         *)

(* Buckets are the first numbers.                                          *)
LEMMA BucketOf ==
  ASSUME GivenInv, SymsInv, pc \in Emitted
  PROVE  /\ Len(syms) \in Nat
         /\ \A k \in 1 .. Len(syms) : Hash[syms[k]] % (Len(syms) + 1) \in 0 .. Len(syms)
  <1>1. syms \in Seq(DOMAIN Hash) /\ Len(syms) \in Nat
    BY SymsAre
  <1>2. \A k \in 1 .. Len(syms) : syms[k] \in DOMAIN Hash
    BY <1>1, ElementOfSeq, Zenon
  <1>3. \A k \in 1 .. Len(syms) : Hash[syms[k]] \in Nat
    BY <1>2, LoaderAssumption
  <1>4. \A h \in Nat : h % (Len(syms) + 1) \in 0 .. Len(syms)
    BY <1>1
  <1> QED BY <1>1, <1>3, <1>4

(* Buckets with the same symbols.                                          *)
LEMMA BucketsStay ==
  ASSUME syms' = syms
  PROVE  \A p, k, b : LastBefore(p, k, b) => LastBefore(p, k, b)'
  BY DEF LastBefore, InBucket

(* One symbol is entered.                                                  *)
LEMMA HashEnter ==
  ASSUME GivenInv, SymsInv, HashInv, BuildHash
  PROVE  HashInv'
  <1>1. /\ pc = "hash" /\ pc' = "hash" /\ n <= Len(syms) /\ n' = n + 1 /\ syms' = syms /\ opt' = opt
        /\ chain' = [chain EXCEPT ![n] = buckets[Hash[syms[n]] % (Len(syms) + 1)]]
        /\ buckets' = [buckets EXCEPT ![Hash[syms[n]] % (Len(syms) + 1)] = n]
    BY DEF BuildHash, Linked
  <1> SUFFICES ASSUME opt.so PROVE HashInv'
    BY <1>1 DEF HashInv
  <1>2. pc \in Emitted
    BY <1>1 DEF Emitted
  <1>a. n \in Nat /\ n >= 1
    BY DEF GivenInv
  <1>b. Len(syms) \in Nat
    BY <1>2, BucketOf
  <1>3. Len(syms) \in Nat /\ n \in 1 .. Len(syms) /\ n \in Nat
    BY <1>1, <1>a, <1>b
  <1> DEFINE b0 == Hash[syms[n]] % (Len(syms) + 1)
  <1>4. b0 \in 0 .. Len(syms) /\ InBucket(n, b0)
    BY <1>2, <1>3, BucketOf DEF InBucket
  <1>5. /\ DOMAIN buckets = 0 .. Len(syms) /\ DOMAIN chain = 0 .. Len(syms)
        /\ \A b \in 0 .. Len(syms) : LastBefore(buckets[b], n, b)
        /\ \A k \in 1 .. Len(syms) : k < n => LastBefore(chain[k], k, Hash[syms[k]] % (Len(syms) + 1))
    BY <1>1, <1>2 DEF HashInv
  <1>6. chain' = [chain EXCEPT ![n] = buckets[b0]] /\ buckets' = [buckets EXCEPT ![b0] = n]
    BY <1>1
  <1>7. \A b : InBucket(n, b) => b = b0
    BY DEF InBucket
  <1> HIDE DEF b0
  <1>8. ASSUME NEW b \in 0 .. Len(syms) PROVE LastBefore(buckets'[b], n + 1, b)
    <2>1. CASE b = b0
      <3>1. buckets'[b] = n
        BY <2>1, <1>4, <1>5, <1>6
      <3>2. n \in 0 .. n + 1 - 1 /\ n + 1 .. n + 1 - 1 = {}
        BY <1>3
      <3> QED BY <2>1, <3>1, <3>2, <1>4 DEF LastBefore
    <2>2. CASE b # b0
      <3>1. buckets'[b] = buckets[b]
        BY <2>2, <1>4, <1>5, <1>6
      <3>2. PICK p : p = buckets[b]
        OBVIOUS
      <3>3. LastBefore(p, n, b) /\ ~InBucket(n, b)
        BY <2>2, <3>2, <1>5, <1>7
      <3>4. p \in 0 .. n - 1 /\ p \in 0 .. n + 1 - 1
        BY <3>3, <1>3 DEF LastBefore
      <3>5. \A q \in p + 1 .. n + 1 - 1 : q \in p + 1 .. n - 1 \/ q = n
        BY <3>4, <1>3
      <3>6. p # 0 => InBucket(p, b)
        BY <3>3 DEF LastBefore
      <3>7. \A q \in p + 1 .. n + 1 - 1 : ~InBucket(q, b)
        <4>1. \A q \in p + 1 .. n - 1 : ~InBucket(q, b)
          BY <3>3 DEF LastBefore
        <4> QED BY <4>1, <3>3, <3>5
      <3>a. PICK k : k = n + 1
        OBVIOUS
      <3>b. p \in 0 .. k - 1 /\ \A q \in p + 1 .. k - 1 : ~InBucket(q, b)
        <4>1. p \in 0 .. k - 1
          BY <3>a, <3>4, <1>3
        <4>2. ASSUME NEW q \in p + 1 .. k - 1 PROVE ~InBucket(q, b)
          <5>1. q \in p + 1 .. n + 1 - 1
            BY <3>a, <1>3
          <5> QED BY <5>1, <3>7
        <4> QED BY <4>1, <4>2
      <3>c. LastBefore(p, k, b)
        BY <3>b, <3>6, Zenon DEF LastBefore
      <3>8. LastBefore(p, n + 1, b)
        BY <3>a, <3>c
      <3> QED BY <3>1, <3>2, <3>8
    <2> QED BY <2>1, <2>2
  <1>9. ASSUME NEW k \in 1 .. Len(syms), k < n + 1
        PROVE  LastBefore(chain'[k], k, Hash[syms[k]] % (Len(syms) + 1))
    <2>1. k \in 0 .. Len(syms)
      BY <1>3
    <2>2. CASE k = n
      <3>1. chain'[k] = buckets[b0]
        BY <2>1, <2>2, <1>5, <1>6
      <3> QED BY <3>1, <2>2, <1>4, <1>5 DEF b0
    <2>3. CASE k # n
      <3>1. k < n
        BY <2>3, <1>3, <1>9
      <3>2. chain'[k] = chain[k]
        BY <2>3, <2>1, <1>5, <1>6
      <3> QED BY <3>1, <3>2, <1>5
    <2> QED BY <2>2, <2>3
  <1>10. n + 1 <= Len(syms) + 1
    BY <1>3
  <1>11. \A b \in 0 .. Len(syms') : LastBefore(buckets[b], n, b)'
    BY <1>1, <1>8, BucketsStay DEF LastBefore, InBucket
  <1>12. \A k \in 1 .. Len(syms') : k < n' => LastBefore(chain[k], k, Hash[syms[k]] % (Len(syms) + 1))'
    BY <1>1, <1>9 DEF LastBefore, InBucket
  <1>13. DOMAIN buckets' = 0 .. Len(syms') /\ DOMAIN chain' = 0 .. Len(syms')
    BY <1>1, <1>5, <1>6
  <1> QED BY <1>1, <1>10, <1>11, <1>12, <1>13 DEF HashInv

(* The chains are those of the symbols entered so far.                     *)
LEMMA HashStep == GivenInv /\ SymsInv /\ HashInv /\ [Next]_vars => HashInv'
  <1> SUFFICES ASSUME GivenInv, SymsInv, HashInv, [Next]_vars PROVE HashInv'
    OBVIOUS
  <1>1. opt' = opt
    BY ReadersWrite
  <1>2. CASE BuildHash
    BY <1>2, HashEnter
  <1>3. CASE BuildRela
    <2> SUFFICES ASSUME opt.so PROVE HashInv'
      BY <1>1 DEF HashInv
    <2>1. /\ pc = "symbols" /\ pc' = "hash" /\ n' = 1 /\ syms' = WithOwn(syms)
          /\ buckets' = [b \in 0 .. Len(syms') |-> 0] /\ chain' = [k \in 0 .. Len(syms') |-> 0]
      BY <1>3 DEF BuildRela, WithOwn
    <2>2. Imported(syms) /\ opt \in Option
      BY <2>1 DEF SymsInv, GivenInv
    <2>3. syms \in Seq(DOMAIN Hash)
      BY <2>2 DEF Imported
    <2>4. Len(syms') \in Nat
      BY <2>1, <2>2, <2>3, WithOwnIs
    <2>5. \A b \in 0 .. Len(syms') : LastBefore(buckets[b], 1, b)'
      <3>1. 0 \in 0 .. 1 - 1 /\ 0 + 1 .. 1 - 1 = {}
        OBVIOUS
      <3>2. \A b : LastBefore(0, 1, b)'
        BY <3>1 DEF LastBefore
      <3>3. \A b \in 0 .. Len(syms') : buckets'[b] = 0
        BY <2>1
      <3> QED BY <3>1, <3>3 DEF LastBefore
    <2>6. \A k \in 1 .. Len(syms') : ~(k < n')
      BY <2>1, <2>4
    <2>7. n' <= Len(syms') + 1 /\ DOMAIN buckets' = 0 .. Len(syms') /\ DOMAIN chain' = 0 .. Len(syms')
      BY <2>1, <2>4
    <2> QED BY <2>1, <2>5, <2>6, <2>7 DEF HashInv
  <1>4. CASE HashDone
    <2> SUFFICES ASSUME opt.so PROVE HashInv'
      BY <1>1 DEF HashInv
    <2>1. /\ pc = "hash" /\ pc' = "finalize" /\ n > Len(syms) /\ n' = n /\ syms' = syms
          /\ buckets' = buckets /\ chain' = chain
      BY <1>4 DEF HashDone
    <2>2. pc \in Emitted
      BY <2>1 DEF Emitted
    <2>3. /\ n <= Len(syms) + 1
          /\ DOMAIN buckets = 0 .. Len(syms) /\ DOMAIN chain = 0 .. Len(syms)
          /\ \A b \in 0 .. Len(syms) : LastBefore(buckets[b], n, b)
          /\ \A k \in 1 .. Len(syms) : k < n => LastBefore(chain[k], k, Hash[syms[k]] % (Len(syms) + 1))
      BY <2>1, <2>2 DEF HashInv
    <2>4. Len(syms) \in Nat /\ n \in Nat
      BY <2>2, BucketOf DEF GivenInv
    <2>5. n = Len(syms) + 1
      BY <2>1, <2>3, <2>4
    <2>6. \A b \in 0 .. Len(syms') : LastBefore(buckets[b], Len(syms) + 1, b)'
      BY <2>1, <2>3, <2>5 DEF LastBefore, InBucket
    <2>7. \A k \in 1 .. Len(syms') : k < Len(syms') + 1 => LastBefore(chain[k], k, Hash[syms[k]] % (Len(syms) + 1))'
      BY <2>1, <2>3, <2>5 DEF LastBefore, InBucket
    <2>8. Len(syms') + 1 <= Len(syms') + 1
      BY <2>1, <2>4
    <2> QED BY <2>1, <2>3, <2>6, <2>7, <2>8 DEF HashInv
  <1>5. CASE ~BuildHash /\ ~BuildRela /\ ~HashDone
    <2>1. \/ pc' \notin Emitted
          \/ /\ pc \in Emitted /\ syms' = syms /\ buckets' = buckets /\ chain' = chain
             /\ (pc = "hash" /\ pc' = "hash" /\ n' = n) \/ (pc # "hash" /\ pc' # "hash")
      BY <1>5 DEF Reading, Emitted, Loading,
         Next, vars, LostDirectory, CollectImport, UnknownOrdinal, NextDescriptor, ImportsDone, AtEntry,
         CollectReloc, RelocsDone, CannotRebase, Rebase, Rebased, CollectTls, NameImport,
         Finalize, CannotFinalize, PatchAndWrite, Map, Relocate, Enter, Fail
    <2>2. CASE pc' \notin Emitted
      BY <2>2 DEF HashInv
    <2>3. CASE /\ pc \in Emitted /\ syms' = syms /\ buckets' = buckets /\ chain' = chain
               /\ (pc = "hash" /\ pc' = "hash" /\ n' = n) \/ (pc # "hash" /\ pc' # "hash")
      <3> SUFFICES ASSUME opt.so PROVE HashInv'
        BY <1>1 DEF HashInv
      <3> DEFINE done == IF pc = "hash" THEN n ELSE Len(syms) + 1
      <3>1. /\ done <= Len(syms) + 1
            /\ DOMAIN buckets = 0 .. Len(syms) /\ DOMAIN chain = 0 .. Len(syms)
            /\ \A b \in 0 .. Len(syms) : LastBefore(buckets[b], done, b)
            /\ \A k \in 1 .. Len(syms) : k < done => LastBefore(chain[k], k, Hash[syms[k]] % (Len(syms) + 1))
        BY <2>3 DEF HashInv
      <3>2. done' = done
        BY <2>3
      <3>3. \A b \in 0 .. Len(syms') : LastBefore(buckets[b], done, b)'
        BY <2>3, <3>1, <3>2 DEF LastBefore, InBucket
      <3>4. \A k \in 1 .. Len(syms') : k < done' => LastBefore(chain[k], k, Hash[syms[k]] % (Len(syms) + 1))'
        BY <2>3, <3>1, <3>2 DEF LastBefore, InBucket
      <3> QED BY <2>3, <3>1, <3>2, <3>3, <3>4 DEF HashInv
    <2> QED BY <2>1, <2>2, <2>3
  <1> QED BY <1>2, <1>3, <1>4, <1>5

\* The walk along the chain of a bucket, step by step.
Walks(w, s, last) ==
  w = [k \in 0 .. last |->
         IF k = 0 THEN buckets[Hash[s] % (Len(syms) + 1)]
         ELSE IF w[k - 1] = 0 THEN 0
         ELSE IF syms[w[k - 1]] = s THEN w[k - 1] ELSE chain[w[k - 1]]]

(* What holds of 0, and of every number after one it holds of, holds of    *)
(* all: induction is by this lemma, over the set of the numbers of which   *)
(* something holds.                                                        *)
LEMMA CountUp ==
  ASSUME NEW S, 0 \in S, \A k \in Nat : k \in S => k + 1 \in S
  PROVE  \A k \in Nat : k \in S
  <1> DEFINE T == Nat \ S
  <1> DEFINE R == {ss \in Nat \X Nat : ss[1] < ss[2]}
  <1> SUFFICES ASSUME T # {} PROVE FALSE
    OBVIOUS
  <1>1. IsWellFoundedOn(R, Nat)
    BY NatLessThanWellFounded DEF OpToRel
  <1>2. PICK x \in T : \A y \in T : ~(<<y, x>> \in R)
    <2>1. T \subseteq Nat /\ T # {}
      OBVIOUS
    <2> HIDE DEF R, T
    <2> QED BY <1>1, <2>1, WFMin
  <1>3. x \in Nat /\ x \notin S /\ x # 0
    OBVIOUS
  <1>4. x - 1 \in Nat /\ x - 1 < x /\ (x - 1) + 1 = x
    BY <1>3
  <1>5. x - 1 \notin T
    BY <1>2, <1>3, <1>4
  <1> QED BY <1>3, <1>4, <1>5

(* There is such a walk.                                                   *)
LEMMA WalksExist ==
  ASSUME NEW s
  PROVE  \A last \in Nat : \E w : Walks(w, s, last)
  <1> DEFINE S == {last \in Nat : \E w : Walks(w, s, last)}
  <1> DEFINE After(v) == IF v = 0 THEN 0 ELSE IF syms[v] = s THEN v ELSE chain[v]
  <1> DEFINE first == buckets[Hash[s] % (Len(syms) + 1)]
  <1>1. \A w, last : Walks(w, s, last) <=> w = [k \in 0 .. last |-> IF k = 0 THEN first ELSE After(w[k - 1])]
    BY DEF Walks
  <1> HIDE DEF After, first
  <1>2. 0 \in S
    <2> DEFINE w == [k \in 0 .. 0 |-> first]
    <2>1. w = [k \in 0 .. 0 |-> IF k = 0 THEN first ELSE After(w[k - 1])]
      OBVIOUS
    <2> QED BY <2>1, <1>1
  <1>3. ASSUME NEW last \in Nat, last \in S PROVE last + 1 \in S
    <2>1. PICK v : v = [k \in 0 .. last |-> IF k = 0 THEN first ELSE After(v[k - 1])]
      BY <1>1, <1>3
    <2> DEFINE w == [k \in 0 .. last + 1 |-> IF k = 0 THEN first ELSE After(v[k - 1])]
    <2>2. \A k \in 0 .. last : w[k] = v[k]
      BY <2>1
    <2>3. ASSUME NEW k \in 0 .. last + 1, k # 0 PROVE w[k - 1] = v[k - 1]
      <3>1. k - 1 \in 0 .. last
        BY <2>3
      <3> HIDE DEF w
      <3> QED BY <3>1, <2>2
    <2>4. w = [k \in 0 .. last + 1 |-> IF k = 0 THEN first ELSE After(w[k - 1])]
      BY <2>3
    <2> HIDE DEF w
    <2>5. Walks(w, s, last + 1) /\ last + 1 \in Nat
      BY <2>4, <1>1
    <2> QED BY <2>5
  <1> HIDE DEF S
  <1>4. \A last \in Nat : last \in S
    BY <1>2, <1>3, CountUp
  <1> QED BY <1>4 DEF S

(* Lookup is the end of it.                                                *)
LEMMA LookupWalks ==
  ASSUME NEW s, Len(syms) \in Nat
  PROVE  \E w : Walks(w, s, Len(syms)) /\ Lookup(s) = w[Len(syms)]
  <1>1. PICK w : w = CHOOSE v : Walks(v, s, Len(syms))
    OBVIOUS
  <1>2. Walks(w, s, Len(syms))
    <2>1. \E v : Walks(v, s, Len(syms))
      BY WalksExist
    <2> QED BY <1>1, <2>1
  <1>3. Lookup(s) = LET v == CHOOSE x : Walks(x, s, Len(syms)) IN v[Len(syms)]
    BY DEF Lookup, Walks
  <1> QED BY <1>1, <1>2, <1>3

(* A walk for a symbol goes down its bucket to the symbol.                 *)
LEMMA WalkFinds ==
  ASSUME GivenInv, ImportsInv, SymsInv, HashInv, OwnNames(Job), opt.so,
         pc \in Emitted \ {"hash"}, NEW t \in 1 .. Len(syms), NEW w, Walks(w, syms[t], Len(syms))
  PROVE  w[Len(syms)] = t
  <1>1. Len(syms) \in Nat /\ \A k \in 1 .. Len(syms) : Hash[syms[k]] % (Len(syms) + 1) \in 0 .. Len(syms)
    BY BucketOf
  <1>2. /\ \A b \in 0 .. Len(syms) : LastBefore(buckets[b], Len(syms) + 1, b)
        /\ \A k \in 1 .. Len(syms) : k < Len(syms) + 1 => LastBefore(chain[k], k, Hash[syms[k]] % (Len(syms) + 1))
    BY DEF HashInv
  <1>3. \A k, l \in 1 .. Len(syms) : syms[k] = syms[l] => k = l
    BY SymsDistinct
  <1> DEFINE b0 == Hash[syms[t]] % (Len(syms) + 1)
  <1>4. b0 \in 0 .. Len(syms) /\ InBucket(t, b0)
    BY <1>1 DEF InBucket
  <1>5. /\ w[0] = buckets[b0]
        /\ \A k \in 1 .. Len(syms) : w[k] = IF w[k - 1] = 0 THEN 0
                                            ELSE IF syms[w[k - 1]] = syms[t] THEN w[k - 1] ELSE chain[w[k - 1]]
    <2>1. /\ 0 \in 0 .. Len(syms) /\ \A k \in 1 .. Len(syms) : k \in 0 .. Len(syms) /\ k # 0
      BY <1>1
    <2>2. \A k \in 0 .. Len(syms) : w[k] = IF k = 0 THEN buckets[b0]
             ELSE IF w[k - 1] = 0 THEN 0
             ELSE IF syms[w[k - 1]] = syms[t] THEN w[k - 1] ELSE chain[w[k - 1]]
      BY Zenon DEF Walks
    <2> QED BY <2>1, <2>2
  <1> HIDE DEF b0
  <1>6. ASSUME NEW p, NEW k \in Nat, LastBefore(p, k, b0), t < k
        PROVE  p = t \/ (p \in Nat /\ p > t /\ p < k /\ InBucket(p, b0))
    <2>1. p \in 0 .. k - 1 /\ (p # 0 => InBucket(p, b0)) /\ \A q \in p + 1 .. k - 1 : ~InBucket(q, b0)
      BY <1>6 DEF LastBefore
    <2>2. ~(p < t)
      <3> SUFFICES ASSUME p < t PROVE FALSE
        OBVIOUS
      <3>1. t \in p + 1 .. k - 1
        BY <2>1, <1>6, <1>1
      <3> QED BY <3>1, <2>1, <1>4
    <2>3. p = t \/ (p > t /\ p # 0 /\ p < k)
      BY <2>1, <2>2, <1>1, <1>6
    <2> QED BY <2>1, <2>3
  <1> DEFINE At(k) == w[k] = t \/ (w[k] \in Nat /\ w[k] > t /\ w[k] <= Len(syms) - k /\ InBucket(w[k], b0))
  <1> DEFINE S == {k \in Nat : k <= Len(syms) => At(k)}
  <1>7. 0 \in S
    <2>1. LastBefore(w[0], Len(syms) + 1, b0)
      BY <1>2, <1>4, <1>5
    <2>2. w[0] = t \/ (w[0] \in Nat /\ w[0] > t /\ w[0] < Len(syms) + 1 /\ InBucket(w[0], b0))
      BY <2>1, <1>6, <1>1
    <2>3. w[0] \in Nat /\ w[0] < Len(syms) + 1 => w[0] <= Len(syms) - 0
      BY <1>1
    <2> QED BY <2>2, <2>3
  <1>8. ASSUME NEW k \in Nat, k \in S PROVE k + 1 \in S
    <2> SUFFICES ASSUME k + 1 <= Len(syms) PROVE At(k + 1)
      OBVIOUS
    <2>1. k <= Len(syms) /\ k + 1 \in 1 .. Len(syms) /\ k + 1 - 1 = k
      BY <1>1
    <2>2. At(k)
      BY <2>1, <1>8
    <2>3. w[k + 1] = IF w[k] = 0 THEN 0 ELSE IF syms[w[k]] = syms[t] THEN w[k] ELSE chain[w[k]]
      BY <2>1, <1>5
    <2>4. CASE w[k] = t
      <3>1. w[k] # 0
        BY <2>4
      <3> QED BY <3>1, <2>3, <2>4
    <2>5. CASE w[k] \in Nat /\ w[k] > t /\ w[k] <= Len(syms) - k /\ InBucket(w[k], b0)
      <3>1. w[k] \in 1 .. Len(syms) /\ w[k] # 0 /\ w[k] # t
        BY <2>5, <1>1
      <3>2. syms[w[k]] # syms[t]
        BY <3>1, <1>3
      <3>3. w[k + 1] = chain[w[k]]
        BY <2>3, <3>1, <3>2
      <3>4. LastBefore(chain[w[k]], w[k], b0)
        <4>1. w[k] < Len(syms) + 1
          BY <3>1, <1>1
        <4> QED BY <4>1, <3>1, <1>2, <2>5 DEF InBucket
      <3>5. w[k + 1] = t \/ (w[k + 1] \in Nat /\ w[k + 1] > t /\ w[k + 1] < w[k] /\ InBucket(w[k + 1], b0))
        BY <3>3, <3>4, <2>5, <1>6
      <3>6. w[k + 1] \in Nat /\ w[k + 1] < w[k] => w[k + 1] <= Len(syms) - (k + 1)
        BY <2>5, <1>1
      <3> QED BY <3>5, <3>6
    <2> QED BY <2>2, <2>4, <2>5
  <1> HIDE DEF S
  <1>9. Len(syms) \in S
    BY <1>1, <1>7, <1>8, CountUp
  <1>10. At(Len(syms))
    BY <1>9, <1>1 DEF S
  <1>11. ~(w[Len(syms)] \in Nat /\ w[Len(syms)] > t /\ w[Len(syms)] <= Len(syms) - Len(syms))
    BY <1>1
  <1> QED BY <1>10, <1>11

(* Every symbol is found.                                                  *)
LEMMA HashFindsAll ==
  ASSUME GivenInv, ImportsInv, SymsInv, HashInv, OwnNames(Job)
  PROVE  HashFinds
  <1> SUFFICES ASSUME opt.so, pc \in {"finalize", "patch", "written", "relocate", "running"},
                      NEW k \in 1 .. Len(syms)
               PROVE  Lookup(syms[k]) = k
    BY DEF HashFinds
  <1>1. pc \in Emitted \ {"hash"} /\ pc \in Emitted
    BY DEF Emitted, Loading
  <1>2. Len(syms) \in Nat
    BY <1>1, BucketOf
  <1>3. PICK w : Walks(w, syms[k], Len(syms)) /\ Lookup(syms[k]) = w[Len(syms)]
    BY <1>2, LookupWalks
  <1> QED BY <1>1, <1>3, WalkFinds

-----------------------------------------------------------------------------
(* Loading.                                                                *)

(* The flags of the segments.                                              *)
LEMMA MapStep == GivenInv /\ MapInv /\ [Next]_vars => MapInv'
  <1> SUFFICES ASSUME GivenInv, MapInv, [Next]_vars, pc' \in {"written"} \cup Loading PROVE MapInv'
    BY DEF MapInv
  <1>1. img' = img
    BY ReadersWrite
  <1>2. CASE PatchAndWrite
    <2>1. wr' = Writable /\ imports' = imports /\ relocs' = relocs /\ base' = base
      BY <1>2 DEF PatchAndWrite
    <2>2. Writable' = Writable
      BY <2>1, <1>1 DEF Writable, Secs, IatSecs, SectionOf
    <2> QED BY <2>1, <2>2 DEF MapInv
  <1>3. CASE ~PatchAndWrite
    <2>1. /\ pc \in {"written"} \cup Loading /\ wr' = wr
          /\ imports' = imports /\ relocs' = relocs /\ base' = base
      BY <1>3 DEF Loading,
         Next, vars, LostDirectory, CollectImport, UnknownOrdinal, NextDescriptor, ImportsDone, AtEntry,
         CollectReloc, RelocsDone, CannotRebase, Rebase, Rebased, CollectTls, NameImport, BuildRela,
         BuildHash, HashDone, Finalize, CannotFinalize, Map, Relocate, Enter, Fail
    <2>2. Writable' = Writable
      BY <2>1, <1>1 DEF Writable, Secs, IatSecs, SectionOf
    <2> QED BY <2>1, <2>2 DEF MapInv
  <1> QED BY <1>2, <1>3

(* What memory holds depends on tables that are complete.                  *)
LEMMA MapsStay ==
  ASSUME img' = img, opt' = opt, base' = base, tls' = tls, buf' = buf
  PROVE  MappedVas' = MappedVas /\ Trampoline' = Trampoline /\ trampoline_va' = trampoline_va
         /\ \A a : Template(a)' = Template(a)
  <1>1. trampoline_va' = trampoline_va
    BY DEF trampoline_va
  <1>2. Trampoline' = Trampoline
    BY <1>1 DEF Trampoline
  <1>3. MappedVas' = MappedVas
    BY <1>2 DEF MappedVas, Mapped, Secs
  <1>4. \A a : Template(a)' = Template(a)
    BY <1>1, <1>2 DEF Template, InFile
  <1> QED BY <1>1, <1>2, <1>3, <1>4

(* One relocation is applied.                                              *)
LEMMA MemRelocate ==
  ASSUME GivenInv, RelaInv, MemInv, Relocate, pc' \in Loading, MappedVas' = MappedVas,
         \A a : Template(a)' = Template(a)
  PROVE  MemInv'
  <1> DEFINE r == rela[n]
  <1>1. /\ pc = "relocate" /\ n <= Len(rela) /\ n' = n + 1
        /\ pc' = IF r.off \notin WritableVas THEN "fault" ELSE IF ~Resolved(r) THEN "unresolved" ELSE pc
        /\ mem' = IF r.off \in WritableVas /\ Resolved(r)
            THEN [mem EXCEPT ![r.off] = IF r.type = "R_X86_64_64" THEN Exports[syms[r.sym]]
                                        ELSE bias + r.addend]
            ELSE mem
        /\ rela' = rela /\ syms' = syms /\ bias' = bias
    BY DEF Relocate
  <1>2. pc' = "relocate" /\ mem' = [mem EXCEPT ![r.off] = Relocated(r)]
    BY <1>1 DEF Loading, Relocated
  <1>3. pc \in Emitted /\ pc \in Loading
    BY <1>1 DEF Emitted, Loading
  <1>4. n \in Nat /\ n >= 1
    BY DEF GivenInv
  <1>5. rela \in Seq(Rela)
    BY <1>3 DEF RelaInv
  <1>6. Len(rela) \in Nat
    BY <1>5
  <1>7. n \in 1 .. Len(rela)
    BY <1>1, <1>4, <1>6
  <1>8. DOMAIN mem = MappedVas
        /\ \A a \in MappedVas :
             \/ Hits(a) = {} /\ mem[a] = Template(a)
             \/ \E k \in Hits(a) : (\A l \in Hits(a) : l <= k) /\ mem[a] = Relocated(rela[k])
    BY <1>3 DEF MemInv
  <1>9. \A k \in 1 .. Len(rela) : k < n + 1 <=> k < n \/ k = n
    BY <1>4
  <1>10. \A k : Relocated(rela[k])' = Relocated(rela[k])
    BY <1>1 DEF Relocated
  <1>11. ASSUME NEW a \in MappedVas
         PROVE  \/ Hits(a)' = {} /\ mem'[a] = Template(a)'
                \/ \E k \in Hits(a)' : (\A l \in Hits(a)' : l <= k) /\ mem'[a] = Relocated(rela[k])'
    <2>1. CASE r.off = a
      <3>1. mem'[a] = Relocated(r)
        BY <2>1, <1>2, <1>8
      <3>2. n \in Hits(a)'
        BY <2>1, <1>1, <1>4, <1>7, <1>9 DEF Hits
      <3>3. \A l \in Hits(a)' : l <= n
        <4> SUFFICES ASSUME NEW l \in Hits(a)' PROVE l <= n
          OBVIOUS
        <4>1. l \in 1 .. Len(rela) /\ l < n + 1
          BY <1>1 DEF Hits
        <4> QED BY <4>1, <1>4
      <3> QED BY <3>1, <3>2, <3>3, <1>10
    <2>2. CASE r.off # a
      <3>1. mem'[a] = mem[a]
        BY <2>2, <1>2, <1>8
      <3>2. Hits(a)' = Hits(a)
        BY <2>2, <1>1, <1>9 DEF Hits
      <3> QED BY <3>1, <3>2, <1>8, <1>10
    <2> QED BY <2>1, <2>2
  <1>12. DOMAIN mem' = MappedVas
    BY <1>2, <1>8
  <1> QED BY <1>2, <1>11, <1>12 DEF MemInv

(* Memory is as the relocations applied so far left it.                    *)
LEMMA MemStep == GivenInv /\ RelaInv /\ MemInv /\ [Next]_vars => MemInv'
  <1> SUFFICES ASSUME GivenInv, RelaInv, MemInv, [Next]_vars, pc' \in Loading PROVE MemInv'
    BY DEF MemInv
  <1>1. img' = img /\ opt' = opt
    BY ReadersWrite
  <1>2. base' = base /\ tls' = tls /\ buf' = buf /\ rela' = rela /\ syms' = syms /\ (Map \/ bias' = bias)
    BY DEF Loading,
       Next, vars, LostDirectory, CollectImport, UnknownOrdinal, NextDescriptor, ImportsDone, AtEntry,
       CollectReloc, RelocsDone, CannotRebase, Rebase, Rebased, CollectTls, NameImport, BuildRela,
       BuildHash, HashDone, Finalize, CannotFinalize, PatchAndWrite, Map, Relocate, Enter, Fail
  <1>3. MappedVas' = MappedVas /\ Trampoline' = Trampoline /\ trampoline_va' = trampoline_va
        /\ \A a : Template(a)' = Template(a)
    BY <1>1, <1>2, MapsStay
  <1>4. CASE Relocate
    BY <1>3, <1>4, MemRelocate
  <1>5. CASE Map
    <2>1. /\ pc' = "relocate" /\ n' = 1
          /\ mem' = [a \in MappedVas |-> Template(a)]
      BY <1>5 DEF Map, Template
    <2>2. \A a : Hits(a)' = {}
      <3>1. \A k \in 1 .. Len(rela') : ~(k < n')
        BY <2>1
      <3> QED BY <3>1 DEF Hits
    <2>3. DOMAIN mem' = MappedVas /\ \A a \in MappedVas : mem'[a] = Template(a)
      BY <2>1
    <2> QED BY <2>1, <2>2, <2>3, <1>3 DEF MemInv
  <1>6. CASE Enter
    <2>1. /\ pc = "relocate" /\ pc' = "running" /\ n' = n /\ mem' = mem /\ n > Len(rela) /\ bias' = bias
          /\ info' = [f \in DOMAIN NoInfo |-> mem[trampoline_va + InfoOff + InfoAt(f)]]
      BY <1>6 DEF Enter, InfoAt
    <2>2. /\ DOMAIN mem = MappedVas
          /\ \A a \in MappedVas :
             \/ Hits(a) = {} /\ mem[a] = Template(a)
             \/ \E k \in Hits(a) : (\A l \in Hits(a) : l <= k) /\ mem[a] = Relocated(rela[k])
      BY <2>1 DEF MemInv, Loading
    <2>3. \A a : Hits(a)' = Hits(a)
      BY <2>1, <1>2 DEF Hits
    <2>4. \A k : Relocated(rela[k])' = Relocated(rela[k])
      BY <2>1, <1>2 DEF Relocated
    <2>5. \A f \in DOMAIN TlsField : info'[f] = mem[trampoline_va + InfoOff + InfoAt(f)]
      BY <2>1, InfoAtIs
    <2>6. \A a \in MappedVas' :
             \/ Hits(a)' = {} /\ mem'[a] = Template(a)'
             \/ \E k \in Hits(a)' : (\A l \in Hits(a)' : l <= k) /\ mem'[a] = Relocated(rela[k])'
      BY <2>1, <2>2, <2>3, <2>4, <1>3
    <2>7. n' > Len(rela') /\ DOMAIN mem' = MappedVas'
      BY <2>1, <2>2, <1>2, <1>3
    <2>8. \A f \in DOMAIN TlsField : info'[f] = mem'[trampoline_va' + InfoOff + InfoAt(f)]
      BY <2>1, <2>5, <1>3
    <2> QED BY <2>6, <2>7, <2>8 DEF MemInv
  <1>7. CASE UNCHANGED vars
    <2>1. pc \in Loading /\ pc' = pc /\ n' = n /\ mem' = mem /\ info' = info /\ bias' = bias
      BY <1>7 DEF vars
    <2>2. /\ DOMAIN mem = MappedVas
          /\ \A a \in MappedVas :
             \/ Hits(a) = {} /\ mem[a] = Template(a)
             \/ \E k \in Hits(a) : (\A l \in Hits(a) : l <= k) /\ mem[a] = Relocated(rela[k])
          /\ pc = "running" => /\ n > Len(rela)
                       /\ \A f \in DOMAIN TlsField : info[f] = mem[trampoline_va + InfoOff + InfoAt(f)]
      BY <2>1 DEF MemInv
    <2>3. \A a : Hits(a)' = Hits(a)
      BY <2>1, <1>2 DEF Hits
    <2>4. \A k : Relocated(rela[k])' = Relocated(rela[k])
      BY <2>1, <1>2 DEF Relocated
    <2>5. \A a \in MappedVas' :
             \/ Hits(a)' = {} /\ mem'[a] = Template(a)'
             \/ \E k \in Hits(a)' : (\A l \in Hits(a)' : l <= k) /\ mem'[a] = Relocated(rela[k])'
      BY <2>1, <2>2, <2>3, <2>4, <1>3
    <2>6. DOMAIN mem' = MappedVas'
      BY <2>1, <2>2, <1>3
    <2>7. pc' = "running" => /\ n' > Len(rela')
                       /\ \A f \in DOMAIN TlsField : info'[f] = mem'[trampoline_va' + InfoOff + InfoAt(f)]
      BY <2>1, <2>2, <1>2, <1>3
    <2> QED BY <2>5, <2>6, <2>7 DEF MemInv
  <1>8. Relocate \/ Map \/ Enter \/ UNCHANGED vars
    BY DEF Loading,
       Next, LostDirectory, CollectImport, UnknownOrdinal, NextDescriptor, ImportsDone, AtEntry,
       CollectReloc, RelocsDone, CannotRebase, Rebase, Rebased, CollectTls, NameImport, BuildRela,
       BuildHash, HashDone, Finalize, CannotFinalize, PatchAndWrite, Fail
  <1> QED BY <1>4, <1>5, <1>6, <1>7, <1>8

-----------------------------------------------------------------------------
(* Where relocations point.                                                *)

(* The trampoline is below the image.                                      *)
LEMMA TrampolineBelow ==
  ASSUME base \in Nat, bias \in Int
  PROVE  /\ trampoline_va \in Int /\ trampoline_va + SlotOff \in Trampoline
         /\ \A f \in DOMAIN NoInfo : /\ trampoline_va + InfoOff + InfoAt(f) \in Trampoline
                                     /\ trampoline_va + InfoOff + InfoAt(f) # trampoline_va + SlotOff
                                     /\ Template(trampoline_va + InfoOff + InfoAt(f)) = tls[f]
         /\ \A rva \in Nat : base + rva \notin Trampoline
         /\ \A f, g \in DOMAIN NoInfo :
              trampoline_va + InfoOff + InfoAt(f) = trampoline_va + InfoOff + InfoAt(g) => f = g
  <1>1. Gap \in Nat /\ Gap >= 10
    BY LoaderAssumption DEF kTrampolineWords
  <1>2. trampoline_va \in Int /\ trampoline_va = base - Gap
    BY <1>1 DEF trampoline_va
  <1>3. Trampoline = trampoline_va .. trampoline_va + 10 - 1
    BY DEF Trampoline, kTrampolineWords
  <1>4. trampoline_va + SlotOff \in Trampoline
    BY <1>2, <1>3 DEF SlotOff
  <1>5. \A f \in DOMAIN NoInfo : InfoAt(f) \in 0 .. 5 /\ InfoFields[InfoAt(f) + 1] = f
    BY InfoAtIs
  <1>6. ASSUME NEW f \in DOMAIN NoInfo
        PROVE  /\ trampoline_va + InfoOff + InfoAt(f) \in Trampoline
               /\ trampoline_va + InfoOff + InfoAt(f) # trampoline_va + SlotOff
               /\ Template(trampoline_va + InfoOff + InfoAt(f)) = tls[f]
    <2>1. PICK k \in 0 .. 5 : k = InfoAt(f) /\ InfoFields[k + 1] = f
      BY <1>5
    <2>2. trampoline_va + InfoOff + k \in Trampoline /\ trampoline_va + InfoOff + k # trampoline_va + SlotOff
          /\ trampoline_va + InfoOff + k >= trampoline_va + InfoOff
          /\ trampoline_va + InfoOff + k - trampoline_va - InfoOff + 1 = k + 1
      BY <1>2, <1>3 DEF InfoOff, SlotOff
    <2>3. PICK a : a = trampoline_va + InfoOff + k
      OBVIOUS
    <2>4. a \in Trampoline /\ a >= trampoline_va + InfoOff /\ a - trampoline_va - InfoOff + 1 = k + 1
      <3>1. a \in Trampoline /\ a >= trampoline_va + InfoOff
        BY <2>2, <2>3
      <3>2. trampoline_va \in Int /\ InfoOff = 4 /\ k \in Int /\ a = trampoline_va + InfoOff + k
        BY <1>2, <2>3 DEF InfoOff
      <3>3. a - trampoline_va - InfoOff + 1 = k + 1
        BY <3>2
      <3> QED BY <3>1, <3>3
    <2>5. Template(a) = tls[InfoFields[k + 1]]
      BY <2>4 DEF Template
    <2> QED BY <2>1, <2>2, <2>3, <2>5
  <1>7. \A rva \in Nat : base + rva \notin Trampoline
    BY <1>1, <1>2, <1>3
  <1>8. ASSUME NEW f \in DOMAIN NoInfo, NEW g \in DOMAIN NoInfo,
               trampoline_va + InfoOff + InfoAt(f) = trampoline_va + InfoOff + InfoAt(g)
        PROVE  f = g
    <2>1. PICK k \in 0 .. 5 : k = InfoAt(f) /\ InfoFields[k + 1] = f
      BY <1>5
    <2>2. PICK l \in 0 .. 5 : l = InfoAt(g) /\ InfoFields[l + 1] = g
      BY <1>5
    <2>3. k = l
      BY <2>1, <2>2, <1>2, <1>8 DEF InfoOff
    <2> QED BY <2>1, <2>2, <2>3
  <1> QED BY <1>2, <1>4, <1>6, <1>7, <1>8

(* A relocation is of one of four kinds.                                   *)
LEMMA RelaKinds ==
  ASSUME GivenInv, ImportsInv, RelocsInv, TlsTypeInv, RelaInv, pc \in Loading, NEW k \in 1 .. Len(rela)
  PROVE  /\ base \in Nat /\ bias \in Int /\ base = LinkBase
         /\ \/ /\ k \in 1 .. Len(imports) /\ rela[k].off = base + imports[k].slot /\ imports[k].slot \in Nat
               /\ Relocated(rela[k]) = Exports[Symbol(imports[k])]
            \/ \E l \in 1 .. Len(relocs) : /\ k = Len(imports) + l /\ rela[k].off = relocs[l].va
                                           /\ Relocated(rela[k]) = bias + relocs[l].addend
            \/ k = slotRela /\ rela[k].off = trampoline_va + SlotOff
            \/ \E f \in DOMAIN TlsField : /\ opt.so /\ tls[f] # 0
                                          /\ rela[k].off = trampoline_va + InfoOff + InfoAt(f)
                                          /\ Relocated(rela[k]) = bias + tls[f]
  <1>1. pc \in Emitted /\ pc \in Finalized /\ pc \notin Reading \cup {"failed"}
        /\ pc \notin {"imports", "relocs", "rebase", "failed"}
    BY DEF Loading, Emitted, Finalized, Reading
  <1>2. bias \in Int /\ base = LinkBase
    BY <1>1 DEF GivenInv
  <1>3. /\ base \in Nat /\ Len(imports) \in Nat /\ Len(relocs) \in Nat
        /\ \A q \in 1 .. Len(imports) : imports[q].slot \in Nat
    BY <1>1, AddressTypes
  <1>4. Len(InfoVas) \in Nat
    BY InfoVasAre
  <1>5. /\ Len(rela) = Len(imports) + Len(relocs) + 1 + Len(InfoVas)
        /\ slotRela = Len(imports) + Len(relocs) + 1
    BY <1>1 DEF RelaInv
  <1>6. CASE k \in 1 .. Len(imports)
    <2>1. Binding(rela[k], base + imports[k].slot, Symbol(imports[k]))
      BY <1>1, <1>6 DEF RelaInv
    <2>2. rela[k].off = base + imports[k].slot /\ Relocated(rela[k]) = Exports[Symbol(imports[k])]
      BY <2>1 DEF Binding, Relocated
    <2> QED BY <2>2, <1>2, <1>3, <1>6
  <1>7. CASE \E l \in 1 .. Len(relocs) : k = Len(imports) + l
    <2>1. PICK l \in 1 .. Len(relocs) : k = Len(imports) + l
      BY <1>7
    <2>2. rela[k] = Relative(relocs[l].va, relocs[l].addend)
      BY <2>1, <1>1 DEF RelaInv
    <2>3. rela[k].off = relocs[l].va /\ rela[k].addend = relocs[l].addend /\ rela[k].type = "R_X86_64_RELATIVE"
      BY <2>2, Entry
    <2>4. Relocated(rela[k]) = bias + relocs[l].addend
      BY <2>3 DEF Relocated
    <2> QED BY <2>1, <2>3, <2>4, <1>2, <1>3
  <1>8. CASE k = slotRela
    <2>1. Binding(rela[slotRela], trampoline_va + SlotOff, ShimRegisterTls)
      BY <1>1 DEF RelaInv
    <2> QED BY <2>1, <1>2, <1>3, <1>8 DEF Binding
  <1>9. CASE \E l \in 1 .. Len(InfoVas) : k = slotRela + l
    <2>1. PICK l \in 1 .. Len(InfoVas) : k = slotRela + l
      BY <1>9
    <2>2. PICK f : f = InfoVas[l]
      OBVIOUS
    <2>3. f \in DOMAIN TlsField
      BY <2>2, <1>1, TlsTypes
    <2>4. opt.so /\ tls[f] # 0
      BY <2>2, <2>3, InfoVasAre DEF Has
    <2>5. rela[k] = Relative(trampoline_va + InfoOff + InfoAt(f), tls[f])
      BY <2>1, <2>2, <1>1 DEF RelaInv
    <2>6. rela[k].off = trampoline_va + InfoOff + InfoAt(f) /\ rela[k].addend = tls[f]
          /\ rela[k].type = "R_X86_64_RELATIVE"
      BY <2>5, Entry
    <2>7. Relocated(rela[k]) = bias + tls[f]
      BY <2>6 DEF Relocated
    <2> QED BY <2>3, <2>4, <2>6, <2>7, <1>2, <1>3
  <1>10. \/ k \in 1 .. Len(imports) \/ k = slotRela
         \/ \E l \in 1 .. Len(relocs) : k = Len(imports) + l
         \/ \E l \in 1 .. Len(InfoVas) : k = slotRela + l
    <2>1. CASE k > Len(imports) /\ k <= Len(imports) + Len(relocs)
      <3>1. k - Len(imports) \in 1 .. Len(relocs) /\ k = Len(imports) + (k - Len(imports))
        BY <2>1, <1>3
      <3> QED BY <3>1
    <2>2. CASE k > slotRela
      <3>1. k - slotRela \in 1 .. Len(InfoVas) /\ k = slotRela + (k - slotRela)
        BY <2>2, <1>3, <1>4, <1>5
      <3> QED BY <3>1
    <2>3. k \in 1 .. Len(imports) \/ k = slotRela \/ (k > Len(imports) /\ k <= Len(imports) + Len(relocs)) \/ k > slotRela
      BY <1>3, <1>4, <1>5
    <2> QED BY <2>1, <2>2, <2>3
  <1> QED BY <1>6, <1>7, <1>8, <1>9, <1>10

(* Relocations that are left to ld.so are those of pointers.               *)
LEMMA RelocsLeft ==
  ASSUME GivenInv, RelocsInv, pc \in Loading, NEW l \in 1 .. Len(relocs)
  PROVE  \E r \in Nat : /\ opt.base = 0 /\ base = img.base /\ Moves(img, r)
                        /\ relocs[l].va = base + r /\ relocs[l].addend = img.data[r] /\ img.data[r] \in Int
                        /\ relocs[l].va - base = r
  <1>1. pc \notin {"imports", "relocs", "rebase", "failed"}
    BY DEF Loading
  <1>2. opt.base = 0 /\ RelocsUpTo(Len(img.sites) + 1)
    <2>1. opt.base # 0 => relocs = <<>>
      BY <1>1 DEF RelocsInv
    <2>2. relocs # <<>>
      OBVIOUS
    <2> QED BY <2>1, <2>2, <1>1 DEF RelocsInv
  <1>3. base = img.base
    BY <1>1, <1>2 DEF GivenInv, LinkBase
  <1> QED BY <1>2, <1>3, RelocsCover

-----------------------------------------------------------------------------
(* No fault.                                                               *)

(* A relocation is where the loader may write.                             *)
LEMMA RelocationWritable ==
  ASSUME GivenInv, ImportsInv, RelocsInv, TlsTypeInv, RelaInv, MapInv, StripsInert(Job), pc \in Loading,
         NEW k \in 1 .. Len(rela)
  PROVE  rela[k].off \in WritableVas
  <1>1. base \in Nat /\ bias \in Int
    BY RelaKinds
  <1>2. wr = Writable
    BY DEF MapInv
  <1>3. ASSUME NEW s \in Secs, s \in Writable, NEW rva \in Rvas(img.secs[s]),
               BindsAt(img, rva) # {} \/ IsSite(img, rva)
        PROVE  base + rva \in WritableVas
    <2>1. s \in Mapped
      BY <1>3 DEF Mapped, Secs, StripsInert, Job
    <2> QED BY <2>1, <1>2, <1>3 DEF WritableVas
  <1>4. CASE k \in 1 .. Len(imports) /\ rela[k].off = base + imports[k].slot
    <2>1. PICK e \in Binds(img) : imports[k].slot = SlotOf(img, e)
      BY <1>4, ImportIs DEF Loading
    <2>2. SectionOf(imports[k].slot) # {} /\ BindsAt(img, imports[k].slot) # {}
      BY <2>1, BindsAre DEF BindsAt
    <2>3. PICK s \in Secs : imports[k].slot \in Rvas(img.secs[s]) /\ s \in SectionOf(imports[k].slot)
      BY <2>2 DEF SectionOf
    <2>4. s \in Writable
      BY <2>3, <1>4 DEF Writable, IatSecs
    <2> QED BY <2>2, <2>3, <2>4, <1>3, <1>4
  <1>5. CASE \E l \in 1 .. Len(relocs) : rela[k].off = relocs[l].va
    <2>1. PICK l \in 1 .. Len(relocs) : rela[k].off = relocs[l].va
      BY <1>5
    <2>2. PICK r \in Nat : Moves(img, r) /\ relocs[l].va = base + r /\ relocs[l].va - base = r
      BY RelocsLeft
    <2>3. IsSite(img, r) /\ HasData(img, r)
      BY <2>2 DEF Moves
    <2>4. PICK s \in Secs : r \in RawRvas(img.secs[s])
      BY <2>3 DEF HasData, Secs
    <2>5. img.secs[s] \in Section
      <3>1. img.secs \in Seq(Section)
        BY DEF GivenInv, IsImage
      <3> QED BY <3>1, ElementOfSeq, Zenon DEF Secs
    <2>6. r \in Rvas(img.secs[s])
      BY <2>4, <2>5, SectionRvas
    <2>7. s \in Writable
      BY <2>2, <2>6 DEF Writable
    <2> QED BY <2>1, <2>2, <2>3, <2>6, <2>7, <1>3
  <1>6. Trampoline \subseteq WritableVas
    BY DEF WritableVas
  <1>7. CASE rela[k].off = trampoline_va + SlotOff
    BY <1>1, <1>6, <1>7, TrampolineBelow
  <1>8. CASE \E f \in DOMAIN TlsField : rela[k].off = trampoline_va + InfoOff + InfoAt(f)
    BY <1>1, <1>6, <1>8, TrampolineBelow, InfoAtIs
  <1> QED BY <1>4, <1>5, <1>7, <1>8, RelaKinds

(* So none faults.                                                         *)
LEMMA FaultStep ==
  GivenInv /\ ImportsInv /\ RelocsInv /\ TlsTypeInv /\ RelaInv /\ MapInv /\ StripsInert(Job)
    /\ NeverFaults /\ [Next]_vars => NeverFaults'
  <1> SUFFICES ASSUME GivenInv, ImportsInv, RelocsInv, TlsTypeInv, RelaInv, MapInv, StripsInert(Job),
                      NeverFaults, [Next]_vars
               PROVE  NeverFaults'
    OBVIOUS
  <1>1. CASE Relocate
    <2>1. /\ pc = "relocate" /\ n <= Len(rela)
          /\ pc' = IF rela[n].off \notin WritableVas THEN "fault" ELSE IF ~Resolved(rela[n]) THEN "unresolved" ELSE pc
      BY <1>1 DEF Relocate
    <2>2. pc \in Loading /\ pc \in Emitted
      BY <2>1 DEF Loading, Emitted
    <2>3. n \in Nat /\ n >= 1
      BY DEF GivenInv
    <2>4. rela \in Seq(Rela)
      BY <2>2 DEF RelaInv
    <2>5. Len(rela) \in Nat
      BY <2>4
    <2>6. n \in 1 .. Len(rela)
      BY <2>1, <2>3, <2>5
    <2>7. rela[n].off \in WritableVas
      BY <2>2, <2>6, RelocationWritable
    <2> QED BY <2>1, <2>7 DEF NeverFaults
  <1>2. CASE ~Relocate
    BY <1>2 DEF NeverFaults,
       Next, vars, LostDirectory, CollectImport, UnknownOrdinal, NextDescriptor, ImportsDone, AtEntry,
       CollectReloc, RelocsDone, CannotRebase, Rebase, Rebased, CollectTls, NameImport, BuildRela,
       BuildHash, HashDone, Finalize, CannotFinalize, PatchAndWrite, Map, Enter, Fail
  <1> QED BY <1>1, <1>2

-----------------------------------------------------------------------------
(* What the program finds.                                                 *)

(* A word that is not a slot: what Windows would have put there.           *)
LEMMA ByWindowsUnbound ==
  ASSUME base \in Int, bias \in Int, img.base \in Int, NEW rva, BindsAt(img, rva) = {}
  PROVE  /\ rva \in DOMAIN img.data /\ IsSite(img, rva)
              => ByWindows(rva, base + bias) = img.data[rva] + (base + bias - img.base)
         /\ rva \in DOMAIN img.data /\ ~IsSite(img, rva) => ByWindows(rva, base + bias) = img.data[rva] + 0
         /\ rva \notin DOMAIN img.data /\ ~IsSite(img, rva) => ByWindows(rva, base + bias) = 0 + 0
  <1>1. PICK b : b = base + bias
    OBVIOUS
  <1> DEFINE at == IF rva \in DOMAIN img.data THEN img.data[rva] ELSE 0
  <1> DEFINE moved == IF IsSite(img, rva) THEN b - img.base ELSE 0
  <1>2. ByWindows(rva, b) = at + moved
    BY DEF ByWindows
  <1>3. rva \in DOMAIN img.data => at = img.data[rva]
    OBVIOUS
  <1>4. rva \notin DOMAIN img.data => at = 0
    OBVIOUS
  <1>5. IsSite(img, rva) => moved = b - img.base
    OBVIOUS
  <1>6. ~IsSite(img, rva) => moved = 0
    OBVIOUS
  <1> HIDE DEF at, moved
  <1>7. ByWindows(rva, base + bias) = at + moved
    BY <1>1, <1>2, Zenon
  <1>8. IsSite(img, rva) => moved = base + bias - img.base
    BY <1>1, <1>5
  <1> QED BY <1>3, <1>4, <1>6, <1>7, <1>8, Zenon

(* A word of a section that is mapped.                                     *)
LEMMA SectionWord ==
  ASSUME GivenInv, ImportsInv, FileInv, RelocsInv, TlsTypeInv, BufInv, RelaInv, MemInv, SitesSound(Job),
         pc = "running", NEW s \in Mapped, NEW rva \in Rvas(img.secs[s])
  PROVE  mem[base + rva] = ByWindows(rva, base + bias)
  <1> DEFINE a == base + rva
  <1>1. pc \in Loading /\ pc \in Emitted /\ pc \notin {"imports", "relocs", "rebase", "failed"}
    BY DEF Loading, Emitted
  <1>2. img.secs[s] \in Section /\ s \in Secs
    <2>1. img.secs \in Seq(Section)
      BY DEF GivenInv, IsImage
    <2>2. s \in Secs
      BY DEF Mapped
    <2> QED BY <2>1, <2>2, ElementOfSeq, Zenon DEF Secs
  <1>3. rva \in Nat /\ InSection(img, rva)
    BY <1>2, SectionRvas DEF InSection, Secs
  <1>4. base = LinkBase /\ bias \in Int /\ (bias # 0 => opt.pie \/ opt.so) /\ IsImage(img) /\ opt \in Option
    BY <1>1 DEF GivenInv
  <1>5. img.base \in Nat /\ opt.base \in Nat /\ base \in Nat
    BY <1>4 DEF IsImage, Option, LinkBase
  <1>6. a \in MappedVas /\ a \notin Trampoline /\ a - base = rva /\ a \in Int
    <2>1. a \in MappedVas
      BY DEF MappedVas
    <2>2. a - base = rva /\ a \in Int
      BY <1>3, <1>5
    <2>3. a \notin Trampoline
      BY <1>3, <1>4, <1>5, TrampolineBelow
    <2> QED BY <2>1, <2>2, <2>3
  <1>7. Len(rela) \in Nat /\ n \in Nat /\ \A k \in 1 .. Len(rela) : k < n
    <2>1. rela \in Seq(Rela) /\ n \in Nat
      BY <1>1 DEF RelaInv, GivenInv
    <2>2. Len(rela) \in Nat
      BY <2>1
    <2>3. n > Len(rela)
      BY <1>1 DEF MemInv
    <2> QED BY <2>1, <2>2, <2>3
  <1>8. IsSite(img, rva) => HasData(img, rva)
    BY <1>3 DEF IsSite, SitesSound, Job
  <1> DEFINE Imports(k) == /\ k \in 1 .. Len(imports) /\ imports[k].slot = rva
                           /\ Relocated(rela[k]) = Exports[Symbol(imports[k])]
  <1> DEFINE Pointer(k) == /\ k > Len(imports) /\ opt.base = 0 /\ base = img.base /\ Moves(img, rva)
                           /\ Relocated(rela[k]) = bias + img.data[rva] /\ img.data[rva] \in Int
  <1>9. ASSUME NEW k \in Hits(a) PROVE Imports(k) \/ Pointer(k)
    <2>1. k \in 1 .. Len(rela) /\ rela[k].off = a
      BY DEF Hits
    <2>2. CASE /\ k \in 1 .. Len(imports) /\ rela[k].off = base + imports[k].slot /\ imports[k].slot \in Nat
               /\ Relocated(rela[k]) = Exports[Symbol(imports[k])]
      <3>1. imports[k].slot = rva
        BY <2>1, <2>2, <1>3, <1>5
      <3> QED BY <3>1, <2>2
    <2>3. CASE \E l \in 1 .. Len(relocs) : /\ k = Len(imports) + l /\ rela[k].off = relocs[l].va
                                           /\ Relocated(rela[k]) = bias + relocs[l].addend
      <3>1. PICK l \in 1 .. Len(relocs) : /\ k = Len(imports) + l /\ rela[k].off = relocs[l].va
                                          /\ Relocated(rela[k]) = bias + relocs[l].addend
        BY <2>3
      <3>2. PICK r \in Nat : /\ opt.base = 0 /\ base = img.base /\ Moves(img, r)
                        /\ relocs[l].va = base + r /\ relocs[l].addend = img.data[r] /\ img.data[r] \in Int
        BY <1>1, RelocsLeft
      <3>3. r = rva
        BY <2>1, <3>1, <3>2, <1>3, <1>5
      <3>4. Len(imports) \in Nat
        BY <1>1 DEF ImportsInv
      <3>5. k > Len(imports)
        BY <3>1, <3>4
      <3> QED BY <3>1, <3>2, <3>3, <3>5
    <2>4. CASE rela[k].off = trampoline_va + SlotOff
      BY <2>1, <2>4, <1>4, <1>5, <1>6, TrampolineBelow
    <2>5. CASE \E f \in DOMAIN TlsField : rela[k].off = trampoline_va + InfoOff + InfoAt(f)
      BY <2>1, <2>5, <1>4, <1>5, <1>6, TrampolineBelow, InfoAtIs
    <2> QED BY <2>1, <2>2, <2>3, <2>4, <2>5, <1>1, RelaKinds
  <1>10. \/ Hits(a) = {} /\ mem[a] = Template(a)
         \/ \E k \in Hits(a) : (\A l \in Hits(a) : l <= k) /\ mem[a] = Relocated(rela[k])
    BY <1>1, <1>6 DEF MemInv
  <1>11. ASSUME NEW k \in 1 .. Len(imports), imports[k].slot = rva PROVE k \in Hits(a)
    <2>1. rela[k].off = a
      BY <1>1, <1>11 DEF RelaInv, Binding
    <2>2. Len(imports) \in Nat /\ Len(relocs) \in Nat /\ Len(InfoVas) \in Nat
      <3>1. relocs \in Seq([va : Int, addend : Int]) /\ Len(imports) \in Nat
        BY <1>1 DEF RelocsInv, ImportsInv
      <3>2. Len(relocs) \in Nat
        BY <3>1
      <3> QED BY <3>1, <3>2, InfoVasAre
    <2>3. Len(rela) = Len(imports) + Len(relocs) + 1 + Len(InfoVas)
      BY <1>1 DEF RelaInv
    <2>4. k \in 1 .. Len(rela)
      BY <2>2, <2>3
    <2> QED BY <2>1, <2>4, <1>7 DEF Hits
  <1>12. CASE BindsAt(img, rva) # {}
    <2>1. PICK q \in 1 .. Len(imports) : imports[q].slot = rva
      BY <1>1, <1>12, SlotsBound
    <2>2. PICK k \in Hits(a) : (\A l \in Hits(a) : l <= k) /\ mem[a] = Relocated(rela[k])
      BY <2>1, <1>10, <1>11
    <2>3. Imports(k)
      BY <1>9, <1>12 DEF Moves
    <2>4. \A l \in 1 .. Len(imports) : imports[l].slot = imports[k].slot => l <= k
      BY <2>2, <2>3, <1>11
    <2>5. Symbol(imports[k]) = SymbolOf(img, LastOf(BindsAt(img, imports[k].slot)))
      BY <2>3, <2>4, <1>1, LastImport
    <2> QED BY <2>2, <2>3, <2>5, <1>12 DEF ByWindows
  <1>13. CASE BindsAt(img, rva) = {}
    <2>1. \A k : ~Imports(k)
      BY <1>1, <1>13, SlotsBound
    <2>2. CASE Hits(a) # {}
      <3>1. PICK k \in Hits(a) : mem[a] = Relocated(rela[k])
        BY <2>2, <1>10
      <3>2. Pointer(k)
        BY <2>1, <1>9
      <3>3. IsSite(img, rva) /\ rva \in DOMAIN img.data
        BY <3>2 DEF Moves, HasData
      <3>4. ByWindows(rva, base + bias) = img.data[rva] + (base + bias - img.base)
        BY <3>3, <1>4, <1>5, <1>13, ByWindowsUnbound
      <3>5. bias + img.data[rva] = img.data[rva] + (base + bias - img.base)
        BY <3>2, <1>4, <1>5
      <3> QED BY <3>1, <3>2, <3>4, <3>5
    <2>3. CASE Hits(a) = {}
      <3>1. mem[a] = IF rva \in DOMAIN buf THEN buf[rva] ELSE 0
        BY <2>3, <1>6, <1>10 DEF Template, InFile
      <3>2. DOMAIN buf = DOMAIN img.data
        BY <1>1 DEF FileInv
      <3>3. /\ rva \in DOMAIN img.data /\ IsSite(img, rva)
                 => ByWindows(rva, base + bias) = img.data[rva] + (base + bias - img.base)
            /\ rva \in DOMAIN img.data /\ ~IsSite(img, rva) => ByWindows(rva, base + bias) = img.data[rva] + 0
            /\ rva \notin DOMAIN img.data /\ ~IsSite(img, rva) => ByWindows(rva, base + bias) = 0 + 0
        BY <1>4, <1>5, <1>13, ByWindowsUnbound
      <3>4. CASE rva \notin DOMAIN img.data
        <4>1. ~IsSite(img, rva)
          BY <3>4, <1>8 DEF HasData
        <4> QED BY <3>1, <3>2, <3>3, <3>4, <4>1
      <3>5. CASE rva \in DOMAIN img.data
        <4>1. buf[rva] = Word(rva)
          BY <1>1, <1>13, <3>2, <3>5 DEF BufInv
        <4>2. img.data[rva] \in Int
          BY <1>1, <3>2, <3>5, WordIs
        <4>3. CASE ~IsSite(img, rva)
          <5>1. Word(rva) = img.data[rva] + 0 /\ ByWindows(rva, base + bias) = img.data[rva] + 0
            BY <4>3, <3>3, <3>5 DEF Word, Moves
          <5> QED BY <5>1, <4>1, <3>1, <3>2, <3>5
        <4>4. CASE IsSite(img, rva)
          <5>1. Moves(img, rva)
            BY <4>4, <1>8, <1>13 DEF Moves
          <5>2. opt.base # 0
            <6> SUFFICES ASSUME opt.base = 0 PROVE FALSE
              OBVIOUS
            <6>1. RelocsUpTo(Len(img.sites) + 1) /\ base = img.base
              BY <1>1, <1>4 DEF RelocsInv, LinkBase
            <6>2. PICK l \in 1 .. Len(relocs) : relocs[l].va - img.base = rva
              BY <6>1, <5>1, RelocsCover
            <6>3. PICK r \in Nat : relocs[l].va = base + r /\ relocs[l].va - base = r
              BY <1>1, RelocsLeft
            <6>4. relocs[l].va = a
              BY <6>1, <6>2, <6>3
            <6>5. Len(imports) \in Nat /\ Len(relocs) \in Nat /\ Len(InfoVas) \in Nat
              <7>1. relocs \in Seq([va : Int, addend : Int]) /\ Len(imports) \in Nat
                BY <1>1 DEF RelocsInv, ImportsInv
              <7>2. Len(relocs) \in Nat
                BY <7>1
              <7> QED BY <7>1, <7>2, InfoVasAre
            <6>6. Len(rela) = Len(imports) + Len(relocs) + 1 + Len(InfoVas)
                  /\ rela[Len(imports) + l] = Relative(relocs[l].va, relocs[l].addend)
              BY <1>1 DEF RelaInv
            <6>7. Len(imports) + l \in 1 .. Len(rela)
              BY <6>5, <6>6
            <6>8. rela[Len(imports) + l].off = a
              BY <6>4, <6>6, Entry
            <6>9. Len(imports) + l \in Hits(a)
              BY <6>7, <6>8, <1>7 DEF Hits
            <6> QED BY <6>9, <2>3
          <5>3. ~opt.pie /\ ~opt.so
            BY <5>2 DEF SitesSound, Job
          <5>4. bias = 0
            BY <5>3, <1>4
          <5>5. Word(rva) = img.data[rva] + (base - img.base)
            BY <5>1, <1>4 DEF Word
          <5>6. ByWindows(rva, base + bias) = img.data[rva] + (base + 0 - img.base)
            BY <4>4, <3>3, <3>5, <5>4
          <5>7. base + 0 - img.base = base - img.base
            BY <1>5
          <5> QED BY <5>5, <5>6, <5>7, <4>1, <3>1, <3>2, <3>5
        <4> QED BY <4>3, <4>4
      <3> QED BY <3>4, <3>5
    <2> QED BY <2>2, <2>3
  <1> QED BY <1>12, <1>13

(* A field of ShimTlsInfo.                                                 *)
LEMMA InfoField ==
  ASSUME GivenInv, ImportsInv, FileInv, RelocsInv, TlsTypeInv, TlsInv, RelaInv, MemInv,
         SitesSound(Job), TlsSound(Job), pc = "running", img.tls # 0, NEW f \in DOMAIN TlsField
  PROVE  info[f] = ByWindows(img.tls + TlsField[f], base + bias)
  <1> DEFINE a == trampoline_va + InfoOff + InfoAt(f)
  <1> DEFINE w == img.tls + TlsField[f]
  <1>1. pc \in Loading /\ pc \in Emitted /\ pc \notin {"imports", "relocs", "rebase", "failed"}
        /\ pc \notin Reading \cup {"failed"} /\ pc \in Finalized
    BY DEF Loading, Emitted, Reading, Finalized
  <1>2. base = LinkBase /\ bias \in Int /\ (bias # 0 => opt.pie \/ opt.so) /\ IsImage(img) /\ opt \in Option
    BY <1>1 DEF GivenInv
  <1>3. img.base \in Nat /\ opt.base \in Nat /\ base \in Nat
    BY <1>2 DEF IsImage, Option, LinkBase
  <1>4. TlsField[f] \in {0, 2, 3} /\ f \in DOMAIN NoInfo
    <2>1. TlsField["template"] = 0 /\ TlsField["index"] = 2 /\ TlsField["callbacks"] = 3
          /\ DOMAIN TlsField = {"template", "index", "callbacks"}
      BY DEF TlsField
    <2> QED BY <2>1, InfoAtIs
  <1>5. /\ \A k \in 0 .. 4 : HasData(img, img.tls + k)
        /\ HasData(img, w) /\ BindsAt(img, w) = {} /\ (IsSite(img, w) <=> img.data[w] # 0)
        /\ (opt.pie => opt.so)
    <2>1. TlsField[f] \in 0 .. 4
      BY <1>4
    <2> QED BY <2>1, <1>4 DEF TlsSound, Job
  <1>6. w \in DOMAIN img.data
    BY <1>5 DEF HasData
  <1>7. img.data[w] \in Int
    BY <1>2, <1>6 DEF IsImage
  <1>8. tls[f] = Word(w)
    BY <1>1, <1>5 DEF TlsInv
  <1>9. info[f] = mem[a]
    BY <1>1 DEF MemInv
  <1>10. a \in MappedVas /\ Template(a) = tls[f]
    BY <1>2, <1>3, <1>4, TrampolineBelow DEF MappedVas
  <1>11. /\ IsSite(img, w) => ByWindows(w, base + bias) = img.data[w] + (base + bias - img.base)
         /\ ~IsSite(img, w) => ByWindows(w, base + bias) = img.data[w] + 0
    <2>1. PICK r : r = w
      OBVIOUS
    <2>2. /\ IsSite(img, r) => ByWindows(r, base + bias) = img.data[r] + (base + bias - img.base)
          /\ ~IsSite(img, r) => ByWindows(r, base + bias) = img.data[r] + 0
      BY <1>2, <1>3, <1>5, <1>6, <2>1, ByWindowsUnbound
    <2> QED BY <2>1, <2>2
  <1>12. Word(w) = img.data[w] + (IF IsSite(img, w) THEN base - img.base ELSE 0)
    BY <1>2, <1>5 DEF Word, Moves
  <1>13. ASSUME NEW k \in Hits(a) PROVE opt.so /\ tls[f] # 0 /\ Relocated(rela[k]) = bias + tls[f]
    <2>1. k \in 1 .. Len(rela) /\ rela[k].off = a
      BY DEF Hits
    <2>2. a \in Trampoline /\ a # trampoline_va + SlotOff /\ \A rva \in Nat : base + rva \notin Trampoline
      BY <1>2, <1>3, <1>4, TrampolineBelow
    <2>3. CASE rela[k].off = base + imports[k].slot /\ imports[k].slot \in Nat
      BY <2>1, <2>2, <2>3
    <2>4. CASE \E l \in 1 .. Len(relocs) : rela[k].off = relocs[l].va
      <3>1. PICK l \in 1 .. Len(relocs) : rela[k].off = relocs[l].va
        BY <2>4
      <3>2. PICK r \in Nat : relocs[l].va = base + r
        BY <1>1, RelocsLeft
      <3> QED BY <3>1, <3>2, <2>1, <2>2
    <2>5. CASE \E g \in DOMAIN TlsField : /\ opt.so /\ tls[g] # 0
                                          /\ rela[k].off = trampoline_va + InfoOff + InfoAt(g)
                                          /\ Relocated(rela[k]) = bias + tls[g]
      <3>1. PICK g \in DOMAIN TlsField : /\ opt.so /\ tls[g] # 0
                                         /\ rela[k].off = trampoline_va + InfoOff + InfoAt(g)
                                         /\ Relocated(rela[k]) = bias + tls[g]
        BY <2>5
      <3>2. g \in DOMAIN NoInfo
        BY InfoAtIs
      <3>3. g = f
        BY <3>1, <3>2, <2>1, <1>2, <1>3, <1>4, TrampolineBelow
      <3> QED BY <3>1, <3>3
    <2> QED BY <2>1, <2>2, <2>3, <2>4, <2>5, <1>1, RelaKinds
  <1>14. ASSUME opt.so, tls[f] # 0 PROVE Hits(a) # {}
    <2>1. Has(InfoVas, f)
      BY <1>14, InfoVasAre
    <2>2. PICK k \in 1 .. Len(InfoVas) : InfoVas[k] = f
      BY <2>1 DEF Has
    <2>3. rela[slotRela + k] = Relative(a, tls[f])
      BY <2>2, <1>1 DEF RelaInv
    <2>4. rela[slotRela + k].off = a
      BY <2>3, Entry
    <2>a. n \in Nat
      BY DEF GivenInv
    <2>b. relocs \in Seq([va : Int, addend : Int])
      BY <1>1 DEF RelocsInv
    <2>c. Len(imports) \in Nat
      BY <1>1 DEF ImportsInv
    <2>5. relocs \in Seq([va : Int, addend : Int]) /\ Len(imports) \in Nat /\ n \in Nat
      BY <2>a, <2>b, <2>c
    <2>6. Len(relocs) \in Nat
      BY <2>5
    <2>7. Len(rela) = Len(imports) + Len(relocs) + 1 + Len(InfoVas)
          /\ slotRela = Len(imports) + Len(relocs) + 1 /\ n > Len(rela)
      BY <1>1 DEF RelaInv, MemInv
    <2>8. Len(InfoVas) \in Nat
      BY InfoVasAre
    <2>9. slotRela + k \in 1 .. Len(rela) /\ slotRela + k < n
      BY <2>5, <2>6, <2>7, <2>8
    <2> QED BY <2>4, <2>9 DEF Hits
  <1>15. \/ Hits(a) = {} /\ mem[a] = Template(a)
         \/ \E k \in Hits(a) : mem[a] = Relocated(rela[k])
    BY <1>1, <1>10 DEF MemInv
  <1>16. opt.base # 0 => ~opt.pie /\ ~opt.so
    BY DEF SitesSound, Job
  <1>17. tls[f] \in Int
    BY <1>1, TlsTypes
  <1> HIDE DEF a, w
  <1>18. CASE Hits(a) # {}
    <2>1. opt.so /\ tls[f] # 0 /\ mem[a] = bias + tls[f]
      BY <1>13, <1>15, <1>18
    <2>2. IsSite(img, w)
      BY <2>1, <1>5, <1>7, <1>8, <1>12
    <2>3. tls[f] = img.data[w] + (base - img.base)
      BY <2>2, <1>8, <1>12
    <2>4. bias + (img.data[w] + (base - img.base)) = img.data[w] + (base + bias - img.base)
      BY <1>2, <1>3, <1>7
    <2> QED BY <2>1, <2>2, <2>3, <2>4, <1>9, <1>11 DEF w
  <1>19. CASE Hits(a) = {}
    <2>1. mem[a] = tls[f]
      BY <1>10, <1>15, <1>19
    <2>2. ~opt.so \/ tls[f] = 0
      BY <1>14, <1>19
    <2>3. CASE ~IsSite(img, w)
      BY <2>1, <2>3, <1>8, <1>9, <1>11, <1>12 DEF w
    <2>4. CASE IsSite(img, w) /\ ~opt.so
      <3>1. bias = 0
        BY <2>4, <1>2, <1>5
      <3>2. base + bias - img.base = base - img.base
        BY <3>1, <1>3
      <3> QED BY <2>1, <2>4, <3>2, <1>8, <1>9, <1>11, <1>12 DEF w
    <2>5. CASE IsSite(img, w) /\ opt.so
      <3>1. opt.base = 0
        BY <2>5, <1>16
      <3>2. base = img.base
        BY <3>1, <1>2 DEF LinkBase
      <3>3. tls[f] = img.data[w] + (base - img.base) /\ img.data[w] # 0
        BY <2>5, <1>5, <1>8, <1>12
      <3>4. tls[f] # 0
        BY <3>2, <3>3, <1>3, <1>7
      <3> QED BY <3>4, <2>2, <2>5
    <2> QED BY <2>3, <2>4, <2>5
  <1> QED BY <1>18, <1>19 DEF w

-----------------------------------------------------------------------------
(* The theorems.                                                           *)

(* The tables, at every stage.                                             *)
TablesInv == /\ GivenInv /\ ImportsInv /\ FileInv /\ RelocsInv /\ TlsTypeInv
             /\ SymsInv /\ RelaInv /\ HashInv /\ MapInv /\ MemInv

(* Nothing is read yet.                                                    *)
LEMMA ReadingInit == Init => ImportsInv /\ FileInv /\ RelocsInv
  <1> SUFFICES ASSUME Init PROVE ImportsInv /\ FileInv /\ RelocsInv
    OBVIOUS
  <1>1. /\ pc = "imports" /\ n = 1 /\ m = 1 /\ imports = <<>> /\ relocs = <<>> /\ buf = img.data
    BY DEF Init
  <1>2. IsImage(img)
    BY GivenInit DEF GivenInv
  <1>3. FileInv
    BY <1>1, <1>2 DEF FileInv, IsImage
  <1>4. RelocsInv
    BY <1>1 DEF RelocsInv
  <1>5. ImportsInv
    <2> DEFINE g == [k \in 1 .. Len(imports) |-> <<>>]
    <2>1. Len(imports) = 0 /\ 1 .. Len(imports) = {}
      BY <1>1
    <2>2. g \in [1 .. Len(imports) -> Binds(img)]
      BY <2>1
    <2>3. \A e \in Binds(img) : ~Read(pc, n, m, e)
      <3> SUFFICES ASSUME NEW e \in Binds(img), Read(pc, n, m, e) PROVE FALSE
        OBVIOUS
      <3>1. e \in Entries(img)
        BY BindsAre
      <3>2. img.descs \in Seq(Descriptor)
        BY <1>2 DEF IsImage
      <3>3. e[1] \in 1 .. Len(img.descs) /\ e[2] \in 1 .. Len(img.descs[e[1]].entries)
        BY <3>1, <1>2, EntriesAre
      <3>4. e[1] < 1 \/ (e[1] = 1 /\ e[2] < 1)
        BY <1>1 DEF Read
      <3>5. e[1] >= 1 /\ e[1] \in Int /\ e[2] >= 1 /\ e[2] \in Int
        BY <3>3
      <3> QED BY <3>4, <3>5
    <2>4. imports \in Seq({ImportOf(img, e) : e \in Binds(img)})
      BY <1>1
    <2> HIDE DEF g
    <2> QED BY <2>1, <2>2, <2>3, <2>4 DEF ImportsInv
  <1> QED BY <1>3, <1>4, <1>5

(* Nothing is built yet.                                                   *)
LEMMA TablesInit == Init => TablesInv /\ BufInv /\ TlsInv
  <1> SUFFICES ASSUME Init PROVE TablesInv /\ BufInv /\ TlsInv
    OBVIOUS
  <1>1. pc = "imports" /\ syms = <<>>
    BY DEF Init
  <1>2. pc \in Reading /\ pc \notin Emitted /\ pc \notin Loading /\ pc \notin {"written"} \cup Loading
    BY <1>1 DEF Reading, Emitted, Loading
  <1>3. TlsTypeInv /\ TlsInv
    BY <1>2 DEF TlsTypeInv, TlsInv
  <1>4. SymsInv /\ RelaInv /\ HashInv
    BY <1>1, <1>2 DEF SymsInv, RelaInv, HashInv
  <1>5. MapInv /\ MemInv
    BY <1>2 DEF MapInv, MemInv
  <1>6. BufInv
    BY <1>1 DEF BufInv
  <1> QED BY <1>3, <1>4, <1>5, <1>6, GivenInit, ReadingInit DEF TablesInv

(* A step of the converter, or of the loader.                              *)
LEMMA TablesStep == TablesInv /\ [Next]_vars => TablesInv'
  <1> SUFFICES ASSUME TablesInv, [Next]_vars PROVE TablesInv'
    OBVIOUS
  <1>1. /\ GivenInv /\ ImportsInv /\ FileInv /\ RelocsInv /\ TlsTypeInv
        /\ SymsInv /\ RelaInv /\ HashInv /\ MapInv /\ MemInv
    BY DEF TablesInv
  <1>2. GivenInv' /\ ImportsInv' /\ FileInv' /\ RelocsInv' /\ TlsTypeInv'
    BY <1>1, GivenStep, ImportsStep, FileStep, RelocsStep, TlsTypeStep
  <1>3. SymsInv' /\ RelaInv' /\ HashInv' /\ MapInv' /\ MemInv'
    BY <1>1, SymsStep, RelaStep, HashStep, MapStep, MemStep
  <1> QED BY <1>2, <1>3 DEF TablesInv

(* The job is one of Jobs, and stays the same.                             *)
LEMMA JobGiven ==
  /\ Init /\ (\A j \in Jobs : StripsInert(j)) => StripsInert(Job)
  /\ Init /\ (\A j \in Jobs : OwnNames(j)) => OwnNames(Job)
  /\ Init /\ (\A j \in Jobs : SitesSound(j)) => SitesSound(Job)
  /\ Init /\ (\A j \in Jobs : TlsSound(j)) => TlsSound(Job)
  <1> SUFFICES ASSUME Init
               PROVE  /\ (\A j \in Jobs : StripsInert(j)) => StripsInert(Job)
                      /\ (\A j \in Jobs : OwnNames(j)) => OwnNames(Job)
                      /\ (\A j \in Jobs : SitesSound(j)) => SitesSound(Job)
                      /\ (\A j \in Jobs : TlsSound(j)) => TlsSound(Job)
    OBVIOUS
  <1>1. PICK j \in Jobs : img = j.img /\ opt = j.opt
    BY DEF Init
  <1>2. Job.img = j.img /\ Job.opt = j.opt
    BY <1>1 DEF Job
  <1>3. StripsInert(j) => StripsInert(Job)
    BY <1>2 DEF StripsInert
  <1>4. OwnNames(j) => OwnNames(Job)
    BY <1>2 DEF OwnNames
  <1>5. SitesSound(j) => SitesSound(Job)
    BY <1>2 DEF SitesSound
  <1>6. TlsSound(j) => TlsSound(Job)
    BY <1>2 DEF TlsSound
  <1> QED BY <1>3, <1>4, <1>5, <1>6

(* So a condition on it stays true.                                        *)
LEMMA JobStays ==
  [Next]_vars => /\ StripsInert(Job)' <=> StripsInert(Job)
                 /\ OwnNames(Job)' <=> OwnNames(Job)
                 /\ SitesSound(Job)' <=> SitesSound(Job)
                 /\ TlsSound(Job)' <=> TlsSound(Job)
  <1> SUFFICES ASSUME [Next]_vars
               PROVE  /\ StripsInert(Job)' <=> StripsInert(Job)
                      /\ OwnNames(Job)' <=> OwnNames(Job)
                      /\ SitesSound(Job)' <=> SitesSound(Job)
                      /\ TlsSound(Job)' <=> TlsSound(Job)
    OBVIOUS
  <1>1. Job' = Job
    BY ReadersWrite DEF Job
  <1> QED BY <1>1

(* elf_build.hpp's PF_W covers every word ld.so has to relocate: it never  *)
(* faults, if nothing it relocates was in an exception table that          *)
(* --strip-pdata left out.                                                 *)
THEOREM NeverFaultsHolds == (\A j \in Jobs : StripsInert(j)) /\ Spec => []NeverFaults
  <1> SUFFICES ASSUME \A j \in Jobs : StripsInert(j) PROVE Spec => []NeverFaults
    OBVIOUS
  <1>1. Init => TablesInv /\ StripsInert(Job) /\ NeverFaults
    <2>1. Init => NeverFaults
      BY DEF Init, NeverFaults
    <2> QED BY <2>1, TablesInit, JobGiven
  <1>2. TablesInv /\ StripsInert(Job) /\ NeverFaults /\ [Next]_vars
          => (TablesInv /\ StripsInert(Job) /\ NeverFaults)'
    BY TablesStep, JobStays, FaultStep DEF TablesInv
  <1> QED BY <1>1, <1>2, PTL DEF Spec

(* Builder::build_hash: a lookup of any symbol of the table ends at it, so *)
(* that dlsym finds the entry point, if no import has the name of one of   *)
(* the converter's own two symbols.                                        *)
THEOREM HashFindsHolds == (\A j \in Jobs : OwnNames(j)) /\ Spec => []HashFinds
  <1> SUFFICES ASSUME \A j \in Jobs : OwnNames(j) PROVE Spec => []HashFinds
    OBVIOUS
  <1>1. Init => TablesInv /\ OwnNames(Job)
    BY TablesInit, JobGiven
  <1>2. TablesInv /\ OwnNames(Job) /\ [Next]_vars => (TablesInv /\ OwnNames(Job))'
    BY TablesStep, JobStays
  <1>3. TablesInv /\ OwnNames(Job) => HashFinds
    BY HashFindsAll DEF TablesInv
  <1> QED BY <1>1, <1>2, <1>3, PTL DEF Spec

(* The buffer, and the TLS fields read from it.                            *)
LEMMA WordsStep ==
  TablesInv /\ BufInv /\ TlsInv /\ SitesSound(Job) /\ [Next]_vars
    => (TablesInv /\ BufInv /\ TlsInv /\ SitesSound(Job))'
  BY TablesStep, BufStep, TlsStep, JobStays DEF TablesInv

(* Whether rebase relocated the image, or ld.so does, or nothing needs to, *)
(* the running program finds every word of its sections as Windows would   *)
(* have loaded it, if the pointers to relocate are in the file.            *)
THEOREM LoadedLikeWindowsHolds == (\A j \in Jobs : SitesSound(j)) /\ Spec => []LoadedLikeWindows
  <1> SUFFICES ASSUME \A j \in Jobs : SitesSound(j) PROVE Spec => []LoadedLikeWindows
    OBVIOUS
  <1>1. Init => TablesInv /\ BufInv /\ TlsInv /\ SitesSound(Job)
    BY TablesInit, JobGiven
  <1>2. TablesInv /\ BufInv /\ TlsInv /\ SitesSound(Job) => LoadedLikeWindows
    BY SectionWord DEF TablesInv, LoadedLikeWindows
  <1> QED BY <1>1, <1>2, WordsStep, PTL DEF Spec

(* The addresses shim_register_tls is given are those Windows would have   *)
(* had in the TLS directory, where the image really is.                    *)
THEOREM TlsInfoFinalHolds == (\A j \in Jobs : SitesSound(j) /\ TlsSound(j)) /\ Spec => []TlsInfoFinal
  <1> SUFFICES ASSUME \A j \in Jobs : SitesSound(j) /\ TlsSound(j) PROVE Spec => []TlsInfoFinal
    OBVIOUS
  <1>1. Init => TablesInv /\ BufInv /\ TlsInv /\ SitesSound(Job) /\ TlsSound(Job)
    BY TablesInit, JobGiven
  <1>2. TablesInv /\ BufInv /\ TlsInv /\ SitesSound(Job) /\ TlsSound(Job) /\ [Next]_vars
          => (TablesInv /\ BufInv /\ TlsInv /\ SitesSound(Job) /\ TlsSound(Job))'
    BY WordsStep, JobStays
  <1>3. TablesInv /\ BufInv /\ TlsInv /\ SitesSound(Job) /\ TlsSound(Job) => TlsInfoFinal
    <2> SUFFICES ASSUME TablesInv, TlsInv, SitesSound(Job), TlsSound(Job), pc = "running", img.tls # 0,
                        NEW f \in {"template", "index", "callbacks"}
                 PROVE  info[f] = ByWindows(img.tls + TlsField[f], base + bias)
      BY DEF TlsInfoFinal
    <2>1. f \in DOMAIN TlsField
      BY DEF TlsField
    <2> QED BY <2>1, InfoField DEF TablesInv
  <1> QED BY <1>1, <1>2, <1>3, PTL DEF Spec
=============================================================================
