--------------------------- MODULE ElfLayoutProofs ---------------------------
(***************************************************************************)
(* Proofs about ElfLayout, for every number of sections and every size of  *)
(* the tables: whatever the input, each part of the file is written where  *)
(* the plan says; for an image on page boundaries every segment can be     *)
(* mapped; and for an image of up to 86 sections that do not overlap and   *)
(* leave room for the synthetic segment, no two segments share a page.     *)
(***************************************************************************)
EXTENDS ElfLayout, TLAPS

-----------------------------------------------------------------------------
(* Rounding up. *)

(* To a multiple of eight ... *)
LEMMA Align8 ==
  ASSUME NEW v \in Nat
  PROVE  align_up(v, 8) \in Nat /\ v <= align_up(v, 8)
  BY DEF align_up

(* ... which changes nothing when the number is one ... *)
LEMMA Align8Exact ==
  ASSUME NEW v \in Nat
  PROVE  align_up(8 * v, 8) = 8 * v
  BY DEF align_up

(* ... and to a page. *)
LEMMA AlignPage ==
  ASSUME NEW v \in Nat
  PROVE  /\ align_up(v, kPageSize) \in Nat /\ v <= align_up(v, kPageSize)
         /\ align_up(v, kPageSize) % kPageSize = 0
  BY DEF align_up, kPageSize

-----------------------------------------------------------------------------
(* What compute_plan decides before it places the sections. *)

Fields == Parts \cup {"synth_va", "end", "pe_data"}

\* The sizes that compute_plan is given are what the input type says.
Sized(x) == /\ x.base \in Nat /\ x.hdr \in Nat /\ x.interp \in Nat /\ x.dynstr \in Nat
            /\ x.hash \in Nat /\ x.dynsym \in Nat /\ x.rela \in Nat /\ x.dynamic \in Nat
            /\ x.shstrtab \in Nat /\ NSecs(x) \in Nat
            /\ \A s \in 1 .. NSecs(x) : /\ x.secs[s].va \in Nat /\ x.secs[s].virtsz \in Nat
                                        /\ x.secs[s].rawsz \in Nat

(* An input is of that type. *)
LEMMA InputSized ==
  ASSUME NEW x \in Inputs
  PROVE  Sized(x)
  <1>1. x \in Input
    BY InputsAssumption
  <1>2. x.secs \in Seq(Section)
    BY <1>1 DEF Input
  <1>3. NSecs(x) \in Nat /\ \A s \in 1 .. NSecs(x) : x.secs[s] \in Section
    BY <1>2 DEF NSecs
  <1>4. \A r \in Section : r.va \in Nat /\ r.virtsz \in Nat /\ r.rawsz \in Nat
    BY DEF Section
  <1>5. /\ x.base \in Nat /\ x.hdr \in Nat /\ x.interp \in Nat /\ x.dynstr \in Nat
        /\ x.hash \in Nat /\ x.dynsym \in Nat /\ x.rela \in Nat /\ x.dynamic \in Nat
        /\ x.shstrtab \in Nat
    BY <1>1 DEF Input
  <1> QED BY <1>3, <1>4, <1>5 DEF Sized

\* The blobs follow each other behind room for all program headers.
BlobsFit(x, p) ==
  /\ p.interp \in Nat /\ p.dynsym \in Nat /\ p.dynstr \in Nat /\ p.hash \in Nat
  /\ p.rela \in Nat /\ p.dynamic \in Nat /\ p.trampoline \in Nat /\ p.end \in Nat /\ p.pe_data \in Nat
  /\ EhdrSize + PhdrsReserved(x) * PhdrSize <= p.interp
  /\ p.interp + x.interp <= p.dynsym
  /\ p.dynsym + x.dynsym * SymSize <= p.dynstr
  /\ p.dynstr + x.dynstr <= p.hash
  /\ p.hash + x.hash <= p.rela
  /\ p.rela + x.rela * RelaSize <= p.dynamic
  /\ p.dynamic + x.dynamic * DynSize <= p.trampoline
  /\ p.end = p.trampoline + kTrampolineSize
  /\ p.end <= p.pe_data /\ p.pe_data % kPageSize = 0
  /\ p.synth_va = SynthVa(x) /\ p.end = Plan(x).end

(* compute_plan leaves every blob the room it needs. *)
LEMMA PlanFits ==
  ASSUME NEW x, Sized(x)
  PROVE  BlobsFit(x, Plan(x))
  <1> DEFINE p == Plan(x)
             a1 == align_up(x.interp, 8)
             a2 == align_up(x.dynsym * SymSize, 8)
             a3 == align_up(x.dynstr, 8)
             a4 == align_up(x.hash, 8)
             a5 == align_up(x.rela * RelaSize, 8)
             a6 == align_up(x.dynamic * DynSize, 8)
             h == EhdrSize + PhdrsReserved(x) * PhdrSize
  <1>0. /\ SymSize = 24 /\ RelaSize = 24 /\ DynSize = 16 /\ EhdrSize = 64 /\ PhdrSize = 56
        /\ kTrampolineSize = 80
    BY DEF SymSize, RelaSize, DynSize, EhdrSize, PhdrSize, kTrampolineSize
  <1>1. /\ x.dynsym * SymSize \in Nat /\ x.rela * RelaSize \in Nat /\ x.dynamic * DynSize \in Nat
        /\ h \in Nat
    BY <1>0 DEF Sized, PhdrsReserved
  <1>2. /\ a1 \in Nat /\ x.interp <= a1
        /\ a2 \in Nat /\ x.dynsym * SymSize <= a2
        /\ a3 \in Nat /\ x.dynstr <= a3
        /\ a4 \in Nat /\ x.hash <= a4
        /\ a5 \in Nat /\ x.rela * RelaSize <= a5
        /\ a6 \in Nat /\ x.dynamic * DynSize <= a6
        /\ HdrFileEnd(x) \in Nat /\ h <= HdrFileEnd(x)
    BY <1>1, Align8 DEF Sized, HdrFileEnd
  <1>3. /\ p.interp = HdrFileEnd(x) /\ p.dynsym = p.interp + a1 /\ p.dynstr = p.dynsym + a2
        /\ p.hash = p.dynstr + a3 /\ p.rela = p.hash + a4 /\ p.dynamic = p.rela + a5
        /\ p.trampoline = p.dynamic + a6 /\ p.end = p.trampoline + kTrampolineSize
        /\ p.pe_data = align_up(p.end, kPageSize) /\ p.synth_va = SynthVa(x)
    BY DEF Plan
  <1> HIDE DEF p, a1, a2, a3, a4, a5, a6, h
  <1>4. /\ p.interp \in Nat /\ p.dynsym \in Nat /\ p.dynstr \in Nat /\ p.hash \in Nat
        /\ p.rela \in Nat /\ p.dynamic \in Nat /\ p.trampoline \in Nat /\ p.end \in Nat
    BY <1>0, <1>2, <1>3
  <1>5. p.pe_data \in Nat /\ p.end <= p.pe_data /\ p.pe_data % kPageSize = 0
    BY <1>3, <1>4, AlignPage
  <1>6. /\ h <= p.interp
        /\ p.interp + x.interp <= p.dynsym
        /\ p.dynsym + x.dynsym * SymSize <= p.dynstr
        /\ p.dynstr + x.dynstr <= p.hash
        /\ p.hash + x.hash <= p.rela
        /\ p.rela + x.rela * RelaSize <= p.dynamic
        /\ p.dynamic + x.dynamic * DynSize <= p.trampoline
    BY <1>1, <1>2, <1>3, <1>4 DEF Sized
  <1> QED BY <1>3, <1>4, <1>5, <1>6 DEF BlobsFit, p, h

(* The plan has a place for every part. *)
LEMMA PlanFields ==
  ASSUME NEW x
  PROVE  DOMAIN Plan(x) = Fields /\ Plan(x) = [f \in Fields |-> Plan(x)[f]]
  BY DEF Plan, Fields, Parts

(* The address of the synthetic segment is on a page boundary, whether it  *)
(* was found below the image or is the fallback.                           *)
LEMMA SynthOnPage ==
  ASSUME NEW x, Sized(x)
  PROVE  Needed(x) \in Nat /\ SynthVa(x) \in Nat /\ SynthVa(x) % kPageSize = 0
  <1> DEFINE n == align_up(x.interp, 8) + align_up(x.dynsym * SymSize, 8) + align_up(x.dynstr, 8)
                  + align_up(x.hash, 8) + align_up(x.rela * RelaSize, 8) + align_up(x.dynamic * DynSize, 8)
                  + kTrampolineSize + EhdrSize + kPhdrsMaxCount * PhdrSize
  <1>1. /\ x.dynsym * SymSize \in Nat /\ x.rela * RelaSize \in Nat /\ x.dynamic * DynSize \in Nat
        /\ kTrampolineSize + EhdrSize + kPhdrsMaxCount * PhdrSize \in Nat
    BY DEF Sized, SymSize, RelaSize, DynSize, kTrampolineSize, EhdrSize, kPhdrsMaxCount, PhdrSize
  <1>2. /\ align_up(x.interp, 8) \in Nat /\ align_up(x.dynsym * SymSize, 8) \in Nat
        /\ align_up(x.dynstr, 8) \in Nat /\ align_up(x.hash, 8) \in Nat
        /\ align_up(x.rela * RelaSize, 8) \in Nat /\ align_up(x.dynamic * DynSize, 8) \in Nat
    BY <1>1, Align8 DEF Sized
  <1>3. n \in Nat
    <2>1. /\ kTrampolineSize \in Nat /\ EhdrSize \in Nat /\ kPhdrsMaxCount * PhdrSize \in Nat
      BY DEF kTrampolineSize, EhdrSize, kPhdrsMaxCount, PhdrSize
    <2> QED BY <1>2, <2>1
  <1>4. Needed(x) = align_up(n, kPageSize)
    BY DEF Needed
  <1> HIDE DEF n
  <1>5. Needed(x) \in Nat
    BY <1>3, <1>4, AlignPage
  <1> QED BY <1>5 DEF SynthVa, Sized, kSynthMargin, kSynthFallbackVa, kPageSize

-----------------------------------------------------------------------------
(* The inductive invariant. *)

Stages == {"plan", "place", "phdrs", "loads", "header", "blobs", "sections", "shstrtab", "shdrs", "done"}
Written == {"shstrtab", "shdrs", "done"}
Writing == Written \cup {"blobs", "sections"}

PhdrRecs == [type : {"PT_PHDR", "PT_INTERP", "PT_LOAD", "PT_DYNAMIC", "PT_GNU_RELRO", "PT_GNU_STACK"},
             off : Int, va : Int, filesz : Int, memsz : Int]

LayoutType ==
  /\ in \in Inputs /\ pc \in Stages
  /\ i \in Nat \ {0} /\ sec_cur \in Nat /\ out \in Nat
  /\ foff \in [1 .. NSecs(in) -> Nat]
  /\ secAt \in [1 .. NSecs(in) -> Int]
  /\ at \in [Parts -> Int]
  /\ phdrs \in Seq(PhdrRecs)
  /\ pc \in {"place", "loads", "sections"} => i <= NSecs(in) + 1
  /\ pc = "blobs" => i <= 7
  /\ pc \in {"plan", "phdrs", "header"} => i = 1

\* The sections that have a file offset.
NPlaced == IF pc = "place" THEN i - 1 ELSE NSecs(in)

EndOf(s) == foff[s] + in.secs[s].rawsz

\* They are behind the blobs, one after the other, on page boundaries.
SectionsInv ==
  pc # "plan" =>
    /\ plan.pe_data <= sec_cur /\ sec_cur % kPageSize = 0
    /\ \A s \in 1 .. NPlaced : /\ plan.pe_data <= foff[s] /\ foff[s] % kPageSize = 0
                               /\ EndOf(s) <= sec_cur
                               /\ s > 1 => EndOf(s - 1) <= foff[s]

PlanInv ==
  pc # "plan" => BlobsFit(in, plan) /\ plan.synth_va \in Nat /\ DOMAIN plan = Fields

\* The PE headers, the names of the sections and the section headers follow.
HeadersInv ==
  pc \notin {"plan", "place"} =>
    /\ plan.pe_hdr = sec_cur
    /\ plan.shstrtab \in Nat /\ sec_cur + in.hdr <= plan.shstrtab
    /\ plan.shdrs \in Nat /\ (in.keep_shdr => plan.shstrtab + in.shstrtab <= plan.shdrs)

\* The segments, and how many program headers there are.
IsSynth(p) == p.off = 0 /\ p.va = plan.synth_va /\ p.filesz = plan.end /\ p.memsz = plan.end
IsHdr(p) == p.off = plan.pe_hdr /\ p.va = in.base /\ p.filesz = in.hdr /\ p.memsz = align_up(in.hdr, kPageSize)
IsSec(p, s) == /\ p.off = foff[s] /\ p.va = in.base + in.secs[s].va /\ p.filesz = in.secs[s].rawsz
               /\ p.memsz = Larger(in.secs[s].virtsz, in.secs[s].rawsz)

Known(p) == IsSynth(p) \/ IsHdr(p) \/ \E s \in 1 .. NSecs(in) : IsSec(p, s)

PhdrsInv ==
  /\ pc = "loads" => Len(phdrs) <= 3 + i /\ Len(phdrs) >= 1 /\ phdrs[1].type = "PT_PHDR"
  /\ Described => Len(phdrs) <= PhdrsReserved(in)
  /\ pc = "loads" \/ Described =>
       \A n \in 1 .. Len(phdrs) : phdrs[n].type = "PT_LOAD" => Known(phdrs[n])

\* The Writer has never written past the place of what comes next ...
NotPast ==
  /\ pc = "blobs" => out <= plan[Blobs[i]]
  /\ pc = "sections" => out <= IF i <= NSecs(in) THEN foff[i] ELSE sec_cur
  /\ pc = "shstrtab" => in.keep_shdr /\ out <= plan.shstrtab
  /\ pc = "shdrs" => in.keep_shdr /\ out <= plan.shdrs

\* ... and what it has written is in the file.
Reached ==
  /\ pc \in Written \cup {"sections"} => plan.end <= out
  /\ pc = "sections" => \A s \in 1 .. i - 1 : EndOf(s) <= out
  /\ pc \in Written => sec_cur + in.hdr <= out /\ \A s \in 1 .. NSecs(in) : EndOf(s) <= out

\* Nothing is written before the plan is made.
Unwritten ==
  pc \notin Writing => /\ \A p \in Parts : at[p] = Nowhere
                       /\ \A s \in 1 .. NSecs(in) : secAt[s] = Nowhere

LayoutInv == /\ LayoutType /\ PlanInv /\ SectionsInv /\ HeadersInv /\ PhdrsInv
             /\ NotPast /\ Reached /\ Unwritten /\ Placed

-----------------------------------------------------------------------------
(* Planning. *)

(* Nothing is planned and nothing written at the start. *)
LEMMA InitHolds == Init => LayoutInv
<1> SUFFICES ASSUME Init PROVE LayoutInv
  OBVIOUS
<1>0. /\ in \in Inputs /\ pc = "plan" /\ i = 1 /\ phdrs = <<>> /\ out = 0 /\ sec_cur = 0
      /\ foff = [s \in 1 .. NSecs(in) |-> 0] /\ at = [p \in Parts |-> Nowhere]
      /\ secAt = [s \in 1 .. NSecs(in) |-> Nowhere]
  BY DEF Init
<1>1. LayoutType
  BY <1>0 DEF LayoutType, Stages, Nowhere
<1>2. /\ PlanInv /\ SectionsInv /\ HeadersInv /\ NotPast /\ Reached
  BY <1>0 DEF PlanInv, SectionsInv, HeadersInv, NotPast, Reached, Written
<1>3. PhdrsInv
  BY <1>0 DEF PhdrsInv, Described
<1>4. Unwritten /\ Placed
  BY <1>0 DEF Unwritten, Placed, Writing, Written
<1> QED BY <1>1, <1>2, <1>3, <1>4 DEF LayoutInv

(* compute_plan up to the loop over the sections. *)
LEMMA ComputePlanStep ==
  ASSUME LayoutInv, ComputePlan
  PROVE  LayoutInv'
<1>0. /\ pc = "plan" /\ pc' = "place" /\ plan' = Plan(in) /\ sec_cur' = plan'.pe_data
      /\ UNCHANGED <<in, i, foff, phdrs, out, at, secAt>>
  BY DEF ComputePlan
<1>1. Sized(in)
  BY InputSized DEF LayoutInv, LayoutType
<1>2. BlobsFit(in, plan') /\ DOMAIN plan' = Fields
  BY <1>0, <1>1, PlanFits, PlanFields
<1>3. plan'.synth_va \in Nat
  BY <1>1, <1>2, SynthOnPage DEF BlobsFit
<1>4. PlanInv'
  BY <1>0, <1>2, <1>3 DEF PlanInv
<1>5. sec_cur' \in Nat /\ sec_cur' % kPageSize = 0
  BY <1>0, <1>2 DEF BlobsFit
<1>6. LayoutType'
  BY <1>0, <1>1, <1>5, SMTT(30) DEF LayoutType, LayoutInv, Stages, Sized
<1>7. SectionsInv'
  <2>1. NPlaced' = 0 /\ plan'.pe_data \in Nat
    BY <1>0, <1>2 DEF LayoutInv, LayoutType, NPlaced, BlobsFit
  <2> QED BY <1>0, <1>5, <2>1 DEF SectionsInv
<1>8. HeadersInv' /\ NotPast' /\ Reached'
  BY <1>0 DEF HeadersInv, NotPast, Reached, Written
<1>9. PhdrsInv'
  BY <1>0 DEF PhdrsInv, Described
<1>10. Unwritten' /\ Placed'
  BY <1>0 DEF LayoutInv, Unwritten, Placed, Writing, Written
<1> QED BY <1>4, <1>6, <1>7, <1>8, <1>9, <1>10 DEF LayoutInv

(* The loop over the sections. *)
LEMMA PlaceSectionStep ==
  ASSUME LayoutInv, PlaceSection
  PROVE  LayoutInv'
<1>0. /\ pc = "place" /\ pc' = "place" /\ i <= NSecs(in) /\ i' = i + 1
      /\ foff' = [foff EXCEPT ![i] = sec_cur]
      /\ sec_cur' = align_up(sec_cur + in.secs[i].rawsz, kPageSize)
      /\ UNCHANGED <<in, plan, phdrs, out, at, secAt>>
  BY DEF PlaceSection, AfterSection
<1>1. Sized(in)
  BY InputSized DEF LayoutInv, LayoutType
<1>2. /\ i \in 1 .. NSecs(in) /\ NSecs(in) \in Nat /\ in.secs[i].rawsz \in Nat /\ sec_cur \in Nat
      /\ foff \in [1 .. NSecs(in) -> Nat]
  BY <1>0, <1>1, SMTT(30) DEF Sized, LayoutInv, LayoutType
<1>3. /\ sec_cur' \in Nat /\ sec_cur + in.secs[i].rawsz <= sec_cur' /\ sec_cur' % kPageSize = 0
  <2>1. PICK v \in Nat : v = sec_cur + in.secs[i].rawsz
    BY <1>2
  <2>2. align_up(v, kPageSize) \in Nat /\ v <= align_up(v, kPageSize) /\ align_up(v, kPageSize) % kPageSize = 0
    BY AlignPage
  <2>3. sec_cur' = align_up(v, kPageSize)
    BY <1>0, <2>1
  <2> QED BY <2>1, <2>2, <2>3
<1>4. LayoutType'
  BY <1>0, <1>2, <1>3 DEF LayoutInv, LayoutType
<1>5. PlanInv' /\ HeadersInv' /\ NotPast' /\ Reached'
  BY <1>0 DEF LayoutInv, PlanInv, HeadersInv, NotPast, Reached, Written
<1>6. SectionsInv'
  <2>k. PICK k \in 1 .. NSecs(in) : k = i
    BY <1>2
  <2>1. /\ plan.pe_data \in Nat /\ plan.pe_data <= sec_cur /\ sec_cur % kPageSize = 0
        /\ \A s \in 1 .. k - 1 : /\ plan.pe_data <= foff[s] /\ foff[s] % kPageSize = 0
                                 /\ EndOf(s) <= sec_cur
                                 /\ s > 1 => EndOf(s - 1) <= foff[s]
    BY <2>k, <1>0 DEF LayoutInv, SectionsInv, NPlaced, PlanInv, BlobsFit
  <2>2. /\ foff'[k] = sec_cur /\ EndOf(k)' = sec_cur + in.secs[k].rawsz
        /\ \A s \in 1 .. k - 1 : foff'[s] = foff[s] /\ EndOf(s)' = EndOf(s) /\ EndOf(s) \in Nat
    <3>1. \A s \in 1 .. k - 1 : s \in 1 .. NSecs(in) /\ s # k
      BY <2>k, <1>2
    <3>2. \A s \in 1 .. NSecs(in) : foff[s] \in Nat /\ in.secs[s].rawsz \in Nat
      BY <2>k, <1>1, <1>2 DEF Sized
    <3>3. foff'[k] = sec_cur /\ \A s \in 1 .. NSecs(in) : s # k => foff'[s] = foff[s]
      BY <2>k, <1>0, <1>2
    <3>4. \A s \in 1 .. k - 1 : foff'[s] = foff[s] /\ EndOf(s)' = EndOf(s) /\ EndOf(s) \in Nat
      BY <2>k, <1>0, <3>1, <3>2, <3>3 DEF EndOf
    <3> QED BY <2>k, <1>0, <3>3, <3>4 DEF EndOf
  <2>3. ASSUME NEW s \in 1 .. k
        PROVE  /\ plan.pe_data <= foff'[s] /\ foff'[s] % kPageSize = 0
               /\ EndOf(s)' <= sec_cur'
               /\ s > 1 => EndOf(s - 1)' <= foff'[s]
    <3>1. CASE s = k
      <4>1. s > 1 => s - 1 \in 1 .. k - 1
        BY <2>k, <1>2, <3>1
      <4>2. s > 1 => EndOf(s - 1)' <= sec_cur
        BY <2>k, <2>1, <2>2, <4>1
      <4> QED BY <2>k, <1>2, <1>3, <2>1, <2>2, <3>1, <4>2
    <3>2. CASE s # k
      <4>1. s \in 1 .. k - 1 /\ (s > 1 => s - 1 \in 1 .. k - 1)
        BY <2>k, <1>2, <3>2
      <4> QED BY <2>k, <1>2, <1>3, <2>1, <2>2, <4>1, SMTT(30)
    <3> QED BY <2>k, <3>1, <3>2
  <2>4. NPlaced' = k
    BY <2>k, <1>0, <1>2 DEF NPlaced
  <2>5. plan.pe_data <= sec_cur'
    BY <1>2, <1>3, <2>1
  <2> QED BY <2>k, <1>0, <1>3, <2>3, <2>4, <2>5 DEF SectionsInv
<1>7. PhdrsInv'
  BY <1>0 DEF PhdrsInv, Described
<1>8. Unwritten' /\ Placed'
  BY <1>0 DEF LayoutInv, Unwritten, Placed, Writing, Written
<1> QED BY <1>4, <1>5, <1>6, <1>7, <1>8 DEF LayoutInv

(* Behind the last section are the PE headers; no part ends after them. *)
LEMMA LastEndIs ==
  ASSUME LayoutInv, pc = "place", i > NSecs(in)
  PROVE  LastEnd = sec_cur + in.hdr
<1>1. Sized(in)
  BY InputSized DEF LayoutInv, LayoutType
<1>2. NPlaced = NSecs(in)
  BY <1>1 DEF LayoutInv, LayoutType, NPlaced, Sized
<1>3. /\ \A s \in 1 .. NSecs(in) : foff[s] + in.secs[s].rawsz <= sec_cur
      /\ \A s \in 1 .. NSecs(in) : foff[s] + in.secs[s].rawsz \in Nat
      /\ plan.pe_data <= sec_cur /\ plan.pe_data \in Nat /\ sec_cur \in Nat /\ in.hdr \in Nat
  <2>1. \A s \in 1 .. NSecs(in) : EndOf(s) <= sec_cur
    BY <1>2 DEF LayoutInv, SectionsInv
  <2>2. \A s \in 1 .. NSecs(in) : foff[s] \in Nat /\ in.secs[s].rawsz \in Nat
    BY <1>1 DEF LayoutInv, LayoutType, Sized
  <2>3. plan.pe_data <= sec_cur /\ plan.pe_data \in Nat /\ sec_cur \in Nat /\ in.hdr \in Nat
    BY <1>1 DEF LayoutInv, LayoutType, SectionsInv, PlanInv, BlobsFit, Sized
  <2> QED BY <2>1, <2>2, <2>3 DEF EndOf
<1>4. sec_cur + in.hdr \in Ends /\ \A e \in Ends : e \in Nat /\ e <= sec_cur + in.hdr
  BY <1>3 DEF Ends
<1>5. LastEnd \in Ends /\ \A e \in Ends : e <= LastEnd
  BY <1>4 DEF LastEnd
<1> QED BY <1>4, <1>5

(* The section headers get their place behind those. *)
LEMMA PlaceHeadersStep ==
  ASSUME LayoutInv, PlaceHeaders
  PROVE  LayoutInv'
<1> DEFINE strtab == align_up(LastEnd, 8)
<1>0. /\ pc = "place" /\ i > NSecs(in) /\ pc' = "phdrs" /\ i' = 1
      /\ plan' = [plan EXCEPT !.pe_hdr = sec_cur, !.shstrtab = strtab,
                              !.shdrs = IF in.keep_shdr THEN align_up(strtab + in.shstrtab, 8) ELSE 0]
      /\ UNCHANGED <<in, foff, sec_cur, phdrs, out, at, secAt>>
  BY DEF PlaceHeaders
<1>1. Sized(in)
  BY InputSized DEF LayoutInv, LayoutType
<1>2. sec_cur \in Nat /\ in.hdr \in Nat /\ in.shstrtab \in Nat
  BY <1>1 DEF LayoutInv, LayoutType, Sized
<1>3. LastEnd = sec_cur + in.hdr
  BY <1>0, LastEndIs
<1>4. strtab \in Nat /\ sec_cur + in.hdr <= strtab
  BY <1>2, <1>3, Align8
<1> HIDE DEF strtab
<1>5. strtab + in.shstrtab \in Nat /\ align_up(strtab + in.shstrtab, 8) \in Nat
      /\ strtab + in.shstrtab <= align_up(strtab + in.shstrtab, 8)
  BY <1>2, <1>4, Align8
<1>6. DOMAIN plan = Fields /\ BlobsFit(in, plan) /\ plan.synth_va \in Nat
  BY <1>0 DEF LayoutInv, PlanInv
<1>7. /\ DOMAIN plan' = Fields /\ plan'.pe_hdr = sec_cur /\ plan'.shstrtab = strtab
      /\ plan'.shdrs = IF in.keep_shdr THEN align_up(strtab + in.shstrtab, 8) ELSE 0
  BY <1>0, <1>6 DEF Fields, Parts
<1>8. /\ plan'.interp = plan.interp /\ plan'.dynsym = plan.dynsym /\ plan'.dynstr = plan.dynstr
      /\ plan'.hash = plan.hash /\ plan'.rela = plan.rela /\ plan'.dynamic = plan.dynamic
      /\ plan'.trampoline = plan.trampoline /\ plan'.end = plan.end /\ plan'.pe_data = plan.pe_data
      /\ plan'.synth_va = plan.synth_va
  BY <1>0, <1>6 DEF Fields, Parts
<1>9. PlanInv'
  BY <1>0, <1>6, <1>7, <1>8 DEF PlanInv, BlobsFit
<1>10. HeadersInv'
  BY <1>0, <1>2, <1>4, <1>5, <1>7 DEF HeadersInv
<1>11. LayoutType'
  BY <1>0 DEF LayoutInv, LayoutType, Stages
<1>12. SectionsInv'
  <2>1. NPlaced = NSecs(in) /\ NPlaced' = NSecs(in)
    BY <1>0, <1>1 DEF LayoutInv, LayoutType, NPlaced, Sized
  <2> QED BY <1>0, <1>8, <2>1 DEF LayoutInv, SectionsInv, EndOf
<1>13. NotPast' /\ Reached' /\ PhdrsInv'
  BY <1>0 DEF NotPast, Reached, Written, PhdrsInv, Described
<1>14. Unwritten' /\ Placed'
  BY <1>0 DEF LayoutInv, Unwritten, Placed, Writing, Written
<1> QED BY <1>9, <1>10, <1>11, <1>12, <1>13, <1>14 DEF LayoutInv

-----------------------------------------------------------------------------
(* Describing the segments. *)

(* The plan stays what it is once it is complete. *)
LEMMA PlanKept ==
  ASSUME LayoutInv, pc \notin {"plan", "place"}, pc' \notin {"plan", "place"},
         UNCHANGED <<in, plan, foff, sec_cur>>
  PROVE  PlanInv' /\ SectionsInv' /\ HeadersInv'
<1>1. PlanInv' /\ HeadersInv'
  BY DEF LayoutInv, PlanInv, HeadersInv
<1>2. NPlaced' = NPlaced
  BY DEF NPlaced
<1> QED BY <1>1, <1>2 DEF LayoutInv, SectionsInv, EndOf

(* A known segment stays one. *)
LEMMA KnownKept ==
  ASSUME UNCHANGED <<in, plan, foff>>, NEW p, Known(p)
  PROVE  Known(p)'
  BY DEF Known, IsSynth, IsHdr, IsSec

(* What the places of the parts are, all numbers. *)
LEMMA Numbers ==
  ASSUME LayoutInv, pc \notin {"plan", "place"}
  PROVE  /\ plan.synth_va \in Nat /\ plan.interp \in Nat /\ plan.dynamic \in Nat /\ plan.end \in Nat
         /\ plan.pe_hdr \in Nat /\ in.base \in Nat /\ in.hdr \in Nat /\ in.interp \in Nat
         /\ in.dynamic * DynSize \in Nat /\ align_up(in.hdr, kPageSize) \in Nat
         /\ NSecs(in) \in Nat
         /\ \A s \in 1 .. NSecs(in) : /\ foff[s] \in Nat /\ in.secs[s].va \in Nat /\ in.secs[s].rawsz \in Nat
                                      /\ Larger(in.secs[s].virtsz, in.secs[s].rawsz) \in Nat
<1>1. Sized(in)
  BY InputSized DEF LayoutInv, LayoutType
<1>2. align_up(in.hdr, kPageSize) \in Nat
  BY <1>1, AlignPage DEF Sized
<1>3. in.dynamic * DynSize \in Nat
  BY <1>1 DEF Sized, DynSize
<1>4. \A s \in 1 .. NSecs(in) : Larger(in.secs[s].virtsz, in.secs[s].rawsz) \in Nat
  BY <1>1 DEF Sized, Larger
<1>5. sec_cur \in Nat /\ plan.pe_hdr = sec_cur /\ \A s \in 1 .. NSecs(in) : foff[s] \in Nat
  BY DEF LayoutInv, LayoutType, HeadersInv
<1>6. plan.synth_va \in Nat /\ plan.interp \in Nat /\ plan.dynamic \in Nat /\ plan.end \in Nat
  BY DEF LayoutInv, PlanInv, BlobsFit
<1> QED BY <1>1, <1>2, <1>3, <1>4, <1>5, <1>6 DEF Sized

(* PT_PHDR, PT_INTERP, the synthetic segment and PT_DYNAMIC. *)
LEMMA FirstPhdrsStep ==
  ASSUME LayoutInv, FirstPhdrs
  PROVE  LayoutInv'
<1> DEFINE h1 == Phdr("PT_PHDR", EhdrSize, Va(EhdrSize), 0, 0)
           h2 == Phdr("PT_INTERP", plan.interp, Va(plan.interp), in.interp, in.interp)
           h3 == Phdr("PT_LOAD", 0, plan.synth_va, plan.end, plan.end)
           h4 == Phdr("PT_DYNAMIC", plan.dynamic, Va(plan.dynamic), in.dynamic * DynSize, in.dynamic * DynSize)
<1>0. /\ pc = "phdrs" /\ pc' = "loads" /\ phdrs' = <<h1, h2, h3, h4>>
      /\ UNCHANGED <<in, i, plan, foff, sec_cur, out, at, secAt>>
  BY DEF FirstPhdrs
<1>1. /\ h1 \in PhdrRecs /\ h2 \in PhdrRecs /\ h3 \in PhdrRecs /\ h4 \in PhdrRecs
  BY <1>0, Numbers DEF Phdr, PhdrRecs, Va, EhdrSize
<1>2. /\ h1.type = "PT_PHDR" /\ h2.type = "PT_INTERP" /\ h4.type = "PT_DYNAMIC" /\ IsSynth(h3)
  BY DEF Phdr, IsSynth
<1> HIDE DEF h1, h2, h3, h4
<1>3. /\ phdrs' \in Seq(PhdrRecs) /\ Len(phdrs') = 4 /\ phdrs'[1] = h1
      /\ \A n \in 1 .. 4 : phdrs'[n] \in {h1, h2, h3, h4}
  BY <1>0, <1>1
<1>4. LayoutType'
  BY <1>0, <1>3, Numbers, SMTT(30) DEF LayoutInv, LayoutType, Stages
<1>5. PhdrsInv'
  <2>1. i = 1
    BY <1>0 DEF LayoutInv, LayoutType
  <2>0. PICK g : g = h3
    OBVIOUS
  <2>2. Known(g)'
    BY <1>0, <1>2, <2>0, KnownKept DEF Known
  <2>3. \A n \in 1 .. Len(phdrs') : phdrs'[n].type = "PT_LOAD" => phdrs'[n] = g
    BY <1>2, <1>3, <2>0
  <2>4. \A n \in 1 .. Len(phdrs') : phdrs'[n].type = "PT_LOAD" => Known(phdrs[n])'
    <3> TAKE n \in 1 .. Len(phdrs')
    <3> HAVE phdrs'[n].type = "PT_LOAD"
    <3>1. phdrs'[n] = g
      BY <2>3
    <3> QED BY <2>2, <3>1 DEF Known, IsSynth, IsHdr, IsSec
  <2>5. Len(phdrs') <= 3 + i' /\ Len(phdrs') >= 1 /\ phdrs'[1].type = "PT_PHDR"
    BY <1>0, <1>2, <1>3, <2>1
  <2>6. ~Described'
    BY <1>0 DEF Described
  <2> QED BY <2>4, <2>5, <2>6 DEF PhdrsInv
<1>6. NotPast' /\ Reached' /\ Unwritten' /\ Placed'
  BY <1>0 DEF LayoutInv, NotPast, Reached, Unwritten, Placed, Writing, Written
<1> QED BY <1>0, <1>4, <1>5, <1>6, PlanKept DEF LayoutInv

(* A segment per section that is not stripped. *)
LEMMA SectionPhdrStep ==
  ASSUME LayoutInv, SectionPhdr
  PROVE  LayoutInv'
<1> DEFINE h == Phdr("PT_LOAD", foff[i], in.base + in.secs[i].va, in.secs[i].rawsz,
                     Larger(in.secs[i].virtsz, in.secs[i].rawsz))
<1>0. /\ pc = "loads" /\ pc' = "loads" /\ i <= NSecs(in) /\ i' = i + 1
      /\ phdrs' = phdrs \/ phdrs' = Append(phdrs, h)
      /\ UNCHANGED <<in, plan, foff, sec_cur, out, at, secAt>>
  BY DEF SectionPhdr
<1>1. i \in 1 .. NSecs(in) /\ NSecs(in) \in Nat /\ phdrs \in Seq(PhdrRecs)
  BY <1>0, Numbers DEF LayoutInv, LayoutType
<1>2. h \in PhdrRecs
  <2>0. /\ in.base \in Nat
        /\ \A s \in 1 .. NSecs(in) : /\ foff[s] \in Nat /\ in.secs[s].va \in Nat /\ in.secs[s].rawsz \in Nat
                                     /\ Larger(in.secs[s].virtsz, in.secs[s].rawsz) \in Nat
    BY <1>0, Numbers
  <2>1. /\ foff[i] \in Int /\ in.base + in.secs[i].va \in Int /\ in.secs[i].rawsz \in Int
        /\ Larger(in.secs[i].virtsz, in.secs[i].rawsz) \in Int
    BY <1>1, <2>0
  <2> QED BY <2>1 DEF Phdr, PhdrRecs
<1>3. Known(h)
  BY <1>1 DEF Phdr, Known, IsSec
<1>4. PICK g : g = h
  OBVIOUS
<1> HIDE DEF h
<1>5. Known(g)'
  BY <1>0, <1>3, <1>4, KnownKept
<1>6. /\ Len(phdrs) \in Nat /\ Len(phdrs) <= 3 + i /\ Len(phdrs) >= 1 /\ phdrs[1].type = "PT_PHDR"
      /\ \A n \in 1 .. Len(phdrs) : phdrs[n].type = "PT_LOAD" => Known(phdrs[n])
  BY <1>0, <1>1 DEF LayoutInv, PhdrsInv
<1>7. /\ phdrs' \in Seq(PhdrRecs) /\ Len(phdrs') \in {Len(phdrs), Len(phdrs) + 1}
      /\ \A n \in 1 .. Len(phdrs) : phdrs'[n] = phdrs[n]
      /\ \A n \in 1 .. Len(phdrs') : n \notin 1 .. Len(phdrs) => phdrs'[n] = g
  BY <1>0, <1>1, <1>2, <1>4, SMTT(30)
<1>8. LayoutType'
  BY <1>0, <1>1, <1>7 DEF LayoutInv, LayoutType
<1>9. PhdrsInv'
  <2>1. \A n \in 1 .. Len(phdrs') : phdrs'[n].type = "PT_LOAD" => Known(phdrs[n])'
    <3> TAKE n \in 1 .. Len(phdrs')
    <3> HAVE phdrs'[n].type = "PT_LOAD"
    <3>1. CASE n \in 1 .. Len(phdrs)
      <4>1. PICK f : f = phdrs[n]
        OBVIOUS
      <4>2. Known(f)'
        BY <1>0, <1>6, <1>7, <3>1, <4>1, KnownKept
      <4>3. f = phdrs'[n]
        BY <1>7, <3>1, <4>1
      <4> QED BY <4>2, <4>3 DEF Known, IsSynth, IsHdr, IsSec
    <3>2. CASE n \notin 1 .. Len(phdrs)
      <4>1. phdrs'[n] = g
        BY <1>7, <3>2
      <4> QED BY <1>5, <4>1 DEF Known, IsSynth, IsHdr, IsSec
    <3> QED BY <3>1, <3>2
  <2>2. Len(phdrs') <= 3 + i' /\ Len(phdrs') >= 1 /\ phdrs'[1].type = "PT_PHDR"
    BY <1>0, <1>1, <1>6, <1>7
  <2>3. ~Described'
    BY <1>0 DEF Described
  <2> QED BY <2>1, <2>2, <2>3 DEF PhdrsInv
<1>10. NotPast' /\ Reached' /\ Unwritten' /\ Placed'
  BY <1>0 DEF LayoutInv, NotPast, Reached, Unwritten, Placed, Writing, Written
<1> QED BY <1>0, <1>8, <1>9, <1>10, PlanKept DEF LayoutInv

(* Where the elements of a concatenation come from. *)
LEMMA Concatenated ==
  ASSUME NEW S, NEW a \in Seq(S), NEW b \in Seq(S)
  PROVE  /\ a \o b \in Seq(S) /\ Len(a \o b) = Len(a) + Len(b) /\ Len(a) \in Nat /\ Len(b) \in Nat
         /\ \A n \in 1 .. Len(a) : (a \o b)[n] = a[n]
         /\ \A n \in 1 .. Len(a \o b) : n > Len(a) => (a \o b)[n] = b[n - Len(a)]
  OBVIOUS

(* The relocated IAT, the stack and the PE headers; PT_PHDR gets its size. *)
LEMMA LastPhdrsStep ==
  ASSUME LayoutInv, LastPhdrs
  PROVE  LayoutInv'
<1> DEFINE relro == IF Relro = {} THEN <<>>
                    ELSE LET s == CHOOSE s \in Relro : TRUE
                         IN << Phdr("PT_GNU_RELRO", foff[s], in.base + in.secs[s].va,
                                    in.secs[s].rawsz, in.secs[s].rawsz) >>
           stack == Phdr("PT_GNU_STACK", 0, 0, 0, 0)
           hdr   == Phdr("PT_LOAD", plan.pe_hdr, in.base, in.hdr, align_up(in.hdr, kPageSize))
           all   == phdrs \o relro \o <<stack, hdr>>
           size  == Len(all) * PhdrSize
<1>0. /\ pc = "loads" /\ pc' = "header" /\ i > NSecs(in) /\ i' = 1
      /\ phdrs' = [all EXCEPT ![1].filesz = size, ![1].memsz = size]
      /\ UNCHANGED <<in, plan, foff, sec_cur, out, at, secAt>>
  BY DEF LastPhdrs
<1>1. /\ NSecs(in) \in Nat /\ i = NSecs(in) + 1 /\ phdrs \in Seq(PhdrRecs) /\ Len(phdrs) \in Nat
      /\ Len(phdrs) <= 3 + i /\ Len(phdrs) >= 1 /\ phdrs[1].type = "PT_PHDR"
      /\ \A n \in 1 .. Len(phdrs) : phdrs[n].type = "PT_LOAD" => Known(phdrs[n])
  BY <1>0, Numbers DEF LayoutInv, LayoutType, PhdrsInv
<1>2. stack \in PhdrRecs /\ hdr \in PhdrRecs /\ stack.type = "PT_GNU_STACK" /\ Known(hdr)
  <2>0. /\ plan.pe_hdr \in Nat /\ in.base \in Nat /\ in.hdr \in Nat /\ align_up(in.hdr, kPageSize) \in Nat
    BY <1>0, Numbers
  <2>1. /\ plan.pe_hdr \in Int /\ in.base \in Int /\ in.hdr \in Int /\ align_up(in.hdr, kPageSize) \in Int
    BY <2>0
  <2>2. stack \in PhdrRecs /\ hdr \in PhdrRecs /\ stack.type = "PT_GNU_STACK"
    BY <2>1 DEF Phdr, PhdrRecs
  <2>3. IsHdr(hdr)
    BY DEF Phdr, IsHdr
  <2> QED BY <2>2, <2>3 DEF Known
<1>3. /\ relro \in Seq(PhdrRecs) /\ Len(relro) \in 0 .. 1
      /\ Len(relro) = 1 => relro[1].type = "PT_GNU_RELRO"
  <2>1. CASE Relro = {}
    BY <2>1
  <2>2. CASE Relro # {}
    <3>1. PICK s : s = CHOOSE u \in Relro : TRUE
      OBVIOUS
    <3>2. s \in Relro /\ s \in 1 .. NSecs(in)
      BY <2>2, <3>1 DEF Relro
    <3> DEFINE r == Phdr("PT_GNU_RELRO", foff[s], in.base + in.secs[s].va, in.secs[s].rawsz, in.secs[s].rawsz)
    <3>0. /\ in.base \in Nat
          /\ \A u \in 1 .. NSecs(in) : foff[u] \in Nat /\ in.secs[u].va \in Nat /\ in.secs[u].rawsz \in Nat
      BY <1>0, Numbers
    <3>3. foff[s] \in Int /\ in.base + in.secs[s].va \in Int /\ in.secs[s].rawsz \in Int
      BY <3>0, <3>2
    <3>4. r \in PhdrRecs /\ r.type = "PT_GNU_RELRO"
      BY <3>3 DEF Phdr, PhdrRecs
    <3>5. relro = <<r>>
      BY <2>2, <3>1
    <3> HIDE DEF r, relro
    <3> QED BY <3>4, <3>5
  <2> QED BY <2>1, <2>2
<1> HIDE DEF relro, stack, hdr
<1>4. /\ all \in Seq(PhdrRecs) /\ Len(all) = Len(phdrs) + Len(relro) + 2
      /\ \A n \in 1 .. Len(phdrs) : all[n] = phdrs[n]
      /\ \A n \in 1 .. Len(all) : n > Len(phdrs) + Len(relro) => all[n] \in {stack, hdr}
      /\ \A n \in 1 .. Len(all) : n > Len(phdrs) /\ n <= Len(phdrs) + Len(relro) => all[n] = relro[1]
  <2> DEFINE head == phdrs \o relro
             tail == <<stack, hdr>>
  <2>1. tail \in Seq(PhdrRecs) /\ Len(tail) = 2 /\ \A n \in 1 .. 2 : tail[n] \in {stack, hdr}
    BY <1>2
  <2>2. all = head \o tail
    OBVIOUS
  <2> HIDE DEF tail, all
  <2>3. /\ head \in Seq(PhdrRecs) /\ Len(head) = Len(phdrs) + Len(relro) /\ Len(head) \in Nat
        /\ \A n \in 1 .. Len(phdrs) : head[n] = phdrs[n]
        /\ \A n \in 1 .. Len(head) : n > Len(phdrs) => head[n] = relro[n - Len(phdrs)]
    <3>1. relro \in Seq(PhdrRecs) /\ phdrs \in Seq(PhdrRecs)
      BY <1>1, <1>3
    <3>2. Len(relro) \in Nat
      BY <1>3
    <3> QED BY <1>1, <3>1, <3>2, Concatenated
  <2> HIDE DEF head
  <2>4. /\ all \in Seq(PhdrRecs) /\ Len(all) = Len(head) + 2
        /\ \A n \in 1 .. Len(head) : all[n] = head[n]
        /\ \A n \in 1 .. Len(all) : n > Len(head) => all[n] = tail[n - Len(head)]
    <3>1. head \in Seq(PhdrRecs) /\ tail \in Seq(PhdrRecs) /\ Len(tail) = 2
      BY <2>1, <2>3
    <3>2. /\ head \o tail \in Seq(PhdrRecs) /\ Len(head \o tail) = Len(head) + Len(tail)
          /\ \A n \in 1 .. Len(head) : (head \o tail)[n] = head[n]
          /\ \A n \in 1 .. Len(head \o tail) : n > Len(head) => (head \o tail)[n] = tail[n - Len(head)]
      BY <3>1, Concatenated
    <3> QED BY <2>2, <3>1, <3>2
  <2>5. /\ Len(head) \in Nat /\ Len(all) = Len(head) + 2 /\ Len(phdrs) \in Nat
        /\ Len(relro) \in 0 .. 1 /\ Len(head) = Len(phdrs) + Len(relro)
    BY <1>1, <1>3, <2>3, <2>4
  <2>6. /\ \A n \in 1 .. Len(all) : n > Len(head) => n - Len(head) \in 1 .. 2
        /\ \A n \in 1 .. Len(phdrs) : n \in 1 .. Len(head)
        /\ \A n \in 1 .. Len(all) : n > Len(phdrs) /\ n <= Len(phdrs) + Len(relro)
                                    => n \in 1 .. Len(head) /\ n - Len(phdrs) = 1
    <3>1. PICK l \in Nat : l = Len(phdrs)
      BY <2>5
    <3>2. PICK r \in 0 .. 1 : r = Len(relro)
      BY <2>5
    <3>3. Len(head) = l + r /\ Len(all) = l + r + 2
      BY <2>5, <3>1, <3>2
    <3>4. \A n \in 1 .. l + r + 2 : /\ n > l + r => n - (l + r) \in 1 .. 2
                                   /\ n > l /\ n <= l + r => n \in 1 .. l + r /\ n - l = 1
      OBVIOUS
    <3>5. \A n \in 1 .. l : n \in 1 .. l + r
      OBVIOUS
    <3> QED BY <3>1, <3>2, <3>3, <3>4, <3>5
  <2> QED BY <2>1, <2>3, <2>4, <2>5, <2>6
<1>5. size \in Int
  BY <1>1, <1>3, <1>4 DEF PhdrSize
<1> HIDE DEF all, size
<1>6. /\ phdrs' \in Seq(PhdrRecs) /\ Len(phdrs') = Len(all) /\ phdrs'[1].type = "PT_PHDR"
      /\ \A n \in 2 .. Len(all) : phdrs'[n] = all[n]
  <2> DEFINE first == [[all[1] EXCEPT !.filesz = size] EXCEPT !.memsz = size]
  <2>1. 1 \in DOMAIN all /\ all[1] \in PhdrRecs /\ all[1].type = "PT_PHDR" /\ DOMAIN all = 1 .. Len(all)
    BY <1>1, <1>3, <1>4
  <2>2. phdrs' = [all EXCEPT ![1] = first]
    BY <1>0, <2>1
  <2>3. first \in PhdrRecs /\ first.type = "PT_PHDR"
    BY <1>5, <2>1 DEF PhdrRecs
  <2> HIDE DEF first
  <2> QED BY <1>4, <2>1, <2>2, <2>3
<1>7. \A n \in 1 .. Len(phdrs') : phdrs'[n].type = "PT_LOAD" => Known(phdrs[n])'
  <2> TAKE n \in 1 .. Len(phdrs')
  <2> HAVE phdrs'[n].type = "PT_LOAD"
  <2>1. n # 1
    BY <1>6
  <2>2. n \in 2 .. Len(all) /\ phdrs'[n] = all[n]
    BY <1>1, <1>3, <1>4, <1>6, <2>1
  <2>3. PICK f : f = all[n]
    OBVIOUS
  <2>4. Known(f)
    <3>1. CASE n <= Len(phdrs)
      BY <1>1, <1>4, <2>2, <2>3, <3>1
    <3>2. CASE n > Len(phdrs) /\ n <= Len(phdrs) + Len(relro)
      <4>1. Len(relro) = 1 /\ all[n] = relro[1]
        BY <1>1, <1>3, <1>4, <2>2, <3>2
      <4> QED BY <1>3, <2>2, <4>1
    <3>3. CASE n > Len(phdrs) + Len(relro)
      BY <1>2, <1>4, <2>2, <2>3, <3>3
    <3> QED BY <1>1, <1>3, <2>2, <3>1, <3>2, <3>3
  <2>5. Known(f)'
    BY <1>0, <2>4, KnownKept
  <2> QED BY <2>2, <2>3, <2>5 DEF Known, IsSynth, IsHdr, IsSec
<1>8. Len(phdrs') <= PhdrsReserved(in')
  <2>1. in' = in /\ Len(phdrs') <= 4 + NSecs(in) + 3
    <3>1. Len(phdrs') = Len(phdrs) + Len(relro) + 2 /\ Len(relro) \in 0 .. 1
      BY <1>3, <1>4, <1>6
    <3>2. Len(phdrs) \in Nat /\ Len(phdrs) <= 3 + i /\ i = NSecs(in) + 1 /\ NSecs(in) \in Nat /\ in' = in
      BY <1>0, <1>1
    <3>3. PICK l \in Nat : l = Len(phdrs)
      BY <3>2
    <3>4. PICK r \in 0 .. 1 : r = Len(relro)
      BY <3>1
    <3>5. PICK m \in Nat : m = NSecs(in)
      BY <3>2
    <3>6. Len(phdrs') = l + r + 2 /\ l <= m + 4
      BY <3>1, <3>2, <3>3, <3>4, <3>5
    <3> QED BY <3>2, <3>5, <3>6
  <2> QED BY <1>1, <2>1 DEF PhdrsReserved
<1>9. PhdrsInv'
  BY <1>0, <1>7, <1>8 DEF PhdrsInv
<1>10. LayoutType'
  BY <1>0, <1>6 DEF LayoutInv, LayoutType, Stages
<1>11. NotPast' /\ Reached' /\ Unwritten' /\ Placed'
  BY <1>0 DEF LayoutInv, NotPast, Reached, Unwritten, Placed, Writing, Written
<1> QED BY <1>0, <1>9, <1>10, <1>11, PlanKept DEF LayoutInv

-----------------------------------------------------------------------------
(* Writing. *)

(* The program headers are described and stay what they are. *)
LEMMA PhdrsKept ==
  ASSUME LayoutInv, Described, Described', UNCHANGED <<in, plan, foff, phdrs>>
  PROVE  PhdrsInv'
<1>1. pc' # "loads"
  BY DEF Described
<1>2. Len(phdrs') <= PhdrsReserved(in')
  BY DEF LayoutInv, PhdrsInv
<1>3. \A n \in 1 .. Len(phdrs') : phdrs'[n].type = "PT_LOAD" => Known(phdrs[n])'
  BY DEF LayoutInv, PhdrsInv, Known, IsSynth, IsHdr, IsSec
<1> QED BY <1>1, <1>2, <1>3 DEF PhdrsInv

(* Padding reaches a place that is not passed yet. *)
LEMMA PaddedTo ==
  ASSUME NEW target \in Nat, out \in Nat, out <= target
  PROVE  Padded(target) = target
  BY DEF Padded, Larger

(* The headers fit into the block reserved for them. *)
LEMMA WriteHeaderStep ==
  ASSUME LayoutInv, WriteHeader
  PROVE  LayoutInv'
<1>0. /\ pc = "header" /\ pc' = "blobs" /\ out' = EhdrSize + Len(phdrs) * PhdrSize
      /\ UNCHANGED <<in, i, plan, foff, sec_cur, phdrs, at, secAt>>
  BY DEF WriteHeader
<1>1. i = 1 /\ Len(phdrs) \in Nat /\ Len(phdrs) <= PhdrsReserved(in)
  BY <1>0 DEF LayoutInv, LayoutType, PhdrsInv, Described
<1>2. /\ NSecs(in) \in Nat /\ plan.interp \in Nat /\ EhdrSize + PhdrsReserved(in) * PhdrSize <= plan.interp
  BY <1>0, Numbers DEF LayoutInv, PlanInv, BlobsFit
<1>3. out' \in Nat /\ out' <= plan.interp
  BY <1>0, <1>1, <1>2 DEF PhdrsReserved, PhdrSize, EhdrSize
<1>4. LayoutType'
  BY <1>0, <1>1, <1>3 DEF LayoutInv, LayoutType, Stages
<1>5. NotPast' /\ Reached'
  BY <1>0, <1>1, <1>3 DEF NotPast, Reached, Written, Blobs
<1>6. Unwritten' /\ Placed'
  BY <1>0 DEF LayoutInv, Unwritten, Placed, Writing, Written
<1>7. PlanInv' /\ SectionsInv' /\ HeadersInv'
  BY <1>0, PlanKept
<1>8. PhdrsInv'
  BY <1>0, PhdrsKept DEF Described
<1> QED BY <1>4, <1>5, <1>6, <1>7, <1>8 DEF LayoutInv

(* A blob ends where the next one begins, or before. *)
LEMMA BlobRoom ==
  ASSUME LayoutInv, pc = "blobs"
  PROVE  /\ Blobs[i] \in Parts /\ plan[Blobs[i]] \in Nat /\ BlobSize(in, Blobs[i]) \in Nat
         /\ i < 7 => /\ plan[Blobs[i + 1]] \in Nat
                     /\ plan[Blobs[i]] + BlobSize(in, Blobs[i]) <= plan[Blobs[i + 1]]
         /\ i = 7 => plan[Blobs[i]] + BlobSize(in, Blobs[i]) = plan.end
<1>1. Sized(in)
  BY InputSized DEF LayoutInv, LayoutType
<1>2. BlobsFit(in, plan)
  BY DEF LayoutInv, PlanInv
<1>3. i \in 1 .. 7
  BY DEF LayoutInv, LayoutType
<1>4. /\ in.dynsym * SymSize \in Nat /\ in.rela * RelaSize \in Nat /\ in.dynamic * DynSize \in Nat
      /\ kTrampolineSize \in Nat
  BY <1>1 DEF Sized, SymSize, RelaSize, DynSize, kTrampolineSize
<1>5. /\ BlobSize(in, "interp") = in.interp /\ BlobSize(in, "dynsym") = in.dynsym * SymSize
      /\ BlobSize(in, "dynstr") = in.dynstr /\ BlobSize(in, "hash") = in.hash
      /\ BlobSize(in, "rela") = in.rela * RelaSize /\ BlobSize(in, "dynamic") = in.dynamic * DynSize
      /\ BlobSize(in, "trampoline") = kTrampolineSize
  BY DEF BlobSize
<1>6. /\ Blobs[1] = "interp" /\ Blobs[2] = "dynsym" /\ Blobs[3] = "dynstr" /\ Blobs[4] = "hash"
      /\ Blobs[5] = "rela" /\ Blobs[6] = "dynamic" /\ Blobs[7] = "trampoline"
  BY DEF Blobs
<1>7. CASE i = 1
  BY <1>1, <1>2, <1>4, <1>5, <1>6, <1>7 DEF BlobsFit, Sized, Parts
<1>8. CASE i = 2
  BY <1>1, <1>2, <1>4, <1>5, <1>6, <1>8 DEF BlobsFit, Sized, Parts
<1>9. CASE i = 3
  BY <1>1, <1>2, <1>4, <1>5, <1>6, <1>9 DEF BlobsFit, Sized, Parts
<1>10. CASE i = 4
  BY <1>1, <1>2, <1>4, <1>5, <1>6, <1>10 DEF BlobsFit, Sized, Parts
<1>11. CASE i = 5
  BY <1>1, <1>2, <1>4, <1>5, <1>6, <1>11 DEF BlobsFit, Sized, Parts
<1>12. CASE i = 6
  BY <1>1, <1>2, <1>4, <1>5, <1>6, <1>12 DEF BlobsFit, Sized, Parts
<1>13. CASE i = 7
  BY <1>1, <1>2, <1>4, <1>5, <1>6, <1>13 DEF BlobsFit, Sized, Parts
<1> QED BY <1>3, <1>7, <1>8, <1>9, <1>10, <1>11, <1>12, <1>13

(* The first section, or the PE headers of an image without sections, is   *)
(* behind the blobs.                                                       *)
LEMMA FirstSection ==
  ASSUME LayoutInv, pc \notin {"plan", "place"}
  PROVE  /\ plan.end \in Nat /\ sec_cur \in Nat /\ plan.end <= sec_cur
         /\ \A s \in 1 .. NSecs(in) : plan.end <= foff[s]
<1>1. /\ plan.end \in Nat /\ plan.pe_data \in Nat /\ plan.end <= plan.pe_data
  BY DEF LayoutInv, PlanInv, BlobsFit
<1>2. /\ plan.pe_data <= sec_cur /\ sec_cur \in Nat
      /\ \A s \in 1 .. NSecs(in) : plan.pe_data <= foff[s]
  BY DEF LayoutInv, SectionsInv, NPlaced, LayoutType
<1>3. \A s \in 1 .. NSecs(in) : foff[s] \in Nat
  BY DEF LayoutInv, LayoutType
<1> QED BY <1>1, <1>2, <1>3

(* A synthetic section is written where it was planned. *)
LEMMA WriteBlobStep ==
  ASSUME LayoutInv, WriteBlob
  PROVE  LayoutInv'
<1>0. /\ pc = "blobs"
      /\ \/ i < 7 /\ i' = i + 1 /\ pc' = pc
         \/ i = 7 /\ i' = 1 /\ pc' = "sections"
      /\ UNCHANGED <<in, plan, foff, sec_cur, phdrs, secAt>>
  BY DEF WriteBlob
<1>1. PICK b : b = Blobs[i]
  OBVIOUS
<1>2. PICK z : z = BlobSize(in, b)
  OBVIOUS
<1>3. /\ b \in Parts /\ plan[b] \in Nat /\ z \in Nat
      /\ i < 7 => plan[Blobs[i + 1]] \in Nat /\ plan[b] + z <= plan[Blobs[i + 1]]
      /\ i = 7 => plan[b] + z = plan.end
  BY <1>0, <1>1, <1>2, BlobRoom
<1>4. out \in Nat /\ out <= plan[b] /\ i \in 1 .. 7 /\ NSecs(in) \in Nat /\ at \in [Parts -> Int]
  BY <1>0, <1>1, Numbers DEF LayoutInv, LayoutType, NotPast
<1>5. /\ \/ UNCHANGED <<out, at>> /\ b = "hash"
         \/ at' = [at EXCEPT ![b] = plan[b]] /\ out' = plan[b] + z
  <2>1. Padded(plan[b]) = plan[b]
    BY <1>3, <1>4, PaddedTo
  <2> QED BY <1>1, <1>2, <2>1 DEF WriteBlob
<1>6. i = 7 => b # "hash"
  BY <1>1 DEF Blobs
<1>7. out' \in Nat /\ out' <= plan[b] + z /\ (i = 7 => out' = plan.end)
  BY <1>3, <1>4, <1>5, <1>6
<1>8. at' \in [Parts -> Int]
  BY <1>3, <1>4, <1>5
<1>9. LayoutType'
  BY <1>0, <1>4, <1>7, <1>8 DEF LayoutInv, LayoutType, Stages
<1>10. NotPast'
  <2>1. CASE i < 7
    BY <1>0, <1>3, <1>4, <1>7, <2>1 DEF NotPast
  <2>2. CASE i = 7
    <3>1. NSecs(in) >= 1 => 1 \in 1 .. NSecs(in)
      BY <1>4
    <3>2. plan.end <= IF 1 <= NSecs(in) THEN foff[1] ELSE sec_cur
      BY <1>0, <1>4, <3>1, FirstSection
    <3> QED BY <1>0, <1>7, <2>2, <3>2 DEF NotPast
  <2> QED BY <1>4, <2>1, <2>2
<1>11. Reached'
  BY <1>0, <1>3, <1>4, <1>7 DEF Reached, Written
<1>12. Unwritten'
  BY <1>0 DEF Unwritten, Writing, Written
<1>13. Placed'
  BY <1>0, <1>3, <1>4, <1>5 DEF LayoutInv, Placed
<1>14. PlanInv' /\ SectionsInv' /\ HeadersInv'
  BY <1>0, PlanKept
<1>15. PhdrsInv'
  BY <1>0, PhdrsKept DEF Described
<1> QED BY <1>9, <1>10, <1>11, <1>12, <1>13, <1>14, <1>15 DEF LayoutInv

(* A PE section is written where it was planned. *)
LEMMA WriteSectionStep ==
  ASSUME LayoutInv, WriteSection
  PROVE  LayoutInv'
<1>0. /\ pc = "sections" /\ pc' = "sections" /\ i <= NSecs(in) /\ i' = i + 1
      /\ secAt' = [secAt EXCEPT ![i] = Padded(foff[i])]
      /\ out' = Padded(foff[i]) + in.secs[i].rawsz
      /\ UNCHANGED <<in, plan, foff, sec_cur, phdrs, at>>
  BY DEF WriteSection
<1>1. PICK k \in 1 .. NSecs(in) : k = i
  BY <1>0, Numbers DEF LayoutInv, LayoutType
<1>2. /\ NSecs(in) \in Nat /\ foff[k] \in Nat /\ in.secs[k].rawsz \in Nat /\ out \in Nat /\ sec_cur \in Nat
  BY <1>0, <1>1, Numbers DEF LayoutInv, LayoutType
<1>3. /\ out <= foff[k] /\ plan.end <= out /\ plan.end \in Nat
      /\ \A s \in 1 .. k - 1 : EndOf(s) <= out
  BY <1>0, <1>1, Numbers DEF LayoutInv, NotPast, Reached
<1>4. Padded(foff[k]) = foff[k]
  BY <1>2, <1>3, PaddedTo
<1>5. /\ out' = foff[k] + in.secs[k].rawsz /\ secAt' = [secAt EXCEPT ![k] = foff[k]]
  BY <1>0, <1>1, <1>4
<1>6. EndOf(k)' = out' /\ out' \in Nat /\ out <= out' /\ plan.end <= out'
  BY <1>0, <1>2, <1>3, <1>5 DEF EndOf
<1>7. /\ EndOf(k) <= sec_cur /\ EndOf(k) = out'
      /\ k < NSecs(in) => EndOf(k) <= foff[k + 1]
  <2>1. \A s \in 1 .. NSecs(in) : EndOf(s) <= sec_cur /\ (s > 1 => EndOf(s - 1) <= foff[s])
    BY <1>0 DEF LayoutInv, SectionsInv, NPlaced
  <2>2. k < NSecs(in) => k + 1 \in 1 .. NSecs(in) /\ k + 1 > 1 /\ k + 1 - 1 = k
    BY <1>2
  <2> QED BY <1>5, <2>1, <2>2 DEF EndOf
<1>8. LayoutType'
  <2>1. secAt' \in [1 .. NSecs(in) -> Int]
    BY <1>2, <1>5 DEF LayoutInv, LayoutType
  <2>2. i' \in Nat \ {0} /\ i' <= NSecs(in) + 1
    BY <1>0, <1>1, <1>2
  <2> QED BY <1>0, <1>6, <2>1, <2>2 DEF LayoutInv, LayoutType, Stages
<1>9. NotPast'
  <2>1. out' <= IF k + 1 <= NSecs(in) THEN foff[k + 1] ELSE sec_cur
    BY <1>2, <1>7
  <2> QED BY <1>0, <1>1, <2>1 DEF NotPast
<1>10. Reached'
  <2>1. ASSUME NEW s \in 1 .. k PROVE EndOf(s)' <= out'
    <3>1. CASE s = k
      BY <1>6, <3>1
    <3>2. CASE s # k
      <4>1. s \in 1 .. k - 1 /\ s \in 1 .. NSecs(in)
        BY <1>2, <3>2
      <4>2. EndOf(s) <= out /\ EndOf(s)' = EndOf(s)
        BY <1>0, <1>3, <4>1 DEF EndOf
      <4>3. EndOf(s) \in Int
        BY <1>0, <4>1, Numbers DEF EndOf
      <4> QED BY <1>2, <1>6, <4>2, <4>3
    <3> QED BY <3>1, <3>2
  <2>2. i' - 1 = k
    BY <1>0, <1>1, <1>2
  <2> QED BY <1>0, <1>6, <2>1, <2>2 DEF Reached, Written
<1>11. Unwritten' /\ Placed'
  BY <1>0, <1>5 DEF LayoutInv, LayoutType, Unwritten, Writing, Placed
<1>12. PlanInv' /\ SectionsInv' /\ HeadersInv'
  BY <1>0, PlanKept
<1>13. PhdrsInv'
  BY <1>0, PhdrsKept DEF Described
<1> QED BY <1>8, <1>9, <1>10, <1>11, <1>12, <1>13 DEF LayoutInv

(* Writing one of the parts behind the sections. *)
LEMMA WriteTailStep ==
  ASSUME LayoutInv, pc \in {"sections", "shstrtab", "shdrs"}, pc' \in Written,
         NEW b \in Parts, NEW z \in Nat, plan[b] \in Nat, out <= plan[b],
         at' = [at EXCEPT ![b] = Padded(plan[b])], out' = Padded(plan[b]) + z,
         UNCHANGED <<in, i, plan, foff, sec_cur, phdrs, secAt>>,
         \A s \in 1 .. NSecs(in) : EndOf(s) <= out,
         pc = "sections" => b = "pe_hdr" /\ z = in.hdr,
         pc' = "shstrtab" => in.keep_shdr /\ out' <= plan.shstrtab,
         pc' = "shdrs" => in.keep_shdr /\ out' <= plan.shdrs
  PROVE  LayoutInv'
<1>1. out \in Nat /\ plan.end <= out /\ plan.end \in Nat /\ sec_cur \in Nat /\ in.hdr \in Nat
  BY Numbers DEF LayoutInv, LayoutType, Reached, Written
<1>2. Padded(plan[b]) = plan[b] /\ at' = [at EXCEPT ![b] = plan[b]] /\ out' = plan[b] + z
  BY <1>1, PaddedTo
<1>3. out' \in Nat /\ out <= out' /\ plan.end <= out'
  BY <1>1, <1>2
<1>4. LayoutType'
  BY <1>2, <1>3 DEF LayoutInv, LayoutType, Written, Stages
<1>5. NotPast'
  BY DEF NotPast, Written
<1>6. Reached'
  <2>1. sec_cur + in.hdr <= out'
    <3>1. CASE pc = "sections"
      BY <1>2, <3>1 DEF LayoutInv, HeadersInv
    <3>2. CASE pc # "sections"
      BY <1>1, <1>3, <3>2 DEF LayoutInv, Reached, Written
    <3> QED BY <3>1, <3>2
  <2>2. ASSUME NEW s \in 1 .. NSecs(in) PROVE EndOf(s)' <= out'
    <3>1. EndOf(s) \in Int /\ EndOf(s)' = EndOf(s)
      BY Numbers DEF EndOf
    <3> QED BY <1>1, <1>3, <3>1
  <2> QED BY <1>3, <2>1, <2>2 DEF Reached, Written
<1>7. Unwritten'
  BY DEF Unwritten, Writing
<1>8. Placed'
  BY <1>2 DEF LayoutInv, LayoutType, Placed
<1>9. PlanInv' /\ SectionsInv' /\ HeadersInv'
  BY PlanKept DEF Written
<1>10. PhdrsInv'
  BY PhdrsKept DEF Described, Written
<1> QED BY <1>4, <1>5, <1>6, <1>7, <1>8, <1>9, <1>10 DEF LayoutInv

(* The PE headers ... *)
LEMMA WritePeHeaderStep ==
  ASSUME LayoutInv, WritePeHeader
  PROVE  LayoutInv'
<1>0. /\ pc = "sections" /\ i > NSecs(in)
      /\ at' = [at EXCEPT !["pe_hdr"] = Padded(plan["pe_hdr"])] /\ out' = Padded(plan["pe_hdr"]) + in.hdr
      /\ pc' = IF in.keep_shdr THEN "shstrtab" ELSE "done"
      /\ UNCHANGED <<in, i, plan, foff, sec_cur, phdrs, secAt>>
  BY DEF WritePeHeader
<1>1. /\ plan["pe_hdr"] = sec_cur /\ sec_cur \in Nat /\ in.hdr \in Nat /\ out \in Nat
      /\ sec_cur + in.hdr <= plan.shstrtab
  BY <1>0, Numbers DEF LayoutInv, LayoutType, HeadersInv
<1>2. i = NSecs(in) + 1 /\ NSecs(in) \in Nat
  BY <1>0, Numbers, SMTT(30) DEF LayoutInv, LayoutType
<1>3. out <= plan["pe_hdr"] /\ \A s \in 1 .. NSecs(in) : EndOf(s) <= out
  BY <1>0, <1>1, <1>2 DEF LayoutInv, NotPast, Reached
<1>4. out' <= plan.shstrtab
  BY <1>0, <1>1, <1>3, PaddedTo
<1>5. "pe_hdr" \in Parts /\ pc' \in Written /\ pc' # "shdrs" /\ (pc' = "shstrtab" => in.keep_shdr)
  BY <1>0 DEF Parts, Written
<1> QED BY <1>0, <1>1, <1>3, <1>4, <1>5, WriteTailStep

(* ... the names of the sections ... *)
LEMMA WriteShstrtabStep ==
  ASSUME LayoutInv, WriteShstrtab
  PROVE  LayoutInv'
<1>0. /\ pc = "shstrtab" /\ pc' = "shdrs"
      /\ at' = [at EXCEPT !["shstrtab"] = Padded(plan["shstrtab"])]
      /\ out' = Padded(plan["shstrtab"]) + in.shstrtab
      /\ UNCHANGED <<in, i, plan, foff, sec_cur, phdrs, secAt>>
  BY DEF WriteShstrtab
<1>1. Sized(in)
  BY InputSized DEF LayoutInv, LayoutType
<1>2. /\ plan["shstrtab"] \in Nat /\ out \in Nat /\ in.keep_shdr /\ out <= plan["shstrtab"]
      /\ plan["shstrtab"] + in.shstrtab <= plan.shdrs /\ in.shstrtab \in Nat
      /\ \A s \in 1 .. NSecs(in) : EndOf(s) <= out
  BY <1>0, <1>1 DEF LayoutInv, LayoutType, HeadersInv, NotPast, Reached, Written, Sized
<1>3. out' <= plan.shdrs
  BY <1>0, <1>2, PaddedTo
<1>4. "shstrtab" \in Parts /\ pc' \in Written
  BY <1>0 DEF Parts, Written
<1> QED BY <1>0, <1>2, <1>3, <1>4, WriteTailStep

(* ... and the section headers. *)
LEMMA WriteShdrsStep ==
  ASSUME LayoutInv, WriteShdrs
  PROVE  LayoutInv'
<1>0. /\ pc = "shdrs" /\ pc' = "done"
      /\ at' = [at EXCEPT !["shdrs"] = Padded(plan["shdrs"])]
      /\ out' = Padded(plan["shdrs"]) + NShdrs * ShdrSize
      /\ UNCHANGED <<in, i, plan, foff, sec_cur, phdrs, secAt>>
  BY DEF WriteShdrs
<1>1. NShdrs * ShdrSize \in Nat
  BY <1>0, Numbers DEF NShdrs, ShdrSize
<1>2. /\ plan["shdrs"] \in Nat /\ out <= plan["shdrs"]
      /\ \A s \in 1 .. NSecs(in) : EndOf(s) <= out
  BY <1>0 DEF LayoutInv, HeadersInv, NotPast, Reached, Written
<1>3. "shdrs" \in Parts /\ pc' \in Written
  BY <1>0 DEF Parts, Written
<1> QED BY <1>0, <1>1, <1>2, <1>3, WriteTailStep

(* LayoutInv is inductive, for every input. *)
LEMMA LayoutStep == LayoutInv /\ [Next]_vars => LayoutInv'
<1> SUFFICES ASSUME LayoutInv, [Next]_vars PROVE LayoutInv'
  OBVIOUS
<1>1. CASE UNCHANGED vars
  <2>1. UNCHANGED <<in, pc, i, plan, foff, sec_cur, phdrs, out, at, secAt>>
    BY <1>1 DEF vars
  <2>2. LayoutType' /\ PlanInv' /\ HeadersInv' /\ NotPast' /\ Unwritten' /\ Placed'
    BY <2>1 DEF LayoutInv, LayoutType, PlanInv, HeadersInv, NotPast, Unwritten, Placed
  <2>3. SectionsInv' /\ Reached'
    BY <2>1 DEF LayoutInv, SectionsInv, Reached, NPlaced, EndOf
  <2>4. PhdrsInv'
    BY <2>1 DEF LayoutInv, PhdrsInv, Described, Known, IsSynth, IsHdr, IsSec
  <2> QED BY <2>2, <2>3, <2>4 DEF LayoutInv
<1>2. CASE Next
  BY <1>2, ComputePlanStep, PlaceSectionStep, PlaceHeadersStep, FirstPhdrsStep, SectionPhdrStep,
     LastPhdrsStep, WriteHeaderStep, WriteBlobStep, WriteSectionStep, WritePeHeaderStep,
     WriteShstrtabStep, WriteShdrsStep DEF Next
<1> QED BY <1>1, <1>2

(* Every state satisfies it. *)
LEMMA LayoutAlways == Spec => []LayoutInv
  BY InitHolds, LayoutStep, PTL DEF Spec

-----------------------------------------------------------------------------
(* The theorems. *)

(* Whatever the number of sections, the sizes of the tables and the        *)
(* options: the Writer puts every part exactly where compute_plan said,    *)
(* although pad_to_size cannot go back.  The block reserved for program    *)
(* headers holds all that build_phdrs makes.                               *)
THEOREM PlacedHolds == Spec => []Placed
<1>1. LayoutInv => Placed
  BY DEF LayoutInv
<1> QED BY <1>1, LayoutAlways, PTL

(* A program header of a segment is known, and so is its place. *)
LEMMA LoadKnown ==
  ASSUME LayoutInv, Described, NEW p \in Loads
  PROVE  p \in PhdrRecs /\ p.type = "PT_LOAD" /\ Known(p)
<1>1. PICK n \in 1 .. Len(phdrs) : p = phdrs[n]
  BY DEF Loads
<1>2. phdrs[n] \in PhdrRecs /\ (phdrs[n].type = "PT_LOAD" => Known(phdrs[n]))
  BY DEF LayoutInv, LayoutType, PhdrsInv
<1> QED BY <1>1, <1>2 DEF Loads

(* For an image on page boundaries the kernel can map every segment: the   *)
(* file offset compute_plan chose and the address agree within the page,   *)
(* and the finished file has all its bytes.                                *)
THEOREM MappableHolds == ASSUME \A x \in Inputs : OnPages(x) PROVE Spec => []Mappable
<1>1. LayoutInv => Mappable
  <2> SUFFICES ASSUME LayoutInv, Described, NEW p \in Loads
               PROVE  (p.va - p.off) % kPageSize = 0 /\ (pc = "done" => p.off + p.filesz <= out)
    BY DEF Mappable
  <2>0. Known(p) /\ pc \notin {"plan", "place"}
    BY LoadKnown DEF Described
  <2>1. OnPages(in) /\ Sized(in)
    BY InputSized DEF LayoutInv, LayoutType
  <2>2. CASE IsSynth(p)
    <3>1. plan.synth_va = SynthVa(in) /\ plan.synth_va \in Nat
      BY <2>0 DEF LayoutInv, PlanInv, BlobsFit
    <3>2. plan.synth_va % kPageSize = 0
      BY <2>1, <3>1, SynthOnPage
    <3>3. pc = "done" => plan.end <= out
      BY DEF LayoutInv, Reached, Written
    <3>4. plan.end \in Nat
      BY <2>0, Numbers
    <3> QED BY <2>2, <3>1, <3>2, <3>3, <3>4 DEF IsSynth
  <2>3. CASE IsHdr(p)
    <3>1. /\ p.off = sec_cur /\ p.va = in.base /\ p.filesz = in.hdr
          /\ sec_cur % kPageSize = 0 /\ in.base % kPageSize = 0 /\ sec_cur \in Nat /\ in.base \in Nat
      BY <2>0, <2>1, <2>3, Numbers DEF LayoutInv, LayoutType, SectionsInv, HeadersInv, IsHdr, OnPages
    <3>2. pc = "done" => sec_cur + in.hdr <= out
      BY DEF LayoutInv, Reached, Written
    <3> QED BY <3>1, <3>2 DEF kPageSize
  <2>4. ASSUME NEW s \in 1 .. NSecs(in), IsSec(p, s)
        PROVE  (p.va - p.off) % kPageSize = 0 /\ (pc = "done" => p.off + p.filesz <= out)
    <3>1. /\ p.off = foff[s] /\ p.va = in.base + in.secs[s].va /\ p.filesz = in.secs[s].rawsz
      BY <2>4 DEF IsSec
    <3>2. /\ foff[s] \in Nat /\ in.base \in Nat /\ in.secs[s].va \in Nat
      BY <2>0, Numbers
    <3>3. /\ foff[s] % kPageSize = 0 /\ in.base % kPageSize = 0 /\ in.secs[s].va % kPageSize = 0
      BY <2>0, <2>1 DEF LayoutInv, SectionsInv, NPlaced, OnPages
    <3>4. pc = "done" => foff[s] + in.secs[s].rawsz <= out
      BY DEF LayoutInv, Reached, Written, EndOf
    <3> QED BY <3>1, <3>2, <3>3, <3>4 DEF kPageSize
  <2> QED BY <2>0, <2>2, <2>3, <2>4 DEF Known
<1> QED BY <1>1, LayoutAlways, PTL

(* Up to 86 sections the synthetic segment is at most a page longer than   *)
(* the estimate, whatever the sizes of its parts.                          *)
LEMMA EstimateHolds ==
  ASSUME NEW x, Sized(x), NSecs(x) <= MaxSections
  PROVE  Plan(x).end <= Needed(x) + kPageSize /\ Plan(x).end \in Nat /\ Needed(x) \in Nat
<1> DEFINE a1 == align_up(x.interp, 8)
           a2 == align_up(x.dynsym * SymSize, 8)
           a3 == align_up(x.dynstr, 8)
           a4 == align_up(x.hash, 8)
           a5 == align_up(x.rela * RelaSize, 8)
           a6 == align_up(x.dynamic * DynSize, 8)
           n  == NSecs(x)
           est == a1 + a2 + a3 + a4 + a5 + a6 + kTrampolineSize + EhdrSize + kPhdrsMaxCount * PhdrSize
<1>1. /\ x.dynsym * SymSize \in Nat /\ x.rela * RelaSize \in Nat /\ x.dynamic * DynSize \in Nat
      /\ n \in Nat /\ n <= 86
  BY DEF Sized, SymSize, RelaSize, DynSize, MaxSections
<1>2. /\ a1 \in Nat /\ a2 \in Nat /\ a3 \in Nat /\ a4 \in Nat /\ a5 \in Nat /\ a6 \in Nat
  BY <1>1, Align8 DEF Sized
<1>3. HdrFileEnd(x) = 8 * (8 + (7 + n) * 7)
  <2>1. EhdrSize + PhdrsReserved(x) * PhdrSize = 8 * (8 + (7 + n) * 7) /\ 8 + (7 + n) * 7 \in Nat
    BY <1>1 DEF EhdrSize, PhdrsReserved, PhdrSize
  <2> QED BY <2>1, Align8Exact DEF HdrFileEnd
<1>4. Plan(x).end = HdrFileEnd(x) + a1 + a2 + a3 + a4 + a5 + a6 + kTrampolineSize
  BY DEF Plan
<1>5. Needed(x) = align_up(est, kPageSize)
  BY DEF Needed
<1> HIDE DEF a1, a2, a3, a4, a5, a6, n
<1>6. est \in Nat /\ est = a1 + a2 + a3 + a4 + a5 + a6 + 80 + 64 + 1120
  BY <1>2 DEF kTrampolineSize, EhdrSize, kPhdrsMaxCount, PhdrSize
<1> HIDE DEF est
<1>7. Needed(x) \in Nat /\ est <= Needed(x)
  BY <1>5, <1>6, AlignPage
<1>8. HdrFileEnd(x) \in Nat /\ HdrFileEnd(x) <= 64 + 1120 + 4096
  BY <1>1, <1>3
<1> QED BY <1>2, <1>4, <1>6, <1>7, <1>8 DEF kTrampolineSize, kPageSize

\* The memory of p ends before that of q begins.
Before(p, q) == p.va + p.memsz <= q.va /\ q.va % kPageSize = 0

(* Then no page belongs to both. *)
LEMMA BeforeDisjoint ==
  ASSUME NEW p \in PhdrRecs, NEW q \in PhdrRecs, Before(p, q)
  PROVE  Pages(p) \cap Pages(q) = {}
<1>1. /\ p.va \in Int /\ p.memsz \in Int /\ q.va \in Int /\ q.memsz \in Int
      /\ p.va + p.memsz <= q.va /\ q.va % 4096 = 0
  BY DEF PhdrRecs, Before, kPageSize
<1>2. (p.va + p.memsz - 1) \div 4096 < q.va \div 4096
  BY <1>1
<1>3. /\ (p.va + p.memsz - 1) \div 4096 \in Int /\ q.va \div 4096 \in Int /\ p.va \div 4096 \in Int
      /\ (q.va + q.memsz - 1) \div 4096 \in Int
  BY <1>1
<1>4. \A m \in Int : ~(m <= (p.va + p.memsz - 1) \div 4096 /\ q.va \div 4096 <= m)
  BY <1>2, <1>3
<1> QED BY <1>3, <1>4 DEF Pages, kPageSize

(* Segments that describe the same thing are the same. *)
LEMMA SameLoad ==
  ASSUME NEW p \in PhdrRecs, NEW q \in PhdrRecs, p.type = q.type, p.off = q.off, p.va = q.va,
         p.filesz = q.filesz, p.memsz = q.memsz
  PROVE  p = q
  BY DEF PhdrRecs

(* Two segments of a loadable image lie one before the other. *)
LEMMA LoadsOrdered ==
  ASSUME LayoutInv, Described, Loadable(in), NEW p \in Loads, NEW q \in Loads, p # q
  PROVE  Before(p, q) \/ Before(q, p)
<1>0. /\ pc \notin {"plan", "place"} /\ p \in PhdrRecs /\ q \in PhdrRecs
      /\ p.type = q.type /\ Known(p) /\ Known(q)
  BY LoadKnown DEF Described
<1>1. OnPages(in) /\ Ascending(in) /\ SynthRoom(in) /\ Sized(in)
  BY InputSized DEF Loadable, LayoutInv, LayoutType
<1>2. /\ plan.synth_va \in Nat /\ plan.end \in Nat /\ in.base \in Nat /\ align_up(in.hdr, kPageSize) \in Nat
      /\ NSecs(in) \in Nat
      /\ \A s \in 1 .. NSecs(in) : /\ in.secs[s].va \in Nat
                                   /\ Larger(in.secs[s].virtsz, in.secs[s].rawsz) \in Nat
  BY <1>0, Numbers
<1>3. \A s \in 1 .. NSecs(in) : MemEnd(in, s) = in.secs[s].va + Larger(in.secs[s].virtsz, in.secs[s].rawsz)
  BY DEF MemEnd
<1>4. /\ in.base % kPageSize = 0
      /\ \A s \in 1 .. NSecs(in) : (in.base + in.secs[s].va) % kPageSize = 0
  BY <1>1, <1>2 DEF OnPages, kPageSize
<1>5. plan.synth_va % kPageSize = 0 /\ plan.synth_va = SynthVa(in) /\ plan.end = Plan(in).end
  BY <1>0, <1>1, SynthOnPage DEF LayoutInv, PlanInv, BlobsFit
<1>6. ASSUME NEW a, NEW b, IsSynth(a), IsHdr(b) \/ \E s \in 1 .. NSecs(in) : IsSec(b, s)
      PROVE  Before(a, b) \/ Before(b, a)
  <2>1. CASE in.base >= Needed(in) + kSynthMargin
    <3>1. plan.end <= Needed(in) + kPageSize /\ Needed(in) \in Nat
      BY <1>1, <1>5, EstimateHolds DEF SynthRoom
    <3>2. plan.synth_va + plan.end <= in.base
      BY <1>2, <1>5, <2>1, <3>1 DEF SynthVa, kPageSize, kSynthMargin
    <3>3. CASE IsHdr(b)
      BY <1>4, <1>6, <3>2, <3>3 DEF IsHdr, IsSynth, Before
    <3>4. ASSUME NEW s \in 1 .. NSecs(in), IsSec(b, s) PROVE Before(a, b)
      <4>1. plan.synth_va + plan.end <= in.base + in.secs[s].va
        BY <1>2, <3>2
      <4> QED BY <1>4, <1>6, <3>4, <4>1 DEF IsSec, IsSynth, Before
    <3> QED BY <1>6, <3>3, <3>4
  <2>2. CASE ~(in.base >= Needed(in) + kSynthMargin)
    <3>0. in.base < Needed(in) + kSynthMargin
      BY <1>1, <1>2, <2>2, SynthOnPage DEF kSynthMargin
    <3>1. plan.synth_va = kSynthFallbackVa
      BY <1>5, <3>0 DEF SynthVa
    <3>3. CASE IsHdr(b)
      BY <1>1, <1>5, <1>6, <3>0, <3>1, <3>3 DEF SynthRoom, IsHdr, IsSynth, Before
    <3>4. ASSUME NEW s \in 1 .. NSecs(in), IsSec(b, s) PROVE Before(b, a)
      <4>1. in.base + MemEnd(in, s) <= plan.synth_va
        BY <1>1, <3>0, <3>1 DEF SynthRoom
      <4>2. (in.base + in.secs[s].va) + Larger(in.secs[s].virtsz, in.secs[s].rawsz) <= plan.synth_va
        BY <1>2, <1>3, <4>1
      <4> QED BY <1>5, <1>6, <3>4, <4>2 DEF IsSec, IsSynth, Before
    <3> QED BY <1>6, <3>3, <3>4
  <2> QED BY <2>1, <2>2
<1>7. ASSUME NEW a, NEW b, IsHdr(a), NEW s \in 1 .. NSecs(in), IsSec(b, s)
      PROVE  Before(a, b)
  <2>1. in.base + align_up(in.hdr, kPageSize) <= in.base + in.secs[s].va
    BY <1>1, <1>2 DEF Ascending
  <2> QED BY <1>4, <1>7, <2>1 DEF IsHdr, IsSec, Before
<1>8. ASSUME NEW a, NEW b, NEW s \in 1 .. NSecs(in), NEW u \in 1 .. NSecs(in), IsSec(a, s), IsSec(b, u), s < u
      PROVE  Before(a, b)
  <2>1. MemEnd(in, s) <= in.secs[u].va
    BY <1>1, <1>8 DEF Ascending
  <2>2. (in.base + in.secs[s].va) + Larger(in.secs[s].virtsz, in.secs[s].rawsz) <= in.base + in.secs[u].va
    BY <1>2, <1>3, <2>1
  <2> QED BY <1>4, <1>8, <2>2 DEF IsSec, Before
<1>9. ~(IsSynth(p) /\ IsSynth(q)) /\ ~(IsHdr(p) /\ IsHdr(q))
  BY <1>0, SameLoad DEF IsSynth, IsHdr
<1>10. \A s \in 1 .. NSecs(in) : ~(IsSec(p, s) /\ IsSec(q, s))
  BY <1>0, SameLoad DEF IsSec
<1>11. CASE IsSynth(p) \/ IsSynth(q)
  BY <1>0, <1>6, <1>9, <1>11 DEF Known
<1>12. CASE IsHdr(p) \/ IsHdr(q)
  BY <1>0, <1>6, <1>7, <1>9, <1>12 DEF Known
<1>13. ASSUME NEW s \in 1 .. NSecs(in), NEW u \in 1 .. NSecs(in), IsSec(p, s), IsSec(q, u)
       PROVE  Before(p, q) \/ Before(q, p)
  <2>1. s < u \/ u < s
    <3>1. s # u
      BY <1>10, <1>13
    <3> QED BY <1>2, <3>1
  <2> QED BY <1>8, <1>13, <2>1
<1> QED BY <1>0, <1>11, <1>12, <1>13 DEF Known

(* For every image of up to 86 sections, in ascending order on page        *)
(* boundaries, that leaves the synthetic segment room: no two segments     *)
(* share a page, although the room was estimated for 20 program headers.   *)
THEOREM LoadsDisjointHolds == ASSUME \A x \in Inputs : Loadable(x) PROVE Spec => []LoadsDisjoint
<1>1. LayoutInv => LoadsDisjoint
  <2> SUFFICES ASSUME LayoutInv, Described, NEW p \in Loads, NEW q \in Loads, p # q
               PROVE  Pages(p) \cap Pages(q) = {}
    BY DEF LoadsDisjoint
  <2>1. Loadable(in) /\ p \in PhdrRecs /\ q \in PhdrRecs
    BY LoadKnown DEF LayoutInv, LayoutType
  <2>2. Before(p, q) \/ Before(q, p)
    BY <2>1, LoadsOrdered
  <2>3. CASE Before(p, q)
    BY <2>1, <2>3, BeforeDisjoint
  <2>4. CASE Before(q, p)
    <3>1. Pages(q) \cap Pages(p) = {}
      BY <2>1, <2>4, BeforeDisjoint
    <3> QED BY <3>1
  <2> QED BY <2>2, <2>3, <2>4
<1> QED BY <1>1, LayoutAlways, PTL
=============================================================================
