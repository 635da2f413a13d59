--------------------------- MODULE ServicesProofs ---------------------------
(***************************************************************************)
(* Proofs about the services, for any threads, handlers, entries, pages    *)
(* and sizes:                                                              *)
(*                                                                         *)
(*   - VirtualFree takes the pages of the region it is given and no others *)
(*     (RegionsIntact);                                                    *)
(*   - the list of vectored handlers is sound (ListIntact);                *)
(*   - msvcrt_qsort sorts (Sorts) within its stack (StackBounded), for     *)
(*     arrays of any size and any CUTOFF;                                  *)
(*   - MoveFileEx does what AtomicMove promises (ImplementsAtomicMove);    *)
(*   - the program gets whole characters (WholeCharacters), and paths come *)
(*     back as they were (PathSurvives).                                   *)
(*                                                                         *)
(* Each has an invariant of its own, since the services share nothing.     *)
(* Recursive functions are reasoned about by the least number for which a  *)
(* statement about them fails (LeastNumber).                               *)
(***************************************************************************)
EXTENDS Services, SequenceTheorems, FiniteSetTheorems, WellFoundedInduction, TLAPS

(* Every set of naturals has a least element: induction is by this lemma.  *)
LEMMA LeastNumber ==
  ASSUME NEW T \in SUBSET Nat, T # {}
  PROVE  \E x \in T : \A y \in T : x <= y
  <1> DEFINE R == {ss \in Nat \X Nat : ss[1] < ss[2]}
  <1>1. IsWellFoundedOn(R, Nat)
    BY NatLessThanWellFounded DEF OpToRel
  <1>2. PICK x \in T : \A y \in T : ~(<<y, x>> \in R)
    <2> HIDE DEF R
    <2> QED BY <1>1, WFMin
  <1>3. \A y \in T : ~(y < x)
    BY <1>2
  <1> QED BY <1>3

-----------------------------------------------------------------------------
(* Virtual memory.  The table has the size of every region the program     *)
(* has.  Outside what was mixed up, a page is owned by the base whose      *)
(* region, or whose call, covers it, and a call at a base without a region *)
(* is the only one there; what covers a mixed page is mixed altogether.    *)

CallType == [at : {"idle", "add", "unmap"}, base : 0 .. MaxPage, size : Nat]

Busy(t) == call[t].at # "idle"

MemType ==
  /\ owner \in [Pages -> {Unmapped} \cup 0 .. MaxPage]
  /\ table \in [Pages -> Nat] /\ regions \in [Pages -> Nat]
  /\ call \in [Callers -> CallType]
  /\ libc \subseteq Pages /\ mixed \subseteq Pages
  /\ \A t \in Callers : IF Busy(t) THEN call[t].base \in Pages /\ call[t].size > 0 ELSE call[t].base = 0

\* What mmap_track_remove will return is the size of the region.
SizesTracked == table = regions

\* Page p is in the region at base, or in the one a call makes or takes away there.
Covered(p, base) ==
  /\ base <= p
  /\ \/ p < base + regions[base]
     \/ \E t \in Callers : call[t].base = base /\ p < base + call[t].size

PagesOwned == \A base, p \in Pages : p \notin mixed => (owner[p] = base <=> Covered(p, base))

LibcKept == \A p \in Pages \ mixed : owner[p] = Libc <=> p \in libc

\* A call is at work on a region of the program, or alone at its base.
CallsApart == \A t \in Callers : Busy(t) /\ call[t].base \notin mixed =>
  \/ call[t].at = "add" /\ regions[call[t].base] > 0
  \/ regions[call[t].base] = 0 /\ \A u \in Callers \ {t} : call[u].base # call[t].base

\* What is mixed up does not reach beyond mixed.
MixedClosed ==
  /\ \A base, p \in Pages : Covered(p, base) => (p \in mixed <=> base \in mixed)
  /\ \A p \in mixed : owner[p] \in Pages => owner[p] \in mixed

MemInv == MemType /\ SizesTracked /\ PagesOwned /\ LibcKept /\ CallsApart /\ MixedClosed

(* Facts of the constants, for the provers. *)
LEMMA PageFacts ==
  /\ MaxPage \in Nat /\ MaxRegion \in Nat /\ Unmapped \notin Pages /\ Libc \notin Pages /\ Unmapped # Libc
  /\ Pages = 1 .. MaxPage /\ Pages \subseteq Nat /\ Pages \subseteq 0 .. MaxPage
  /\ Libc \in 0 .. MaxPage /\ Unmapped \notin 0 .. MaxPage
  BY MemoryAssumption DEF Pages, Libc

(* A base that covers anything covers itself. *)
LEMMA CoveredBase ==
  ASSUME MemType, NEW b \in Pages, NEW p \in Pages, Covered(p, b)
  PROVE  Covered(b, b)
  <1> USE PageFacts
  <1>1. regions[b] \in Nat /\ \A t \in Callers : call[t].size \in Nat
    BY DEF MemType, CallType
  <1>2. CASE p < b + regions[b]
    <2>1. b < b + regions[b]
      BY <1>1, <1>2 DEF Covered
    <2> QED BY <2>1 DEF Covered
  <1>3. CASE \E t \in Callers : call[t].base = b /\ p < b + call[t].size
    <2>1. PICK t \in Callers : call[t].base = b /\ p < b + call[t].size
      BY <1>3
    <2>2. b < b + call[t].size
      BY <1>1, <2>1 DEF Covered
    <2> QED BY <2>1, <2>2 DEF Covered
  <1> QED BY <1>2, <1>3 DEF Covered

(* The pages of a base are those it covers. *)
LEMMA ExtentIs ==
  ASSUME MemType, NEW b \in Pages, NEW p \in Pages
  PROVE  p \in Extent(b) <=> Covered(p, b)
  <1> USE PageFacts
  <1>1. regions[b] \in Nat /\ \A t \in Callers : call[t].size \in Nat
    BY DEF MemType, CallType
  <1>2. p \in Span(b, regions[b]) <=> b <= p /\ p < b + regions[b]
    BY <1>1 DEF Span
  <1>3. \A t \in Callers : p \in Span(b, call[t].size) <=> b <= p /\ p < b + call[t].size
    BY <1>1 DEF Span
  <1> QED BY <1>2, <1>3 DEF Extent, Covered

(* The initial state satisfies the invariant. *)
LEMMA MemInvInit == MemInit => MemInv
  <1> SUFFICES ASSUME MemInit PROVE MemInv
    OBVIOUS
  <1>1. \A t \in Callers : ~Busy(t) /\ call[t].base = 0 /\ call[t].size = 0
    BY DEF MemInit, Busy, NoCall
  <1>2. MemType
    BY <1>1, PageFacts DEF MemInit, MemType, NoCall, CallType
  <1>3. \A base, p \in Pages : ~Covered(p, base) /\ owner[p] = Unmapped
    BY <1>1, PageFacts DEF MemInit, Covered
  <1> QED BY <1>1, <1>2, <1>3, PageFacts DEF MemInit, MemInv, SizesTracked, PagesOwned, LibcKept, CallsApart, MixedClosed

(* What VirtualAlloc does to the owner of a page. *)
LEMMA AllocOwner ==
  ASSUME NEW t, NEW base \in Pages, NEW n \in 1 .. MaxRegion, VirtualAlloc(t, base, n), NEW p \in Pages
  PROVE  owner'[p] = IF base <= p /\ p < base + n THEN base ELSE owner[p]
  <1>1. p \in Span(base, n) <=> base <= p /\ p < base + n
    BY PageFacts DEF Span
  <1>2. Maps(base, n)
    BY Zenon DEF VirtualAlloc
  <1>3. owner'[p] = IF p \in Span(base, n) THEN base ELSE owner[p]
    BY <1>2 DEF Maps
  <1> QED BY <1>1, <1>3

(* ... to the calls and to the types. *)
LEMMA AllocPages ==
  ASSUME MemInv, NEW t \in Callers, NEW base \in Pages, NEW n \in 1 .. MaxRegion, VirtualAlloc(t, base, n)
  PROVE  /\ MemType' /\ SizesTracked'
         /\ call'[t] = [at |-> "add", base |-> base, size |-> n]
         /\ \A u \in Callers \ {t} : call'[u] = call[u]
         /\ call[t].base = 0
  <1> USE PageFacts
  <1>1. /\ ~Busy(t) /\ call[t].base = 0
        /\ call'[t] = [at |-> "add", base |-> base, size |-> n]
        /\ \A u \in Callers \ {t} : call'[u] = call[u]
        /\ table' = table /\ regions' = regions /\ libc' = libc
    BY DEF VirtualAlloc, Enter, Busy, MemInv, MemType
  <1>2. n \in Nat /\ n > 0 /\ Span(base, n) \subseteq Pages
    BY DEF VirtualAlloc
  <1>11. Maps(base, n)
    BY Zenon DEF VirtualAlloc
  <1>4. mixed' \subseteq Pages
    <2>1. Involved(Span(base, n)) \subseteq Pages
      BY <1>2 DEF Involved, Extent
    <2>2. mixed' \subseteq mixed \cup Involved(Span(base, n))
      BY DEF VirtualAlloc
    <2>3. mixed \subseteq Pages
      BY DEF MemInv, MemType
    <2> QED BY <2>1, <2>2, <2>3
  <1>5. owner' \in [Pages -> {Unmapped} \cup 0 .. MaxPage]
    <2>1. \A p \in Pages : (IF p \in Span(base, n) THEN base ELSE owner[p]) \in {Unmapped} \cup 0 .. MaxPage
      BY DEF MemInv, MemType
    <2>2. owner' = [p \in Pages |-> IF p \in Span(base, n) THEN base ELSE owner[p]]
      BY <1>11 DEF Maps
    <2> QED BY <2>1, <2>2, Zenon
  <1>6. call' \in [Callers -> CallType]
    BY <1>2 DEF VirtualAlloc, Enter, MemInv, MemType, CallType
  <1>7. \A u \in Callers : IF Busy(u)' THEN call'[u].base \in Pages /\ call'[u].size > 0 ELSE call'[u].base = 0
    BY <1>1, <1>2 DEF Busy, MemInv, MemType
  <1>8. MemType' /\ SizesTracked'
    BY <1>1, <1>4, <1>5, <1>6, <1>7 DEF MemInv, MemType, SizesTracked
  <1> QED BY <1>1, <1>8

(* ... and to the pages that a base covers. *)
LEMMA AllocCovered ==
  ASSUME MemInv, NEW t \in Callers, NEW base \in Pages, NEW n \in 1 .. MaxRegion, VirtualAlloc(t, base, n),
         NEW b \in Pages, NEW p \in Pages
  PROVE  Covered(p, b)' <=> Covered(p, b) \/ (b = base /\ base <= p /\ p < base + n)
  <1> USE PageFacts
  <1>0. /\ call'[t] = [at |-> "add", base |-> base, size |-> n]
        /\ \A u \in Callers \ {t} : call'[u] = call[u]
        /\ call[t].base = 0
    BY DEF VirtualAlloc, Enter, Busy, MemInv, MemType
  <1>1. call[t].base # b /\ regions' = regions
    BY <1>0 DEF VirtualAlloc
  <1>2. (\E u \in Callers : call'[u].base = b /\ p < b + call'[u].size)
          <=> (base = b /\ p < b + n) \/ \E u \in Callers : call[u].base = b /\ p < b + call[u].size
    BY <1>0, <1>1
  <1> QED BY <1>1, <1>2 DEF Covered

(* mmap of pages that nobody has, or of a region of the program and pages  *)
(* behind it: nothing else had them.                                       *)
LEMMA MemInvAllocInOrder ==
  ASSUME MemInv, NEW t \in Callers, NEW base \in Pages, NEW n \in 1 .. MaxRegion, VirtualAlloc(t, base, n), NobodyElses(base, n)
  PROVE  MemInv'
  <1> USE PageFacts
  <1> DEFINE Asked(p) == base <= p /\ p < base + n
  <1>0. MemType
    BY DEF MemInv
  <1>1. /\ MemType' /\ SizesTracked'
        /\ call'[t] = [at |-> "add", base |-> base, size |-> n]
        /\ \A u \in Callers \ {t} : call'[u] = call[u]
        /\ call[t].base = 0
    BY AllocPages
  <1>2. \A p \in Pages : owner'[p] = IF Asked(p) THEN base ELSE owner[p]
    BY AllocOwner
  <1>3. ASSUME NEW b \in Pages, NEW p \in Pages
        PROVE  Covered(p, b)' <=> Covered(p, b) \/ (b = base /\ Asked(p))
    BY AllocCovered
  <1>4. mixed' = mixed /\ regions' = regions /\ libc' = libc
    BY DEF VirtualAlloc
  <1>5. \A p \in Pages : Asked(p) => p \in Span(base, n)
    BY DEF Span
  <1>6. \A p \in Pages : Asked(p) => p \notin mixed
    BY <1>5 DEF NobodyElses
  <1>7. \/ \A p \in Pages : Asked(p) => owner[p] = Unmapped
        \/ regions[base] > 0 /\ \A p \in Pages : Asked(p) => owner[p] \in {Unmapped, base}
    BY <1>5 DEF NobodyElses
  <1>8. Asked(base)
    OBVIOUS
  <1> HIDE DEF Asked
  <1>9. \A b, p \in Pages : Asked(p) /\ b # base => ~Covered(p, b) /\ owner[p] # b
    BY <1>6, <1>7 DEF MemInv, PagesOwned
  <1>10. \A p \in Pages : Asked(p) => p \notin libc
    BY <1>6, <1>7 DEF MemInv, LibcKept
  <1>11. regions[base] > 0 \/ (regions[base] = 0 /\ \A u \in Callers : call[u].base # base)
    <2>1. SUFFICES ASSUME \A p \in Pages : Asked(p) => owner[p] = Unmapped
                   PROVE  regions[base] = 0 /\ \A u \in Callers : call[u].base # base
      BY <1>7
    <2>2. ~Covered(base, base)
      BY <1>6, <1>8, <2>1 DEF MemInv, PagesOwned
    <2>3. regions[base] \in Nat
      BY <1>0 DEF MemType
    <2>4. regions[base] = 0
      BY <2>2, <2>3 DEF Covered
    <2>5. ASSUME NEW u \in Callers, call[u].base = base PROVE FALSE
      <3>1. call[u].size \in Nat /\ call[u].size > 0
        BY <1>0, <2>5 DEF MemType, CallType
      <3>2. base < base + call[u].size
        BY <3>1
      <3> QED BY <2>2, <2>5, <3>2 DEF Covered
    <2> QED BY <2>4, <2>5
  <1>12. PagesOwned'
    BY <1>2, <1>3, <1>4, <1>9 DEF MemInv, PagesOwned
  <1>13. LibcKept'
    BY <1>2, <1>4, <1>10 DEF MemInv, LibcKept
  <1>14. CallsApart'
    <2> SUFFICES ASSUME NEW u \in Callers, Busy(u)', call'[u].base \notin mixed
                 PROVE  \/ call'[u].at = "add" /\ regions[call'[u].base] > 0
                        \/ /\ regions[call'[u].base] = 0
                           /\ \A v \in Callers \ {u} : call'[v].base # call'[u].base
      BY <1>4 DEF CallsApart
    <2>1. CASE u = t
      BY <1>1, <1>11, <2>1
    <2>2. CASE u # t
      <3>1. call'[u] = call[u] /\ Busy(u)
        BY <1>1, <2>2 DEF Busy
      <3>2. \/ call[u].at = "add" /\ regions[call[u].base] > 0
            \/ regions[call[u].base] = 0 /\ \A v \in Callers \ {u} : call[v].base # call[u].base
        BY <3>1 DEF MemInv, CallsApart
      <3> QED BY <1>1, <1>11, <2>2, <3>1, <3>2
    <2> QED BY <2>1, <2>2
  <1>15. MixedClosed'
    <2>1. ASSUME NEW b \in Pages, NEW p \in Pages, Covered(p, b)' PROVE p \in mixed <=> b \in mixed
      BY <1>3, <1>6, <1>8, <2>1 DEF MemInv, MixedClosed
    <2>2. ASSUME NEW p \in mixed, owner'[p] \in Pages PROVE owner'[p] \in mixed
      <3>1. p \in Pages /\ ~Asked(p)
        BY <1>0, <1>6 DEF MemType
      <3> QED BY <1>2, <2>2, <3>1 DEF MemInv, MixedClosed
    <2> QED BY <1>4, <2>1, <2>2 DEF MixedClosed
  <1> QED BY <1>1, <1>12, <1>13, <1>14, <1>15 DEF MemInv

(* An address in use: all that had any of the pages is mixed from then on, *)
(* and nothing else is touched.                                            *)
LEMMA MemInvAllocMixes ==
  ASSUME MemInv, NEW t \in Callers, NEW base \in Pages, NEW n \in 1 .. MaxRegion, VirtualAlloc(t, base, n), ~NobodyElses(base, n)
  PROVE  MemInv'
  <1> USE PageFacts
  <1> DEFINE Asked(p) == base <= p /\ p < base + n
             Drawn(p) == \E b \in Pages : Covered(p, b) /\ \E q \in Pages : Covered(q, b) /\ Asked(q)
  <1>0. MemType /\ PagesOwned /\ MixedClosed
    BY DEF MemInv
  <1>1. /\ MemType' /\ SizesTracked'
        /\ call'[t] = [at |-> "add", base |-> base, size |-> n]
        /\ \A u \in Callers \ {t} : call'[u] = call[u]
    BY AllocPages
  <1>2. \A p \in Pages : owner'[p] = IF Asked(p) THEN base ELSE owner[p]
    BY AllocOwner
  <1>3. ASSUME NEW b \in Pages, NEW p \in Pages
        PROVE  Covered(p, b)' <=> Covered(p, b) \/ (b = base /\ Asked(p))
    BY AllocCovered
  <1>4. regions' = regions /\ libc' = libc /\ mixed' = mixed \cup Involved(Span(base, n)) /\ Span(base, n) \subseteq Pages
    BY DEF VirtualAlloc
  <1>5. \A p \in Pages : p \in Span(base, n) <=> Asked(p)
    BY DEF Span
  <1>6. Asked(base)
    OBVIOUS
  <1> HIDE DEF Asked
  <1>7. \A p \in Pages : p \in mixed' <=> p \in mixed \/ Asked(p) \/ Drawn(p)
    <2>1. \A b \in Pages : Extent(b) \subseteq Pages /\ \A p \in Pages : p \in Extent(b) <=> Covered(p, b)
      BY <1>0, ExtentIs DEF Extent
    <2>2. \A b \in Pages : Extent(b) \cap Span(base, n) # {} <=> \E q \in Pages : Covered(q, b) /\ Asked(q)
      BY <1>4, <1>5, <2>1
    <2>3. \A p \in Pages : p \in Involved(Span(base, n)) <=> Asked(p) \/ Drawn(p)
      <3> SUFFICES ASSUME NEW p \in Pages PROVE p \in Involved(Span(base, n)) <=> Asked(p) \/ Drawn(p)
        OBVIOUS
      <3>1. p \in Involved(Span(base, n))
              <=> p \in Span(base, n) \/ \E b \in Pages : Extent(b) \cap Span(base, n) # {} /\ p \in Extent(b)
        BY Zenon DEF Involved
      <3>2. (\E b \in Pages : Extent(b) \cap Span(base, n) # {} /\ p \in Extent(b)) <=> Drawn(p)
        BY <2>1, <2>2
      <3> QED BY <1>5, <3>1, <3>2
    <2> QED BY <1>4, <2>3
  <1>8. \A b, p \in Pages : Covered(p, b) => Covered(b, b)
    BY <1>0, CoveredBase
  <1>9. \A p \in Pages : p \notin mixed' => ~Asked(p) /\ p \notin mixed
    BY <1>7
  <1>10. PagesOwned'
    BY <1>0, <1>2, <1>3, <1>9 DEF PagesOwned
  <1>11. LibcKept'
    BY <1>2, <1>4, <1>9 DEF MemInv, LibcKept
  <1>12. base \in mixed'
    BY <1>6, <1>7
  <1>13. CallsApart'
    <2> SUFFICES ASSUME NEW u \in Callers, Busy(u)', call'[u].base \notin mixed'
                 PROVE  \/ call'[u].at = "add" /\ regions[call'[u].base] > 0
                        \/ /\ regions[call'[u].base] = 0
                           /\ \A v \in Callers \ {u} : call'[v].base # call'[u].base
      BY <1>4 DEF CallsApart
    <2>1. u # t /\ call'[u] = call[u] /\ Busy(u) /\ call[u].base # base
      BY <1>1, <1>12 DEF Busy
    <2>2. call[u].base \notin mixed
      BY <1>4, <2>1
    <2>3. \/ call[u].at = "add" /\ regions[call[u].base] > 0
          \/ regions[call[u].base] = 0 /\ \A v \in Callers \ {u} : call[v].base # call[u].base
      BY <2>1, <2>2 DEF MemInv, CallsApart
    <2> QED BY <1>1, <2>1, <2>3
  <1>14. \A b, p \in Pages : p \notin mixed /\ Covered(p, b) => owner[p] = b
    BY <1>0 DEF PagesOwned
  <1>15. MixedClosed'
    <2>1. ASSUME NEW b \in Pages, NEW p \in Pages, Covered(p, b)' PROVE p \in mixed' <=> b \in mixed'
      <3>1. CASE b = base
        <4>1. Asked(p) \/ Drawn(p)
          BY <1>3, <1>6, <1>8, <2>1, <3>1
        <4> QED BY <1>7, <1>12, <3>1, <4>1
      <3>2. CASE b # base
        <4>1. Covered(p, b) /\ Covered(b, b)
          BY <1>3, <1>8, <2>1, <3>2
        <4>2. p \in mixed <=> b \in mixed
          BY <1>0, <4>1 DEF MixedClosed
        <4>3. ASSUME p \notin mixed PROVE Asked(p) \/ Drawn(p) <=> \E q \in Pages : Covered(q, b) /\ Asked(q)
          BY <1>14, <4>1, <4>3
        <4>4. ASSUME b \notin mixed PROVE Asked(b) \/ Drawn(b) <=> \E q \in Pages : Covered(q, b) /\ Asked(q)
          BY <1>14, <4>1, <4>4
        <4> HIDE DEF Drawn
        <4> QED BY <1>7, <4>2, <4>3, <4>4
      <3> QED BY <3>1, <3>2
    <2>2. ASSUME NEW p \in mixed', owner'[p] \in Pages PROVE owner'[p] \in mixed'
      <3>1. p \in Pages
        BY <1>1 DEF MemType
      <3>2. CASE Asked(p)
        BY <1>2, <1>12, <3>1, <3>2
      <3>3. CASE ~Asked(p) /\ p \in mixed
        <4>1. owner'[p] = owner[p] /\ owner[p] \in mixed
          BY <1>0, <1>2, <2>2, <3>1, <3>3 DEF MixedClosed
        <4> QED BY <1>4, <4>1
      <3>4. CASE ~Asked(p) /\ p \notin mixed
        <4>1. Drawn(p)
          BY <1>7, <3>1, <3>4
        <4>2. PICK b \in Pages : Covered(p, b) /\ \E q \in Pages : Covered(q, b) /\ Asked(q)
          BY <4>1
        <4>3. owner'[p] = b /\ Drawn(b)
          BY <1>2, <1>8, <1>14, <3>1, <3>4, <4>2
        <4> QED BY <1>7, <4>3
      <3> QED BY <3>2, <3>3, <3>4
    <2> QED BY <2>1, <2>2 DEF MixedClosed
  <1> QED BY <1>1, <1>10, <1>11, <1>13, <1>15 DEF MemInv

(* The pages of a call are unmapped, and the call returns.  Unless it is   *)
(* mixed up with others, only pages of its base lose their owner.          *)
LEMMA MemInvUnmapped ==
  ASSUME MemInv, NEW t \in Callers, Busy(t),
         call[t].base \notin mixed =>
           regions[call[t].base] = 0 /\ \A u \in Callers \ {t} : call[u].base # call[t].base,
         Unmaps(call[t].base, call[t].size), Leave(t), UNCHANGED <<table, regions, libc, mixed>>
  PROVE  MemInv'
  <1> USE PageFacts
  <1>0. PICK b \in Pages, n \in Nat : b = call[t].base /\ n = call[t].size
    BY DEF MemInv, MemType, CallType
  <1> DEFINE Own(p) == b <= p /\ p < b + n
  <1>1. MemType /\ PagesOwned /\ MixedClosed
    BY DEF MemInv
  <1>2. /\ call' \in [Callers -> CallType] /\ ~Busy(t)' /\ call'[t].base = 0
        /\ \A u \in Callers \ {t} : call'[u] = call[u]
    BY <1>1 DEF Leave, NoCall, Busy, MemType, CallType
  <1>3. \A p \in Pages : owner'[p] = IF Own(p) THEN Unmapped ELSE owner[p]
    BY <1>0 DEF Unmaps, Span
  <1>4. MemType' /\ SizesTracked'
    <2>1. owner' \in [Pages -> {Unmapped} \cup 0 .. MaxPage]
      BY <1>1 DEF Unmaps, MemType
    <2>2. \A u \in Callers : IF Busy(u)' THEN call'[u].base \in Pages /\ call'[u].size > 0 ELSE call'[u].base = 0
      BY <1>1, <1>2 DEF MemType, Busy
    <2> QED BY <1>1, <1>2, <2>1, <2>2 DEF MemInv, MemType, SizesTracked
  <1>5. \A p \in Pages : Own(p) => Covered(p, b)
    BY <1>0 DEF Covered
  <1>6. \A x, p \in Pages : Covered(p, x)' => Covered(p, x)
    <2> SUFFICES ASSUME NEW x \in Pages, NEW p \in Pages, Covered(p, x)' PROVE Covered(p, x)
      OBVIOUS
    <2>1. x <= p /\ (p < x + regions[x] \/ \E u \in Callers : call'[u].base = x /\ p < x + call'[u].size)
      BY DEF Covered
    <2>2. ~(call'[t].base = x)
      BY <1>2
    <2> QED BY <1>2, <2>1, <2>2 DEF Covered
  <1>7. \A x, p \in Pages : x # b /\ Covered(p, x) => Covered(p, x)'
    <2> SUFFICES ASSUME NEW x \in Pages, NEW p \in Pages, x # b, Covered(p, x) PROVE Covered(p, x)'
      OBVIOUS
    <2> QED BY <1>0, <1>2 DEF Covered
  <1>8. b \notin mixed => \A p \in Pages : (Covered(p, b) <=> Own(p)) /\ ~Covered(p, b)'
    <2> SUFFICES ASSUME b \notin mixed, NEW p \in Pages PROVE (Covered(p, b) <=> Own(p)) /\ ~Covered(p, b)'
      OBVIOUS
    <2>1. regions[b] = 0 /\ \A u \in Callers \ {t} : call[u].base # b
      BY <1>0
    <2>2. \A u \in Callers : call'[u].base # b
      BY <1>2, <2>1
    <2>3. ~(b <= p /\ p < b + 0)
      OBVIOUS
    <2>4. ~Covered(p, b)'
      BY <2>1, <2>2, <2>3 DEF Covered
    <2>5. Covered(p, b) <=> Own(p)
      BY <1>0, <2>1, <2>3 DEF Covered
    <2> QED BY <2>4, <2>5
  <1>9. \A p \in Pages : p \notin mixed /\ Own(p) => owner[p] = b
    BY <1>1, <1>5 DEF PagesOwned
  <1>10. b \in mixed => \A p \in Pages : Covered(p, b) => p \in mixed
    BY <1>1 DEF MixedClosed
  <1> HIDE DEF Own
  <1>11. PagesOwned'
    <2> SUFFICES ASSUME NEW x \in Pages, NEW p \in Pages, p \notin mixed PROVE owner'[p] = x <=> Covered(p, x)'
      BY DEF PagesOwned
    <2>1. owner[p] = x <=> Covered(p, x)
      BY <1>1 DEF PagesOwned
    <2>2. CASE x = b
      BY <1>3, <1>5, <1>6, <1>8, <1>10, <2>1, <2>2
    <2>3. CASE x # b
      BY <1>3, <1>6, <1>7, <1>9, <2>1, <2>3
    <2> QED BY <2>2, <2>3
  <1>12. LibcKept'
    BY <1>3, <1>9 DEF MemInv, LibcKept
  <1>13. CallsApart'
    <2> SUFFICES ASSUME NEW u \in Callers \ {t}, Busy(u), call[u].base \notin mixed
                 PROVE  \/ call[u].at = "add" /\ regions[call[u].base] > 0
                        \/ /\ regions[call[u].base] = 0
                           /\ \A v \in Callers \ {u} : call'[v].base # call[u].base
      BY <1>2 DEF CallsApart, Busy
    <2>1. call[u].base \in Pages
      BY <1>1 DEF MemType
    <2>2. \/ call[u].at = "add" /\ regions[call[u].base] > 0
          \/ regions[call[u].base] = 0 /\ \A v \in Callers \ {u} : call[v].base # call[u].base
      BY DEF MemInv, CallsApart
    <2> QED BY <1>2, <2>1, <2>2
  <1>14. MixedClosed'
    <2>1. \A x, p \in Pages : Covered(p, x)' => (p \in mixed <=> x \in mixed)
      BY <1>1, <1>6 DEF MixedClosed
    <2>2. \A p \in mixed : owner'[p] \in Pages => owner'[p] \in mixed
      BY <1>1, <1>3 DEF MixedClosed, MemType
    <2> QED BY <2>1, <2>2 DEF MixedClosed
  <1> QED BY <1>4, <1>11, <1>12, <1>13, <1>14 DEF MemInv

(* A step that leaves the pages of every base as they are. *)
LEMMA MemInvSame ==
  ASSUME MemInv, MemType', SizesTracked', CallsApart', UNCHANGED <<owner, libc, mixed>>,
         \A x, p \in Pages : Covered(p, x)' <=> Covered(p, x)
  PROVE  MemInv'
  BY DEF MemInv, PagesOwned, LibcKept, MixedClosed

(* mmap_track_add: the base becomes a region or the region grows; without  *)
(* memory the pages are unmapped.                                          *)
LEMMA MemInvTrackAdd ==
  ASSUME MemInv, NEW t \in Callers, TrackAdd(t)
  PROVE  MemInv'
  <1> USE PageFacts
  <1>0. PICK b \in Pages, n \in Nat : b = call[t].base /\ n = call[t].size
    BY DEF TrackAdd, Busy, MemInv, MemType, CallType
  <1>1. /\ call[t].at = "add" /\ Busy(t) /\ n > 0 /\ regions[b] \in Nat
        /\ MemType /\ table = regions
    BY <1>0 DEF TrackAdd, Busy, MemInv, MemType, SizesTracked
  <1>2. /\ call' \in [Callers -> CallType] /\ ~Busy(t)' /\ call'[t].base = 0
        /\ \A u \in Callers \ {t} : call'[u] = call[u]
    BY <1>1 DEF TrackAdd, Leave, NoCall, Busy, MemType, CallType
  <1>3. CASE /\ table' = [table EXCEPT ![b] = Tracked(b, n)]
             /\ regions' = [regions EXCEPT ![b] = IF n > @ THEN n ELSE @]
             /\ owner' = owner
    <2> DEFINE r == IF n > regions[b] THEN n ELSE regions[b]
    <2>1. regions' = [regions EXCEPT ![b] = r] /\ table' = [regions EXCEPT ![b] = r] /\ r \in Nat
      BY <1>1, <1>3 DEF Tracked
    <2>2. r > 0 /\ \A p \in Pages : p < b + r <=> p < b + regions[b] \/ p < b + n
      BY <1>1
    <2> HIDE DEF r
    <2>3. regions' \in [Pages -> Nat] /\ regions'[b] = r /\ \A x \in Pages \ {b} : regions'[x] = regions[x]
      BY <1>1, <2>1 DEF MemType
    <2>4. MemType' /\ SizesTracked'
      <3>1. \A u \in Callers : IF Busy(u)' THEN call'[u].base \in Pages /\ call'[u].size > 0 ELSE call'[u].base = 0
        BY <1>1, <1>2 DEF MemType, Busy
      <3>2. libc' = libc /\ mixed' = mixed
        BY DEF TrackAdd
      <3> QED BY <1>1, <1>2, <1>3, <2>1, <2>3, <3>1, <3>2, Zenon DEF MemType, SizesTracked
    <2>5. mixed' = mixed /\ libc' = libc
      BY DEF TrackAdd
    <2>6. CallsApart'
      <3> SUFFICES ASSUME NEW u \in Callers \ {t}, Busy(u), call[u].base \notin mixed
                   PROVE  \/ call[u].at = "add" /\ regions'[call[u].base] > 0
                          \/ /\ regions'[call[u].base] = 0
                             /\ \A v \in Callers \ {u} : call'[v].base # call[u].base
        BY <1>2, <2>5 DEF CallsApart, Busy
      <3>1. /\ call[u].base \in Pages
            /\ \/ call[u].at = "add" /\ regions[call[u].base] > 0
               \/ regions[call[u].base] = 0 /\ \A v \in Callers \ {u} : call[v].base # call[u].base
        BY DEF MemInv, MemType, CallsApart
      <3>2. CASE call[u].base = b
        BY <1>0, <2>2, <2>3, <3>1, <3>2
      <3>3. CASE call[u].base # b
        BY <1>2, <2>3, <3>1, <3>3
      <3> QED BY <3>2, <3>3
    <2>7. ASSUME NEW x \in Pages, NEW p \in Pages PROVE Covered(p, x)' <=> Covered(p, x)
      <3> DEFINE Old(u) == call[u].base = x /\ p < x + call[u].size
      <3>1. \A u \in Callers \ {t} : (call'[u].base = x /\ p < x + call'[u].size) <=> Old(u)
        BY <1>2
      <3>2. call'[t].base # x
        BY <1>2
      <3>3. Covered(p, x)' <=> x <= p /\ (p < x + regions'[x] \/ \E u \in Callers \ {t} : Old(u))
        BY <3>1, <3>2 DEF Covered
      <3>4. Covered(p, x) <=> x <= p /\ (p < x + regions[x] \/ (x = b /\ p < b + n) \/ \E u \in Callers \ {t} : Old(u))
        BY <1>0 DEF Covered
      <3> HIDE DEF Old
      <3>5. CASE x = b
        BY <2>2, <2>3, <3>3, <3>4, <3>5
      <3>6. CASE x # b
        BY <2>3, <3>3, <3>4, <3>6
      <3> QED BY <3>5, <3>6
    <2> QED BY <1>3, <2>4, <2>5, <2>6, <2>7, MemInvSame
  <1>4. CASE table[b] = 0 /\ Unmaps(b, n) /\ UNCHANGED <<table, regions>>
    <2>1. regions[b] = 0 /\ Leave(t) /\ UNCHANGED <<libc, mixed>>
      BY <1>1, <1>4 DEF TrackAdd
    <2>2. b \notin mixed => regions[b] = 0 /\ \A u \in Callers \ {t} : call[u].base # b
      BY <1>0, <1>1, <2>1 DEF MemInv, CallsApart
    <2> QED BY <1>0, <1>1, <1>4, <2>1, <2>2, MemInvUnmapped
  <1> QED BY <1>0, <1>3, <1>4 DEF TrackAdd

(* mmap_track_remove: what was the region's is now the call's. *)
LEMMA MemInvVirtualFree ==
  ASSUME MemInv, NEW t \in Callers, NEW base \in Pages, VirtualFree(t, base)
  PROVE  MemInv'
  <1> USE PageFacts
  <1>1. MemType /\ table = regions /\ regions[base] \in Nat /\ regions[base] > 0
    BY DEF VirtualFree, MemInv, MemType, SizesTracked
  <1>2. /\ ~Busy(t) /\ call'[t] = [at |-> "unmap", base |-> base, size |-> regions[base]]
        /\ \A u \in Callers \ {t} : call'[u] = call[u]
        /\ \A u \in Callers : call[u].base # base
        /\ UNCHANGED <<owner, libc, mixed>>
    BY <1>1 DEF VirtualFree, Enter, Busy, MemType
  <1>3. /\ regions' = [regions EXCEPT ![base] = 0] /\ table' = regions' /\ regions' \in [Pages -> Nat]
        /\ regions'[base] = 0 /\ \A x \in Pages \ {base} : regions'[x] = regions[x]
    BY <1>1 DEF VirtualFree, Erased, MemType
  <1>4. call' \in [Callers -> CallType]
    BY <1>1 DEF VirtualFree, Enter, MemType, CallType
  <1>5. \A u \in Callers : IF Busy(u)' THEN call'[u].base \in Pages /\ call'[u].size > 0 ELSE call'[u].base = 0
    BY <1>1, <1>2 DEF MemType, Busy
  <1>6. MemType' /\ SizesTracked'
    BY <1>1, <1>2, <1>3, <1>4, <1>5, Zenon DEF MemType, SizesTracked
  <1>7. CallsApart'
    <2> SUFFICES ASSUME NEW u \in Callers, Busy(u)', call'[u].base \notin mixed
                 PROVE  \/ call'[u].at = "add" /\ regions'[call'[u].base] > 0
                        \/ /\ regions'[call'[u].base] = 0
                           /\ \A v \in Callers \ {u} : call'[v].base # call'[u].base
      BY <1>2 DEF CallsApart
    <2>1. CASE u = t
      BY <1>2, <1>3, <2>1
    <2>2. CASE u # t
      <3>1. call'[u] = call[u] /\ Busy(u) /\ call[u].base \in Pages \ {base}
        BY <1>1, <1>2, <2>2 DEF MemType, Busy
      <3>2. \/ call[u].at = "add" /\ regions[call[u].base] > 0
            \/ regions[call[u].base] = 0 /\ \A v \in Callers \ {u} : call[v].base # call[u].base
        BY <3>1 DEF MemInv, CallsApart
      <3> QED BY <1>2, <1>3, <2>2, <3>1, <3>2
    <2> QED BY <2>1, <2>2
  <1>8. ASSUME NEW x \in Pages, NEW p \in Pages PROVE Covered(p, x)' <=> Covered(p, x)
    <2>1. CASE x = base
      <3>1. Covered(p, x) <=> base <= p /\ p < base + regions[base]
        BY <1>2, <2>1 DEF Covered
      <3>2. Covered(p, x)' <=> base <= p /\ (p < base + regions'[base] \/ p < base + regions[base])
        BY <1>2, <2>1 DEF Covered
      <3> QED BY <1>1, <1>3, <3>1, <3>2
    <2>2. CASE x # base
      <3> DEFINE Old(u) == call[u].base = x /\ p < x + call[u].size
      <3>1. ~(call[t].base = x) /\ ~(call'[t].base = x) /\ regions'[x] = regions[x]
        BY <1>1, <1>2, <1>3, <2>2 DEF MemType
      <3>2. \A u \in Callers \ {t} : (call'[u].base = x /\ p < x + call'[u].size) <=> Old(u)
        BY <1>2
      <3>3. Covered(p, x)' <=> x <= p /\ (p < x + regions'[x] \/ \E u \in Callers \ {t} : Old(u))
        BY <3>1, <3>2 DEF Covered
      <3>4. Covered(p, x) <=> x <= p /\ (p < x + regions[x] \/ \E u \in Callers \ {t} : Old(u))
        BY <3>1 DEF Covered
      <3> HIDE DEF Old
      <3> QED BY <3>1, <3>3, <3>4
    <2> QED BY <2>1, <2>2
  <1> QED BY <1>2, <1>6, <1>7, <1>8, MemInvSame

(* munmap of the region that was taken from the table. *)
LEMMA MemInvUnmap ==
  ASSUME MemInv, NEW t \in Callers, Unmap(t)
  PROVE  MemInv'
  <1>1. Busy(t) /\ Unmaps(call[t].base, call[t].size) /\ Leave(t) /\ UNCHANGED <<table, regions, libc, mixed>>
    BY DEF Unmap, Busy
  <1>2. call[t].base \notin mixed =>
          regions[call[t].base] = 0 /\ \A u \in Callers \ {t} : call[u].base # call[t].base
    BY <1>1 DEF Unmap, MemInv, CallsApart
  <1> QED BY <1>1, <1>2, MemInvUnmapped

(* libc maps a page that nobody has, or unmaps one of its own. *)
LEMMA MemInvLibc ==
  ASSUME MemInv, NEW p \in Pages, LibcMaps(p) \/ LibcUnmaps(p)
  PROVE  MemInv'
  <1> USE PageFacts
  <1>1. UNCHANGED <<table, call, regions, mixed>>
    BY DEF LibcMaps, LibcUnmaps
  <1>2. MemType' /\ SizesTracked' /\ CallsApart'
    <2>1. owner' \in [Pages -> {Unmapped} \cup 0 .. MaxPage] /\ libc' \subseteq Pages
      <3>1. owner \in [Pages -> {Unmapped} \cup 0 .. MaxPage] /\ libc \subseteq Pages
        BY DEF MemInv, MemType
      <3>2. PICK who \in {Unmapped, Libc} : owner' = [owner EXCEPT ![p] = who]
        BY Zenon DEF LibcMaps, LibcUnmaps
      <3>3. libc' \subseteq libc \cup {p}
        BY DEF LibcMaps, LibcUnmaps
      <3> QED BY <3>1, <3>2, <3>3, PageFacts
    <2>2. MemType'
      BY <1>1, <2>1, Zenon DEF MemInv, MemType, Busy
    <2>3. SizesTracked' /\ CallsApart'
      BY <1>1, Zenon DEF MemInv, SizesTracked, CallsApart, Busy
    <2> QED BY <2>2, <2>3
  <1>3. \A x, q \in Pages : Covered(q, x)' <=> Covered(q, x)
    BY <1>1 DEF Covered
  <1>4. p \notin mixed => owner[p] \notin Pages
    BY DEF LibcMaps, LibcUnmaps, MemInv, LibcKept
  <1>5. owner'[p] \notin Pages /\ \A q \in Pages \ {p} : owner'[q] = owner[q]
    BY DEF LibcMaps, LibcUnmaps, MemInv, MemType
  <1>6. PagesOwned'
    BY <1>1, <1>3, <1>4, <1>5 DEF MemInv, PagesOwned
  <1>7. LibcKept'
    BY <1>1 DEF LibcMaps, LibcUnmaps, MemInv, MemType, LibcKept
  <1>8. MixedClosed'
    <2>1. \A q \in mixed : owner'[q] \in Pages => owner'[q] \in mixed
      BY <1>5 DEF MemInv, MemType, MixedClosed
    <2> QED BY <1>1, <1>3, <2>1 DEF MemInv, MixedClosed
  <1> QED BY <1>2, <1>6, <1>7, <1>8 DEF MemInv

(* Steps of the other services. *)
LEMMA MemInvStutter == MemInv /\ UNCHANGED memVars => MemInv'
  BY DEF memVars, MemInv, MemType, SizesTracked, PagesOwned, LibcKept, CallsApart, MixedClosed, Covered, Busy

(* The pages of a base that is not mixed are its region. *)
LEMMA MemInvRegions == MemInv => RegionsIntact
  <1> USE PageFacts
  <1> SUFFICES ASSUME MemInv, NEW base \in Pages \ mixed
               PROVE  {p \in Pages : owner[p] = base} = Extent(base)
    BY DEF RegionsIntact, MemInv, LibcKept
  <1>1. \A p \in Pages : p \in Extent(base) <=> Covered(p, base)
    BY ExtentIs DEF MemInv
  <1>2. \A p \in Pages : owner[p] = base <=> Covered(p, base)
    BY DEF MemInv, PagesOwned, MixedClosed
  <1> QED BY <1>1, <1>2 DEF Extent

(* VirtualFree unmaps the region it is given, whole, and nothing else,     *)
(* however calls of several threads interleave and libc maps and unmaps    *)
(* memory; an address in use spoils only what VirtualAlloc took pages from.*)
THEOREM RegionsIntactHolds == ServicesSpec => []RegionsIntact
  <1>1. ServicesInit => MemInv
    BY MemInvInit DEF ServicesInit
  <1>2. MemInv /\ [ServicesNext]_servicesVars => MemInv'
    <2> SUFFICES ASSUME MemInv, [ServicesNext]_servicesVars PROVE MemInv'
      OBVIOUS
    <2>1. CASE MemNext
      BY <2>1, MemInvAllocInOrder, MemInvAllocMixes, MemInvVirtualFree, MemInvTrackAdd, MemInvUnmap, MemInvLibc
      DEF MemNext
    <2>2. CASE UNCHANGED memVars
      BY <2>2, MemInvStutter
    <2> QED BY <2>1, <2>2 DEF ServicesNext, servicesVars
  <1> QED BY <1>1, <1>2, MemInvRegions, PTL DEF ServicesSpec

-----------------------------------------------------------------------------
(* The list of vectored handlers.  What a walk along the list meets is     *)
(* shown first, by induction on its steps; the invariant then says that    *)
(* next and prev link the registered entries in both directions, each of   *)
(* them allocated and none of them about to be freed.                      *)

\* Where a walk goes from w, in its step k.
Onward(first, link, w) == IF w = <<>> THEN first ELSE link[Last(w)]

WalkStep(first, link, w, k) ==
  IF Len(w) < k - 1 \/ Onward(first, link, w) = Null THEN w ELSE Append(w, Onward(first, link, w))

\* s is the list from first along link.
Chain(first, link, s) ==
  /\ first = IF s = <<>> THEN Null ELSE s[1]
  /\ \A k \in 1 .. Len(s) : link[s[k]] = IF k = Len(s) THEN Null ELSE s[k + 1]

\* What a walk of k steps has met of the list s.
Met(s, k) == SubSeq(s, 1, IF k <= Len(s) THEN k ELSE Len(s))

(* One step of the walk along a list. *)
LEMMA WalkStepMeets ==
  ASSUME NEW s \in Seq(Entries), NEW first, NEW link, Chain(first, link, s), NEW k \in Nat \ {0}
  PROVE  WalkStep(first, link, Met(s, k - 1), k) = Met(s, k)
  <1> USE HandlersAssumption
  <1> DEFINE w == Met(s, k - 1)
  <1>1. CASE k - 1 > Len(s)
    <2>1. w = s /\ Met(s, k) = s
      BY <1>1 DEF Met
    <2> QED BY <1>1, <2>1 DEF WalkStep
  <1>2. CASE k - 1 = Len(s)
    <2>1. w = s /\ Met(s, k) = s
      BY <1>2 DEF Met
    <2>2. Onward(first, link, s) = Null
      BY <1>2 DEF Onward, Last, Chain
    <2> QED BY <2>1, <2>2 DEF WalkStep
  <1>3. CASE k - 1 < Len(s)
    <2>1. /\ w \in Seq(Entries) /\ Len(w) = k - 1 /\ \A i \in 1 .. k - 1 : w[i] = s[i]
          /\ Met(s, k) = Append(w, s[k])
      BY <1>3 DEF Met
    <2>2. s[k] \in Entries /\ s[k] # Null
      BY <1>3
    <2> HIDE DEF w
    <2>3. Onward(first, link, w) = s[k]
      <3>1. CASE k = 1
        BY <1>3, <2>1, <3>1 DEF Onward, Chain
      <3>2. CASE k > 1
        <4>1. w # <<>> /\ Last(w) = s[k - 1]
          BY <1>3, <2>1, <3>2 DEF Last
        <4> QED BY <1>3, <3>2, <4>1 DEF Onward, Chain
      <3> QED BY <3>1, <3>2
    <2>4. WalkStep(first, link, w, k) = Append(w, s[k])
      BY <2>1, <2>2, <2>3 DEF WalkStep
    <2> QED BY <2>1, <2>4 DEF w
  <1> QED BY <1>1, <1>2, <1>3

\* The recursion of a walk, of up to n steps.
Walks(first, link, f, n) ==
  f[0] = <<>> /\ \A k \in 1 .. n : f[k] = WalkStep(first, link, f[k - 1], k)

(* A function that starts with nothing and takes these steps meets the     *)
(* list in order: by induction on the number of steps.                     *)
LEMMA WalkMeets ==
  ASSUME NEW s \in Seq(Entries), NEW first, NEW link, Chain(first, link, s), NEW n \in Nat, NEW f,
         Walks(first, link, f, n)
  PROVE  \A k \in 0 .. n : f[k] = Met(s, k)
  <1> DEFINE T == {k \in 0 .. n : f[k] # Met(s, k)}
  <1> SUFFICES ASSUME T # {} PROVE FALSE
    OBVIOUS
  <1>1. T \in SUBSET Nat
    OBVIOUS
  <1>2. PICK k \in T : \A j \in T : k <= j
    <2> HIDE DEF T
    <2> QED BY <1>1, LeastNumber
  <1>3. CASE k = 0
    <2>1. Met(s, 0) = <<>>
      BY DEF Met
    <2> QED BY <1>2, <1>3, <2>1 DEF Walks
  <1>4. CASE k # 0
    <2>1. k \in 1 .. n /\ k \in Nat \ {0} /\ k - 1 \in 0 .. n /\ k - 1 \notin T
      BY <1>2, <1>4
    <2>2. f[k - 1] = Met(s, k - 1) /\ f[k] = WalkStep(first, link, f[k - 1], k)
      BY <2>1 DEF Walks
    <2>3. f[k] = Met(s, k)
      BY <2>1, <2>2, WalkStepMeets
    <2> QED BY <1>2, <2>3
  <1> QED BY <1>3, <1>4

(* RemoveVectoredExceptionHandler and run_vectored_handlers see the list   *)
(* that head and next make.                                                *)
LEMMA WalkIs ==
  ASSUME NEW s \in Seq(Entries), NEW n \in Nat, Chain(head, next, s)
  PROVE  Walk(n) = Met(s, n)
  <1> DEFINE Body(f, k) == IF k = 0 THEN <<>>
                           ELSE LET w == f[k - 1]
                                    e == IF w = <<>> THEN head ELSE next[Last(w)]
                                IN  IF Len(w) < k - 1 \/ e = Null THEN w ELSE Append(w, e)
             g == [k \in 0 .. n |-> Met(s, k)]
  <1>1. \A f, k : Body(f, k) = IF k = 0 THEN <<>> ELSE WalkStep(head, next, f[k - 1], k)
    BY DEF WalkStep, Onward
  <1>2. Walk(n) = (CHOOSE f : f = [k \in 0 .. n |-> Body(f, k)])[n]
    BY DEF Walk
  <1> HIDE DEF Body
  <1>3. g = [k \in 0 .. n |-> Body(g, k)]
    <2>1. ASSUME NEW k \in 0 .. n PROVE Body(g, k) = Met(s, k)
      <3>1. CASE k = 0
        BY <1>1, <3>1 DEF Met
      <3>2. CASE k # 0
        <4>1. k \in Nat \ {0} /\ g[k - 1] = Met(s, k - 1)
          BY <3>2
        <4> HIDE DEF g
        <4> QED BY <1>1, <3>2, <4>1, WalkStepMeets
      <3> QED BY <3>1, <3>2
    <2> QED BY <2>1
  <1>4. ASSUME NEW f, f = [k \in 0 .. n |-> Body(f, k)] PROVE f = g
    <2>1. \A k \in 0 .. n : f[k] = Body(f, k)
      BY <1>4
    <2>2. f[0] = <<>>
      BY <1>1, <2>1
    <2>3. ASSUME NEW k \in 1 .. n PROVE f[k] = WalkStep(head, next, f[k - 1], k)
      <3>1. k \in 0 .. n /\ k # 0
        OBVIOUS
      <3> QED BY <1>1, <2>1, <3>1
    <2>4. Walks(head, next, f, n)
      BY <2>2, <2>3 DEF Walks
    <2>5. \A k \in 0 .. n : f[k] = Met(s, k)
      BY <2>4, WalkMeets
    <2> QED BY <1>4, <2>5
  <1>5. (CHOOSE f : f = [k \in 0 .. n |-> Body(f, k)]) = g
    <2> HIDE DEF g
    <2> QED BY <1>3, <1>4
  <1>6. g[n] = Met(s, n)
    OBVIOUS
  <1> HIDE DEF g
  <1> QED BY <1>2, <1>5, <1>6

(* ... and the other way. *)
LEMMA WalkBackIs ==
  ASSUME NEW s \in Seq(Entries), NEW n \in Nat, n = Cardinality(Entries), Chain(tail, prev, s)
  PROVE  WalkBack = Met(s, n)
  <1> DEFINE Body(f, k) == IF k = 0 THEN <<>>
                           ELSE LET w == f[k - 1]
                                    e == IF w = <<>> THEN tail ELSE prev[Last(w)]
                                IN  IF Len(w) < k - 1 \/ e = Null THEN w ELSE Append(w, e)
             g == [k \in 0 .. n |-> Met(s, k)]
  <1>1. \A f, k : Body(f, k) = IF k = 0 THEN <<>> ELSE WalkStep(tail, prev, f[k - 1], k)
    BY DEF WalkStep, Onward
  <1>2. WalkBack = (CHOOSE f : f = [k \in 0 .. n |-> Body(f, k)])[n]
    BY DEF WalkBack
  <1> HIDE DEF Body
  <1>3. g = [k \in 0 .. n |-> Body(g, k)]
    <2>1. ASSUME NEW k \in 0 .. n PROVE Body(g, k) = Met(s, k)
      <3>1. CASE k = 0
        BY <1>1, <3>1 DEF Met
      <3>2. CASE k # 0
        <4>1. k \in Nat \ {0} /\ g[k - 1] = Met(s, k - 1)
          BY <3>2
        <4> HIDE DEF g
        <4> QED BY <1>1, <3>2, <4>1, WalkStepMeets
      <3> QED BY <3>1, <3>2
    <2> QED BY <2>1
  <1>4. ASSUME NEW f, f = [k \in 0 .. n |-> Body(f, k)] PROVE f = g
    <2>1. \A k \in 0 .. n : f[k] = Body(f, k)
      BY <1>4
    <2>2. f[0] = <<>>
      BY <1>1, <2>1
    <2>3. ASSUME NEW k \in 1 .. n PROVE f[k] = WalkStep(tail, prev, f[k - 1], k)
      <3>1. k \in 0 .. n /\ k # 0
        OBVIOUS
      <3> QED BY <1>1, <2>1, <3>1
    <2>4. Walks(tail, prev, f, n)
      BY <2>2, <2>3 DEF Walks
    <2>5. \A k \in 0 .. n : f[k] = Met(s, k)
      BY <2>4, WalkMeets
    <2> QED BY <1>4, <2>5
  <1>5. (CHOOSE f : f = [k \in 0 .. n |-> Body(f, k)]) = g
    <2> HIDE DEF g
    <2> QED BY <1>3, <1>4
  <1>6. g[n] = Met(s, n)
    OBVIOUS
  <1> HIDE DEF g
  <1> QED BY <1>2, <1>5, <1>6

\* The k-th of the registered handlers, Null before the first and after the last.
Nth(k) == IF k \in 1 .. Len(order) THEN order[k] ELSE Null

ListInv ==
  /\ pc \in [Threads -> {"idle", "free", "set"}]
  /\ arg = [t \in Threads |-> arg[t]]
  /\ prev \in [Entries -> Entries \cup {Null}] /\ next \in [Entries -> Entries \cup {Null}]
  /\ alive \in SUBSET Entries
  /\ order \in Seq(alive) /\ \A i, j \in 1 .. Len(order) : order[i] = order[j] => i = j
  /\ head = Nth(1) /\ tail = Nth(Len(order))
  /\ \A k \in 1 .. Len(order) : next[order[k]] = Nth(k + 1) /\ prev[order[k]] = Nth(k - 1)
  /\ \A t \in Threads : pc[t] = "free" =>
       /\ arg[t] \in alive /\ \A k \in 1 .. Len(order) : order[k] # arg[t]
       /\ \A u \in Threads : pc[u] = "free" /\ arg[u] = arg[t] => u = t

(* There are at most as many registered handlers as entries. *)
LEMMA OrderFits == ListInv => Cardinality(Entries) \in Nat /\ Len(order) <= Cardinality(Entries)
  <1> SUFFICES ASSUME ListInv PROVE Cardinality(Entries) \in Nat /\ Len(order) <= Cardinality(Entries)
    OBVIOUS
  <1>1. Len(order) \in Nat /\ order \in [1 .. Len(order) -> Entries]
    BY DEF ListInv
  <1>2. order \in Injection(1 .. Len(order), Entries)
    BY <1>1 DEF ListInv, Injection, IsInjective
  <1>3. Cardinality(1 .. Len(order)) <= Cardinality(Entries)
    BY <1>2, HandlersAssumption, FS_Injection
  <1>4. Cardinality(1 .. Len(order)) = Len(order)
    BY <1>1, FS_Interval
  <1> QED BY <1>3, <1>4, HandlersAssumption, FS_CardinalityType

(* What a walk along the list finds, in both directions. *)
LEMMA ListWalks ==
  ASSUME ListInv
  PROVE  Walk(Cardinality(Entries)) = order /\ WalkBack = Reverse(order)
  <1> DEFINE n == Cardinality(Entries)
  <1>1. n \in Nat /\ Len(order) <= n /\ order \in Seq(Entries) /\ Len(order) \in Nat
    BY OrderFits DEF ListInv
  <1>2. Chain(head, next, order)
    BY <1>1 DEF ListInv, Chain, Nth
  <1>3. Walk(n) = order
    <2>1. Walk(n) = Met(order, n)
      BY <1>1, <1>2, WalkIs
    <2> HIDE DEF n
    <2>2. Met(order, n) = order
      BY <1>1 DEF Met
    <2> QED BY <2>1, <2>2
  <1>4. PICK r : r = Reverse(order)
    OBVIOUS
  <1>5. r \in Seq(Entries) /\ Len(r) = Len(order) /\ \A k \in 1 .. Len(order) : r[k] = order[Len(order) - k + 1]
    <2>1. r = [k \in 1 .. Len(order) |-> order[(Len(order) - k) + 1]]
      BY <1>4 DEF Reverse
    <2> QED BY <1>1, <2>1
  <1>6. Chain(tail, prev, r)
    <2>1. tail = IF r = <<>> THEN Null ELSE r[1]
      BY <1>1, <1>5 DEF ListInv, Nth
    <2>2. ASSUME NEW k \in 1 .. Len(r) PROVE prev[r[k]] = IF k = Len(r) THEN Null ELSE r[k + 1]
      <3>1. Len(order) - k + 1 \in 1 .. Len(order) /\ r[k] = order[Len(order) - k + 1]
        BY <1>1, <1>5
      <3>2. prev[r[k]] = Nth(Len(order) - k)
        BY <1>1, <3>1 DEF ListInv
      <3>3. CASE k = Len(r)
        BY <1>1, <1>5, <3>2, <3>3 DEF Nth
      <3>4. CASE k # Len(r)
        <4>1. k + 1 \in 1 .. Len(order) /\ Len(order) - k \in 1 .. Len(order) /\ Len(order) - (k + 1) + 1 = Len(order) - k
          BY <1>1, <1>5, <3>4
        <4> QED BY <1>5, <3>2, <3>4, <4>1 DEF Nth
      <3> QED BY <3>3, <3>4
    <2> QED BY <2>1, <2>2 DEF Chain
  <1>7. WalkBack = r
    <2>1. WalkBack = Met(r, n)
      BY <1>1, <1>5, <1>6, WalkBackIs
    <2> HIDE DEF n
    <2>2. Met(r, n) = r
      BY <1>1, <1>5 DEF Met
    <2> QED BY <2>1, <2>2
  <1> QED BY <1>3, <1>4, <1>7

(* The loop of RemoveVectoredExceptionHandler finds what is registered. *)
LEMMA FoundIs ==
  ASSUME ListInv, NEW e
  PROVE  Found(e) <=> \E k \in 1 .. Len(order) : order[k] = e
  BY ListWalks DEF Found, Contains

(* Steps that leave the list alone. *)
LEMMA ListInvElsewhere ==
  ASSUME ListInv, NEW t \in Threads, pc[t] # "free", NEW where \in {"idle", "set"}, NEW what,
         Goto(t, where, what), UNCHANGED <<head, tail, prev, next, alive, order>>
  PROVE  ListInv'
  <1>1. /\ pc' \in [Threads -> {"idle", "free", "set"}]
        /\ arg' = [u \in Threads |-> arg'[u]]
    BY DEF Goto, ListInv
  <1>2. /\ pc'[t] # "free" /\ \A u \in Threads \ {t} : pc'[u] = pc[u] /\ arg'[u] = arg[u]
    BY DEF Goto, ListInv
  <1>3. \A k : Nth(k)' = Nth(k)
    BY DEF Nth
  <1> QED BY <1>1, <1>2, <1>3 DEF ListInv

(* Steps that change neither the list nor the places. *)
LEMMA ListInvSame ==
  ASSUME ListInv, UNCHANGED <<pc, arg, head, tail, prev, next, alive, order>>
  PROVE  ListInv'
  BY DEF ListInv, Nth

(* AddVectoredExceptionHandler: the entry is allocated, so nobody's.       *)
LEMMA ListInvAdd ==
  ASSUME ListInv, NEW t \in Threads, NEW first \in BOOLEAN, NEW f, AddVectoredExceptionHandler(t, first, f)
  PROVE  ListInv'
  <1> USE HandlersAssumption
  <1>1. PICK e \in Entries \ alive : alive' = alive \cup {e} /\ IF first THEN AddFirst(e) ELSE AddLast(e)
    BY DEF AddVectoredExceptionHandler
  <1>2. UNCHANGED <<pc, arg>>
    BY DEF AddVectoredExceptionHandler, frame
  <1>3. PICK n \in Nat : n = Len(order)
    BY DEF ListInv
  <1>4. \A k \in 1 .. n : order[k] \in alive /\ order[k] # e /\ order[k] \in Entries /\ order[k] # Null
    BY <1>3 DEF ListInv
  <1>5. \A u \in Threads : pc[u] = "free" => arg[u] \in alive /\ arg[u] # e
    BY DEF ListInv
  <1>6. CASE AddFirst(e)
    <2>1. order' \in Seq(alive') /\ Len(order') = n + 1 /\ order'[1] = e /\ \A k \in 1 .. n : order'[k + 1] = order[k]
      BY <1>1, <1>3, <1>6 DEF AddFirst, ListInv
    <2>2. \A k \in 2 .. n + 1 : order'[k] = order[k - 1] /\ k - 1 \in 1 .. n
      <3>1. ASSUME NEW k \in 2 .. n + 1 PROVE order'[k] = order[k - 1] /\ k - 1 \in 1 .. n
        <4>1. k - 1 \in 1 .. n /\ (k - 1) + 1 = k
          OBVIOUS
        <4> QED BY <2>1, <4>1
      <3> QED BY <3>1
    <2>3. /\ Nth(1)' = e /\ \A k \in 2 .. n + 2 : Nth(k)' = Nth(k - 1)
          /\ Nth(0)' = Null
      BY <1>3, <2>1, <2>2 DEF Nth
    <2>4. \A i, j \in 1 .. Len(order') : order'[i] = order'[j] => i = j
      <3> SUFFICES ASSUME NEW i \in 1 .. n + 1, NEW j \in 1 .. n + 1, order'[i] = order'[j] PROVE i = j
        BY <2>1
      <3>1. CASE i = 1 \/ j = 1
        BY <1>4, <2>1, <2>2, <3>1, SMTT(30)
      <3>2. CASE i # 1 /\ j # 1
        <4>1. i \in 2 .. n + 1 /\ j \in 2 .. n + 1
          BY <3>2
        <4>2. order[i - 1] = order[j - 1] /\ i - 1 \in 1 .. n /\ j - 1 \in 1 .. n
          BY <2>2, <4>1
        <4> QED BY <1>3, <4>2, SMTT(30) DEF ListInv
      <3> QED BY <3>1, <3>2
    <2>5. /\ prev' \in [Entries -> Entries \cup {Null}] /\ next' \in [Entries -> Entries \cup {Null}]
          /\ alive' \in SUBSET Entries
      BY <1>1, <1>6 DEF AddFirst, ListInv, Nth
    <2>6. head' = Nth(1)' /\ tail' = Nth(n + 1)'
      BY <1>3, <1>4, <1>6, <2>1, <2>3 DEF AddFirst, ListInv, Nth
    <2>7. ASSUME NEW k \in 1 .. n + 1 PROVE next'[order'[k]] = Nth(k + 1)' /\ prev'[order'[k]] = Nth(k - 1)'
      <3>1. CASE k = 1
        BY <1>3, <1>6, <2>1, <2>3, <3>1 DEF AddFirst, ListInv
      <3>2. CASE k # 1
        <4>1. k \in 2 .. n + 1 /\ k + 1 \in 2 .. n + 2 /\ k - 1 \in 1 .. n
          BY <3>2
        <4>2. order'[k] = order[k - 1] /\ Nth(k + 1)' = Nth(k) /\ order[k - 1] # e /\ order[k - 1] \in Entries
          BY <1>4, <2>2, <2>3, <4>1
        <4>3. next'[order'[k]] = next[order[k - 1]] /\ next[order[k - 1]] = Nth(k)
          BY <1>3, <1>6, <4>1, <4>2, SMTT(30) DEF AddFirst, ListInv
        <4>4. prev'[order'[k]] = Nth(k - 1)'
          <5>1. CASE k = 2
            <6>1. order[1] = head
              BY <1>3, <4>1, <5>1 DEF ListInv, Nth
            <6>2. order'[k] = head /\ head \in Entries /\ head # e
              BY <4>2, <5>1, <6>1
            <6>3. prev'[head] = e
              BY <1>6, <6>2 DEF AddFirst
            <6>4. k - 1 = 1
              BY <5>1
            <6> QED BY <2>3, <6>2, <6>3, <6>4
          <5>2. CASE k > 2
            <6>1. head = order[1] /\ order[k - 1] # head
              BY <1>3, <4>1, <5>2 DEF ListInv, Nth
            <6>2. prev'[order'[k]] = prev[order[k - 1]]
              BY <1>6, <4>2, <6>1 DEF AddFirst
            <6>3. prev[order[k - 1]] = Nth(k - 2)
              BY <1>3, <4>1 DEF ListInv
            <6>4. Nth(k - 1)' = Nth(k - 2)
              BY <2>3, <4>1, <5>2
            <6> QED BY <6>2, <6>3, <6>4
          <5> QED BY <4>1, <5>1, <5>2
        <4> QED BY <4>2, <4>3, <4>4
      <3> QED BY <3>1, <3>2
    <2>8. ASSUME NEW u \in Threads, pc'[u] = "free"
          PROVE  /\ arg'[u] \in alive' /\ \A k \in 1 .. n + 1 : order'[k] # arg'[u]
                 /\ \A v \in Threads : pc'[v] = "free" /\ arg'[v] = arg'[u] => v = u
      <3>1. \A k \in 1 .. n + 1 : order'[k] = e \/ \E m \in 1 .. n : order'[k] = order[m]
        BY <2>1, <2>2
      <3> QED BY <1>1, <1>2, <1>3, <1>5, <2>8, <3>1 DEF ListInv
    <2>9. pc' \in [Threads -> {"idle", "free", "set"}] /\ arg' = [u \in Threads |-> arg'[u]]
      BY <1>2 DEF ListInv
    <2> QED BY <2>1, <2>4, <2>5, <2>6, <2>7, <2>8, <2>9 DEF ListInv
  <1>7. CASE AddLast(e)
    <2>1. /\ order' \in Seq(alive') /\ Len(order') = n + 1 /\ order'[n + 1] = e
          /\ \A k \in 1 .. n : order'[k] = order[k]
      BY <1>1, <1>3, <1>7 DEF AddLast, ListInv
    <2>2. Nth(n + 1)' = e /\ Nth(n + 2)' = Null /\ \A k \in 0 .. n : Nth(k)' = Nth(k)
      BY <1>3, <2>1 DEF Nth
    <2>3. \A i, j \in 1 .. Len(order') : order'[i] = order'[j] => i = j
      <3> SUFFICES ASSUME NEW i \in 1 .. n + 1, NEW j \in 1 .. n + 1, order'[i] = order'[j] PROVE i = j
        BY <2>1
      <3>1. CASE i = n + 1 \/ j = n + 1
        BY <1>4, <2>1, <3>1
      <3>2. CASE i # n + 1 /\ j # n + 1
        <4>1. i \in 1 .. n /\ j \in 1 .. n
          BY <3>2
        <4> QED BY <1>3, <2>1, <4>1 DEF ListInv
      <3> QED BY <3>1, <3>2
    <2>4. /\ prev' \in [Entries -> Entries \cup {Null}] /\ next' \in [Entries -> Entries \cup {Null}]
          /\ alive' \in SUBSET Entries
      BY <1>1, <1>7 DEF AddLast, ListInv, Nth
    <2>5. head' = Nth(1)' /\ tail' = Nth(n + 1)'
      BY <1>3, <1>4, <1>7, <2>1, <2>2 DEF AddLast, ListInv, Nth
    <2>6. ASSUME NEW k \in 1 .. n + 1 PROVE next'[order'[k]] = Nth(k + 1)' /\ prev'[order'[k]] = Nth(k - 1)'
      <3>1. CASE k = n + 1
        BY <1>3, <1>7, <2>1, <2>2, <3>1 DEF AddLast, ListInv
      <3>2. CASE k # n + 1
        <4>1. k \in 1 .. n /\ k - 1 \in 0 .. n
          BY <3>2
        <4>2. order'[k] = order[k] /\ order[k] # e /\ order[k] \in Entries
          BY <1>4, <2>1, <4>1
        <4>3. prev'[order'[k]] = prev[order[k]] /\ prev[order[k]] = Nth(k - 1)
          BY <1>3, <1>7, <4>1, <4>2 DEF AddLast, ListInv
        <4>4. next'[order'[k]] = Nth(k + 1)'
          <5>1. tail = order[n]
            BY <1>3, <4>1 DEF ListInv, Nth
          <5>2. CASE k = n
            BY <1>7, <2>2, <4>2, <5>1, <5>2 DEF AddLast
          <5>3. CASE k < n
            <6>1. order[k] # tail
              BY <1>3, <4>1, <5>1, <5>3 DEF ListInv
            <6>2. next'[order'[k]] = next[order[k]]
              BY <1>7, <4>2, <6>1 DEF AddLast
            <6>3. next[order[k]] = Nth(k + 1)
              BY <1>3, <4>1 DEF ListInv
            <6> QED BY <2>2, <4>1, <5>3, <6>2, <6>3
          <5> QED BY <4>1, <5>2, <5>3
        <4> QED BY <2>2, <4>1, <4>3, <4>4
      <3> QED BY <3>1, <3>2
    <2>7. ASSUME NEW u \in Threads, pc'[u] = "free"
          PROVE  /\ arg'[u] \in alive' /\ \A k \in 1 .. n + 1 : order'[k] # arg'[u]
                 /\ \A v \in Threads : pc'[v] = "free" /\ arg'[v] = arg'[u] => v = u
      <3>1. \A k \in 1 .. n + 1 : order'[k] = e \/ \E m \in 1 .. n : order'[k] = order[m]
        BY <2>1
      <3> QED BY <1>1, <1>2, <1>3, <1>5, <2>7, <3>1 DEF ListInv
    <2>8. pc' \in [Threads -> {"idle", "free", "set"}] /\ arg' = [u \in Threads |-> arg'[u]]
      BY <1>2 DEF ListInv
    <2> QED BY <2>1, <2>3, <2>4, <2>5, <2>6, <2>7, <2>8 DEF ListInv
  <1> QED BY <1>1, <1>6, <1>7

(* A list without one of its elements, none of which is there twice. *)
LEMMA WithoutOne ==
  ASSUME NEW S, NEW s \in Seq(S), NEW k \in 1 .. Len(s), \A i, j \in 1 .. Len(s) : s[i] = s[j] => i = j
  PROVE  /\ RemoveFirst(s, s[k]) \in Seq(S) /\ Len(RemoveFirst(s, s[k])) = Len(s) - 1
         /\ \A i \in 1 .. Len(s) - 1 : RemoveFirst(s, s[k])[i] = IF i < k THEN s[i] ELSE s[i + 1]
  <1>1. PICK n \in Nat : n = Len(s)
    OBVIOUS
  <1>2. SelectInSeq(s, LAMBDA v : v = s[k]) = k
    <2>1. {i \in 1 .. Len(s) : s[i] = s[k]} = {k}
      OBVIOUS
    <2>2. Min({k}) = k
      BY DEF Min
    <2> QED BY <2>1, <2>2 DEF SelectInSeq
  <1>3. RemoveFirst(s, s[k]) = SubSeq(s, 1, k - 1) \o SubSeq(s, k + 1, Len(s))
    BY <1>2 DEF RemoveFirst, RemoveAt
  <1>4. /\ SubSeq(s, 1, k - 1) \in Seq(S) /\ Len(SubSeq(s, 1, k - 1)) = k - 1
        /\ \A i \in 1 .. k - 1 : SubSeq(s, 1, k - 1)[i] = s[i]
    OBVIOUS
  <1>5. /\ SubSeq(s, k + 1, Len(s)) \in Seq(S) /\ Len(SubSeq(s, k + 1, Len(s))) = Len(s) - k
        /\ \A i \in 1 .. Len(s) - k : SubSeq(s, k + 1, Len(s))[i] = s[k + i]
    OBVIOUS
  <1> DEFINE p == SubSeq(s, 1, k - 1)
             q == SubSeq(s, k + 1, Len(s))
             r == RemoveFirst(s, s[k])
  <1> HIDE DEF p, q, r
  <1>6. /\ p \in Seq(S) /\ Len(p) = k - 1 /\ \A i \in 1 .. k - 1 : p[i] = s[i]
        /\ q \in Seq(S) /\ Len(q) = Len(s) - k /\ \A i \in 1 .. Len(s) - k : q[i] = s[k + i]
        /\ r = p \o q
    BY <1>3, <1>4, <1>5 DEF p, q, r
  <1>7. /\ r \in Seq(S) /\ Len(r) = n - 1
        /\ \A i \in 1 .. Len(p) + Len(q) : r[i] = IF i <= Len(p) THEN p[i] ELSE q[i - Len(p)]
    <2>1. Len(r) = Len(p) + Len(q) /\ r \in Seq(S)
      <3>1. p \in Seq(S) /\ q \in Seq(S) /\ r = p \o q
        BY <1>6
      <3> QED BY <3>1, ConcatProperties
    <2>2. \A i \in 1 .. Len(p) + Len(q) : r[i] = IF i <= Len(p) THEN p[i] ELSE q[i - Len(p)]
      <3>1. p \in Seq(S) /\ q \in Seq(S) /\ r = p \o q
        BY <1>6
      <3> QED BY <3>1, ConcatProperties
    <2> QED BY <1>1, <1>6, <2>1, <2>2
  <1>8. ASSUME NEW i \in 1 .. n - 1 PROVE r[i] = IF i < k THEN s[i] ELSE s[i + 1]
    <2>1. CASE i < k
      BY <1>1, <1>6, <1>7, <2>1
    <2>2. CASE i >= k
      <3>1. i - (k - 1) \in 1 .. Len(s) - k /\ k + (i - (k - 1)) = i + 1
        BY <1>1, <2>2
      <3>2. r[i] = q[i - (k - 1)]
        BY <1>1, <1>6, <1>7, <2>2
      <3> QED BY <1>6, <2>2, <3>1, <3>2
    <2> QED BY <2>1, <2>2
  <1> QED BY <1>1, <1>7, <1>8 DEF r

(* RemoveVectoredExceptionHandler: the neighbours are linked, and the      *)
(* entry is the caller's to free.                                          *)
LEMMA ListInvRemove ==
  ASSUME ListInv, NEW t \in Threads, NEW e \in Entries, RemoveVectoredExceptionHandler(t, e), Found(e)
  PROVE  ListInv'
  <1> USE HandlersAssumption
  <1>1. PICK n \in Nat : n = Len(order)
    BY DEF ListInv
  <1>2. PICK k \in 1 .. n : order[k] = e
    BY <1>1, FoundIs
  <1>3. \A i \in 1 .. n : order[i] \in alive /\ order[i] \in Entries /\ order[i] # Null
    BY <1>1 DEF ListInv
  <1>4. \A i, j \in 1 .. n : order[i] = order[j] => i = j
    BY <1>1 DEF ListInv
  <1>5. /\ head' = IF prev[e] = Null THEN next[e] ELSE head
        /\ tail' = IF next[e] = Null THEN prev[e] ELSE tail
        /\ next' = [x \in Entries |-> IF x = prev[e] THEN next[e] ELSE next[x]]
        /\ prev' = [x \in Entries |-> IF x = next[e] THEN prev[e] ELSE prev[x]]
        /\ order' = RemoveFirst(order, e) /\ Goto(t, "free", e) /\ alive' = alive /\ pc[t] = "idle"
    BY DEF RemoveVectoredExceptionHandler, Idle
  <1>6. /\ order' \in Seq(alive') /\ Len(order') = n - 1
        /\ \A i \in 1 .. n - 1 : order'[i] = IF i < k THEN order[i] ELSE order[i + 1]
    <2>1. order \in Seq(alive) /\ alive' = alive /\ k \in 1 .. Len(order) /\ order' = RemoveFirst(order, order[k])
      BY <1>1, <1>2, <1>5 DEF ListInv
    <2>2. \A i, j \in 1 .. Len(order) : order[i] = order[j] => i = j
      BY DEF ListInv
    <2> HIDE DEF ListInv
    <2> QED BY <1>1, <2>1, <2>2, WithoutOne
  <1>7. next[e] = Nth(k + 1) /\ prev[e] = Nth(k - 1)
    BY <1>1, <1>2 DEF ListInv
  <1>8. \A i \in 0 .. n : Nth(i)' = IF i < k THEN Nth(i) ELSE Nth(i + 1)
    BY <1>1, <1>6 DEF Nth
  <1>9. \A i, j \in 1 .. n - 1 : order'[i] = order'[j] => i = j
    <2> SUFFICES ASSUME NEW i \in 1 .. n - 1, NEW j \in 1 .. n - 1, order'[i] = order'[j] PROVE i = j
      OBVIOUS
    <2> DEFINE x == IF i < k THEN i ELSE i + 1
               y == IF j < k THEN j ELSE j + 1
    <2>1. x \in 1 .. n /\ y \in 1 .. n /\ order'[i] = order[x] /\ order'[j] = order[y] /\ (x = y => i = j)
      BY <1>6, SMTT(30)
    <2> HIDE DEF x, y
    <2> QED BY <1>4, <2>1
  <1>10. /\ prev' \in [Entries -> Entries \cup {Null}] /\ next' \in [Entries -> Entries \cup {Null}]
         /\ alive' \in SUBSET Entries
    BY <1>5 DEF ListInv
  <1>11. head' = Nth(1)' /\ tail' = Nth(n - 1)'
    <2>1. head = Nth(1) /\ tail = Nth(n)
      BY <1>1 DEF ListInv
    <2>2. CASE k = 1
      <3>1. prev[e] = Null /\ next[e] = Nth(2)
        BY <1>7, <2>2 DEF Nth
      <3>2. Nth(1)' = Nth(2) /\ (n > 1 => Nth(n - 1)' = Nth(n))
        BY <1>8, <2>2
      <3>3. n = 1 => Nth(2) = Null /\ Nth(n - 1)' = Nth(0) /\ Nth(0) = Null
        BY <1>1, <1>8, <2>2 DEF Nth
      <3>4. n > 1 => Nth(2) # Null
        BY <1>1, <1>3 DEF Nth
      <3>5. n = 1 \/ n > 1
        BY <2>2
      <3> QED BY <1>5, <2>1, <3>1, <3>2, <3>3, <3>4, <3>5
    <2>3. CASE k > 1 /\ k = n
      BY <1>1, <1>3, <1>5, <1>7, <1>8, <2>1, <2>3 DEF Nth
    <2>4. CASE k > 1 /\ k < n
      BY <1>1, <1>3, <1>5, <1>7, <1>8, <2>1, <2>4, SMTT(30) DEF Nth
    <2> QED BY <2>2, <2>3, <2>4
  <1>12. ASSUME NEW i \in 1 .. n - 1 PROVE next'[order'[i]] = Nth(i + 1)' /\ prev'[order'[i]] = Nth(i - 1)'
    <2>1. PICK x \in 1 .. n : x = IF i < k THEN i ELSE i + 1
      OBVIOUS
    <2>2. order'[i] = order[x] /\ order[x] \in Entries /\ x # k
      BY <1>3, <1>6, <2>1
    <2>3. next[order[x]] = Nth(x + 1) /\ prev[order[x]] = Nth(x - 1)
      BY <1>1 DEF ListInv
    <2>4. next'[order'[i]] = IF x = k - 1 THEN Nth(k + 1) ELSE Nth(x + 1)
      <3>1. order[x] = prev[e] <=> x = k - 1
        BY <1>1, <1>2, <1>3, <1>4, <1>7 DEF Nth
      <3> QED BY <1>5, <1>7, <2>2, <2>3, <3>1
    <2>5. prev'[order'[i]] = IF x = k + 1 THEN Nth(k - 1) ELSE Nth(x - 1)
      <3>1. order[x] = next[e] <=> x = k + 1
        BY <1>1, <1>2, <1>3, <1>4, <1>7 DEF Nth
      <3> QED BY <1>5, <1>7, <2>2, <2>3, <3>1
    <2>6. Nth(i + 1)' = IF x = k - 1 THEN Nth(k + 1) ELSE Nth(x + 1)
      <3>1. CASE i < k - 1
        BY <1>8, <2>1, <3>1
      <3>2. CASE i = k - 1
        BY <1>8, <2>1, <3>2
      <3>3. CASE i >= k
        BY <1>8, <2>1, <3>3
      <3> QED BY <3>1, <3>2, <3>3
    <2>7. Nth(i - 1)' = IF x = k + 1 THEN Nth(k - 1) ELSE Nth(x - 1)
      <3>1. CASE i < k
        BY <1>8, <2>1, <3>1
      <3>2. CASE i = k
        BY <1>8, <2>1, <3>2
      <3>3. CASE i > k
        BY <1>8, <2>1, <3>3
      <3> QED BY <3>1, <3>2, <3>3
    <2> QED BY <2>4, <2>5, <2>6, <2>7
  <1>13. /\ pc' \in [Threads -> {"idle", "free", "set"}] /\ arg' = [u \in Threads |-> arg'[u]]
         /\ pc'[t] = "free" /\ arg'[t] = e /\ \A u \in Threads \ {t} : pc'[u] = pc[u] /\ arg'[u] = arg[u]
    BY <1>5 DEF Goto, ListInv
  <1>14. ASSUME NEW i \in 1 .. n - 1 PROVE order'[i] # e /\ \E m \in 1 .. n : order'[i] = order[m]
    BY <1>2, <1>4, <1>6
  <1>15. ASSUME NEW u \in Threads, pc'[u] = "free"
         PROVE  /\ arg'[u] \in alive' /\ \A i \in 1 .. n - 1 : order'[i] # arg'[u]
                /\ \A v \in Threads : pc'[v] = "free" /\ arg'[v] = arg'[u] => v = u
    <2>1. \A v \in Threads \ {t} : pc[v] = "free" => arg[v] \in alive /\ arg[v] # e /\ \A m \in 1 .. n : order[m] # arg[v]
      BY <1>1, <1>2 DEF ListInv
    <2>2. e \in alive
      BY <1>2, <1>3
    <2>3. CASE u = t
      BY <1>5, <1>13, <1>14, <2>1, <2>2, <2>3
    <2>4. CASE u # t
      <3>1. pc[u] = "free" /\ arg'[u] = arg[u]
        BY <1>13, <1>15, <2>4
      <3> QED BY <1>5, <1>13, <1>14, <2>1, <2>4, <3>1 DEF ListInv
    <2> QED BY <2>3, <2>4
  <1> QED BY <1>6, <1>9, <1>10, <1>11, <1>12, <1>13, <1>15 DEF ListInv

(* An entry that is freed is in the list no more. *)
LEMMA ListInvFree ==
  ASSUME ListInv, NEW t \in Threads, FreeEntry(t)
  PROVE  ListInv'
  <1>1. /\ pc[t] = "free" /\ arg[t] \in alive /\ \A k \in 1 .. Len(order) : order[k] # arg[t]
        /\ \A u \in Threads : pc[u] = "free" /\ arg[u] = arg[t] => u = t
    BY DEF ListInv, FreeEntry
  <1>2. /\ pc' \in [Threads -> {"idle", "free", "set"}] /\ arg' = [u \in Threads |-> arg'[u]]
        /\ pc'[t] = "idle" /\ \A u \in Threads \ {t} : pc'[u] = pc[u] /\ arg'[u] = arg[u]
    BY DEF FreeEntry, Return, Goto, ListInv
  <1>3. /\ alive' = alive \ {arg[t]} /\ UNCHANGED <<head, tail, order>>
        /\ prev' \in [Entries -> Entries \cup {Null}] /\ next' \in [Entries -> Entries \cup {Null}]
        /\ \A x \in Entries \ {arg[t]} : prev'[x] = prev[x] /\ next'[x] = next[x]
    BY DEF FreeEntry, ListInv
  <1>4. \A k : Nth(k)' = Nth(k)
    BY <1>3 DEF Nth
  <1>5. \A k \in 1 .. Len(order) : order[k] \in alive' /\ order[k] \in Entries \ {arg[t]}
    BY <1>1, <1>3 DEF ListInv
  <1>6. order' \in Seq(alive')
    BY <1>3, <1>5 DEF ListInv
  <1>7. \A k \in 1 .. Len(order') : next'[order'[k]] = Nth(k + 1)' /\ prev'[order'[k]] = Nth(k - 1)'
    BY <1>3, <1>4, <1>5 DEF ListInv
  <1>8. ASSUME NEW u \in Threads, pc'[u] = "free"
        PROVE  /\ arg'[u] \in alive' /\ \A i \in 1 .. Len(order') : order'[i] # arg'[u]
               /\ \A v \in Threads : pc'[v] = "free" /\ arg'[v] = arg'[u] => v = u
    BY <1>1, <1>2, <1>3, <1>8 DEF ListInv
  <1> QED BY <1>2, <1>3, <1>4, <1>6, <1>7, <1>8 DEF ListInv

(* Every other step of the handlers. *)
LEMMA ListInvRest ==
  ASSUME ListInv, NEW t \in Threads,
         \/ \E e \in Entries : RemoveVectoredExceptionHandler(t, e) /\ ~Found(e)
         \/ \E add \in BOOLEAN : SetConsoleCtrlHandlerNull(t, add)
         \/ \E h \in Fns, add \in BOOLEAN : SetConsoleCtrlHandler(t, h, add)
         \/ \E s \in Signals, handler \in {"msvcrt_signal_trampoline", "SIG_DFL", "SIG_IGN"} : MsvcrtSignal(t, s, handler)
         \/ SetDisposition(t)
  PROVE  ListInv'
  <1>1. pc[t] # "free" /\ UNCHANGED <<head, tail, prev, next, alive, order>>
    BY DEF RemoveVectoredExceptionHandler, Idle, vehVars,
        SetConsoleCtrlHandlerNull, SetConsoleCtrlHandler, MsvcrtSignal, SetDisposition
  <1>2. UNCHANGED <<pc, arg>> \/ \E where \in {"idle", "set"} : \E what : Goto(t, where, what)
    BY DEF RemoveVectoredExceptionHandler, Return, frame,
        SetConsoleCtrlHandlerNull, SetConsoleCtrlHandler, MsvcrtSignal, SetDisposition
  <1> QED BY <1>1, <1>2, ListInvElsewhere, ListInvSame

(* A signal and the dispatcher have nothing to do with the list. *)
LEMMA ListInvDispatch ==
  ASSUME ListInv, Dispatch \/ \E s \in Signals : Signal(s)
  PROVE  ListInv'
  <1>1. UNCHANGED <<pc, arg, head, tail, prev, next, alive, order>>
    BY DEF Dispatch, DispatcherReads, DispatcherCalls, Signal, frame, vehVars
  <1> QED BY <1>1, ListInvSame

(* The list of vectored handlers holds the registered ones in the order    *)
(* Windows calls them, forwards and backwards, none of them freed, and no  *)
(* entry is freed twice, however many threads add and remove.              *)
THEOREM ListIntactHolds == ServicesSpec => []ListIntact
  <1>1. ServicesInit => ListInv
    BY HandlersAssumption DEF ServicesInit, Init, ListInv, Nth
  <1>2. ListInv /\ [ServicesNext]_servicesVars => ListInv'
    <2> SUFFICES ASSUME ListInv, [ServicesNext]_servicesVars PROVE ListInv'
      OBVIOUS
    <2>1. CASE Next
      <3>1. ASSUME NEW t \in Threads, Call(t) PROVE ListInv'
        BY <3>1, ListInvAdd, ListInvRemove, ListInvRest DEF Call
      <3>2. ASSUME NEW t \in Threads, Progress(t) PROVE ListInv'
        BY <3>2, ListInvFree, ListInvRest DEF Progress
      <3> QED BY <2>1, <3>1, <3>2, ListInvDispatch DEF Next
    <2>2. CASE UNCHANGED vars
      BY <2>2, ListInvSame DEF vars, frame, vehVars
    <2> QED BY <2>1, <2>2 DEF ServicesNext, servicesVars
  <1>3. ListInv => ListIntact
    <2> SUFFICES ASSUME ListInv PROVE ListIntact
      OBVIOUS
    <2>1. \A k \in 1 .. Len(order) : order[k] \in alive
      BY DEF ListInv
    <2>2. \A t \in Threads : pc[t] = "free" => arg[t] \in alive /\ ~Contains(order, arg[t])
      BY DEF ListInv, Contains
    <2>3. \A t, u \in Threads : pc[t] = "free" /\ pc[u] = "free" /\ arg[u] = arg[t] => u = t
      BY DEF ListInv
    <2> QED BY <2>1, <2>2, <2>3, ListWalks DEF ListIntact
  <1> QED BY <1>1, <1>2, <1>3, PTL DEF ServicesSpec

-----------------------------------------------------------------------------
(* Sorting.  First what the helpers compute: the powers of two, and the    *)
(* least and the greatest element of a set of places.                      *)

(* Some function satisfies the recursion of Power2 up to n. *)
LEMMA PowersExist ==
  ASSUME NEW n \in Nat
  PROVE  \E f : f = [k \in 0 .. n |-> IF k = 0 THEN 1 ELSE 2 * f[k - 1]]
  <1> DEFINE Powers(f, m) == f = [k \in 0 .. m |-> IF k = 0 THEN 1 ELSE 2 * f[k - 1]]
             T == {m \in Nat : ~ \E f : Powers(f, m)}
  <1> SUFFICES ASSUME T # {} PROVE FALSE
    OBVIOUS
  <1>1. PICK m \in T : \A j \in T : m <= j
    <2>1. T \in SUBSET Nat
      OBVIOUS
    <2> HIDE DEF T
    <2> QED BY <2>1, LeastNumber
  <1>2. CASE m = 0
    <2> DEFINE g == [k \in 0 .. 0 |-> 1]
    <2>1. Powers(g, 0)
      OBVIOUS
    <2> QED BY <1>2, <2>1
  <1>3. CASE m # 0
    <2>1. m - 1 \in Nat /\ m - 1 \notin T
      <3>1. m \in Nat
        BY <1>1
      <3>2. m - 1 \in Nat /\ ~(m <= m - 1)
        BY <3>1, <1>3
      <3> HIDE DEF T
      <3> QED BY <1>1, <3>2
    <2>2. PICK f : Powers(f, m - 1)
      BY <2>1
    <2> DEFINE g == [k \in 0 .. m |-> IF k = 0 THEN 1 ELSE 2 * f[k - 1]]
    <2>3. \A k \in 0 .. m - 1 : g[k] = f[k]
      BY <2>1, <2>2
    <2>4. Powers(g, m)
      <3>1. ASSUME NEW k \in 0 .. m PROVE g[k] = IF k = 0 THEN 1 ELSE 2 * g[k - 1]
        <4>1. CASE k = 0
          BY <4>1
        <4>2. CASE k # 0
          <5>1. k - 1 \in 0 .. m - 1
            BY <2>1, <4>2
          <5> QED BY <5>1, <2>3, <4>2
        <4> QED BY <4>1, <4>2
      <3> QED BY <3>1
    <2> QED BY <2>1, <2>4
  <1> QED BY <1>2, <1>3

(* Power2 is what its recursion says. *)
LEMMA Power2Step ==
  /\ Power2[0] = 1
  /\ \A k \in 1 .. STKSIZ : Power2[k] = 2 * Power2[k - 1]
  <1> DEFINE Powers(f) == f = [k \in 0 .. STKSIZ |-> IF k = 0 THEN 1 ELSE 2 * f[k - 1]]
  <1>1. STKSIZ \in Nat
    BY QsortAssumption
  <1>2. Powers(CHOOSE f : Powers(f))
    BY <1>1, PowersExist
  <1>3. Powers(Power2)
    BY <1>2 DEF Power2
  <1> QED BY <1>1, <1>3

(* The powers are positive numbers. *)
LEMMA Power2Type == \A k \in 0 .. STKSIZ : Power2[k] \in Nat \ {0}
  <1> DEFINE T == {k \in 0 .. STKSIZ : Power2[k] \notin Nat \ {0}}
  <1> SUFFICES ASSUME T # {} PROVE FALSE
    OBVIOUS
  <1>0. STKSIZ \in Nat
    BY QsortAssumption
  <1>1. PICK k \in T : \A j \in T : k <= j
    <2>1. T \in SUBSET Nat
      BY <1>0
    <2> HIDE DEF T
    <2> QED BY <2>1, LeastNumber
  <1>2. CASE k = 0
    BY <1>1, <1>2, Power2Step
  <1>3. CASE k # 0
    <2>1. k \in 1 .. STKSIZ /\ k - 1 \in 0 .. STKSIZ /\ k - 1 \notin T
      BY <1>0, <1>1, <1>3
    <2>2. Power2[k - 1] \in Nat \ {0}
      BY <2>1
    <2> QED BY <1>1, <2>1, <2>2, Power2Step
  <1> QED BY <1>2, <1>3

(* Least is the least element of a set of integers that are no less than l. *)
LEMMA LeastIs ==
  ASSUME NEW S \in SUBSET Int, NEW l \in Int, \A i \in S : l <= i, S # {}
  PROVE  Least(S) \in S /\ \A j \in S : Least(S) <= j
  <1> DEFINE T == {i \in Nat : l + i \in S}
  <1>1. T \in SUBSET Nat /\ T # {}
    <2>1. PICK i \in S : TRUE
      OBVIOUS
    <2>2. i - l \in Nat /\ l + (i - l) = i
      BY <2>1
    <2> QED BY <2>1, <2>2
  <1>2. PICK m \in T : \A j \in T : m <= j
    <2> HIDE DEF T
    <2> QED BY <1>1, LeastNumber
  <1>3. l + m \in S
    BY <1>2
  <1>4. ASSUME NEW j \in S PROVE l + m <= j
    <2>1. j - l \in Nat /\ l + (j - l) = j
      OBVIOUS
    <2>2. j - l \in T
      BY <2>1
    <2> QED BY <1>2, <2>1, <2>2
  <1>5. \E i \in S : \A j \in S : i <= j
    BY <1>3, <1>4
  <1> QED BY <1>5 DEF Least

(* Greatest is the greatest element of a set of integers that are at most h. *)
LEMMA GreatestIs ==
  ASSUME NEW S \in SUBSET Int, NEW h \in Int, \A i \in S : i <= h, S # {}
  PROVE  Greatest(S) \in S /\ \A j \in S : j <= Greatest(S)
  <1> DEFINE T == {i \in Nat : h - i \in S}
  <1>1. T \in SUBSET Nat /\ T # {}
    <2>1. PICK i \in S : TRUE
      OBVIOUS
    <2>2. h - i \in Nat /\ h - (h - i) = i
      BY <2>1
    <2> QED BY <2>1, <2>2
  <1>2. PICK m \in T : \A j \in T : m <= j
    <2> HIDE DEF T
    <2> QED BY <1>1, LeastNumber
  <1>3. h - m \in S
    BY <1>2
  <1>4. ASSUME NEW j \in S PROVE h - m >= j
    <2>1. h - j \in Nat /\ h - (h - j) = j
      OBVIOUS
    <2>2. h - j \in T
      BY <2>1
    <2> QED BY <1>2, <2>1, <2>2
  <1>5. \E i \in S : \A j \in S : i >= j
    BY <1>3, <1>4
  <1> QED BY <1>5 DEF Greatest

-----------------------------------------------------------------------------
(* The invariant of the sort is about the segments that are still to be    *)
(* sorted: those on the stack and, on top, the one at work.                *)

Whole == 0 .. Size(given) - 1

Pending == IF step = "done" THEN <<>> ELSE Append(stack, <<lo, hi>>)

Width(seg) == seg[2] - seg[1] + 1

Segment(seg) == 0 <= seg[1] /\ seg[1] < seg[2] /\ seg[2] < Size(given)

\* The segment at place k has at most n / 2^(k - 1) elements.
Weighed(st) ==
  /\ st \in Seq(Int \X Int) /\ Len(st) <= STKSIZ
  /\ \A k \in 1 .. Len(st) : Segment(st[k]) /\ Width(st[k]) * Power2[k - 1] <= Size(given)

SortType ==
  /\ given \in Arrays /\ a \in [Whole -> Int]
  /\ step \in {"recurse", "partition", "done"}
  /\ lo \in Int /\ hi \in Int /\ mid \in Int /\ loguy \in Int /\ higuy \in Int
  /\ stack \in Seq(Int \X Int)

\* Where the pivot and the two scans are.
Scanning ==
  step = "partition" => /\ lo <= mid /\ mid < higuy /\ higuy <= hi
                        /\ lo <= loguy /\ loguy < higuy

BoundsInv == SortType /\ Weighed(Pending) /\ Scanning

(* The size of the array is a number, and the array is one of numbers. *)
LEMMA GivenFacts ==
  ASSUME given \in Arrays
  PROVE  /\ Size(given) \in Nat /\ given \in [Whole -> Int] /\ Whole \subseteq Int
         /\ Size(given) < 2 * Power2[STKSIZ]
  BY QsortAssumption DEF Whole

(* An array with the places of the given one has its size. *)
LEMMA SizeIs ==
  ASSUME given \in Arrays, NEW f \in [Whole -> Int]
  PROVE  Size(f) = Size(given)
  <1>1. DOMAIN f = DOMAIN given
    BY GivenFacts
  <1> QED BY <1>1 DEF Size

(* Pop takes the segment at work from the top of what is pending. *)
LEMMA PopIs ==
  ASSUME NEW st \in Seq(Int \X Int), lo \in Int, hi \in Int, Pop(st)
  PROVE  /\ Pending' = st
         /\ step' \in {"recurse", "done"}
         /\ lo' \in Int /\ hi' \in Int /\ stack' \in Seq(Int \X Int)
  <1>1. CASE st = <<>>
    BY <1>1 DEF Pop, Pending
  <1>2. CASE st # <<>>
    <2>1. Len(st) \in Nat \ {0}
      BY <1>2
    <2>2. st[Len(st)] \in Int \X Int
      BY <2>1
    <2>3. <<st[Len(st)][1], st[Len(st)][2]>> = st[Len(st)]
      BY <2>2
    <2>4. /\ step' = "recurse" /\ lo' = st[Len(st)][1] /\ hi' = st[Len(st)][2]
          /\ stack' = SubSeq(st, 1, Len(st) - 1)
      BY <1>2 DEF Pop
    <2>5. Pending' = Append(SubSeq(st, 1, Len(st) - 1), st[Len(st)])
      BY <2>3, <2>4 DEF Pending
    <2>6. Append(SubSeq(st, 1, Len(st) - 1), st[Len(st)]) = st
      BY <2>1, SMTT(30)
    <2> QED BY <2>1, <2>2, <2>4, <2>5, <2>6
  <1> QED BY <1>1, <1>2

(* What is pending while a segment is at work. *)
LEMMA PendingTop ==
  ASSUME SortType, step # "done"
  PROVE  /\ Pending = Append(stack, <<lo, hi>>)
         /\ Len(stack) \in Nat /\ Len(Pending) = Len(stack) + 1
         /\ Pending[Len(stack) + 1] = <<lo, hi>>
         /\ \A k \in 1 .. Len(stack) : Pending[k] = stack[k]
  BY DEF SortType, Pending

(* So the segment at work is a segment, and the stack is not full. *)
LEMMA AtWork ==
  ASSUME BoundsInv, step # "done"
  PROVE  /\ Len(stack) < STKSIZ
         /\ 0 <= lo /\ lo < hi /\ hi < Size(given)
         /\ (hi - lo + 1) * Power2[Len(stack)] <= Size(given)
         /\ Weighed(stack)
  <1>1. SortType /\ Weighed(Pending)
    BY DEF BoundsInv
  <1>2. Len(stack) \in Nat /\ Len(Pending) = Len(stack) + 1 /\ Len(Pending) <= STKSIZ /\ STKSIZ \in Nat
    BY <1>1, PendingTop, QsortAssumption DEF Weighed
  <1>3. Segment(<<lo, hi>>) /\ Width(<<lo, hi>>) * Power2[Len(stack) + 1 - 1] <= Size(given)
    <2>1. Len(stack) + 1 \in 1 .. Len(Pending)
      BY <1>2
    <2>2. /\ Segment(Pending[Len(stack) + 1])
          /\ Width(Pending[Len(stack) + 1]) * Power2[Len(stack) + 1 - 1] <= Size(given)
      <3>1. \A k \in 1 .. Len(Pending) :
              Segment(Pending[k]) /\ Width(Pending[k]) * Power2[k - 1] <= Size(given)
        BY <1>1 DEF Weighed
      <3> QED BY <2>1, <3>1
    <2>3. Pending[Len(stack) + 1] = <<lo, hi>>
      BY <1>1, PendingTop
    <2> QED BY <2>2, <2>3
  <1>4. Len(stack) + 1 - 1 = Len(stack)
    BY <1>2
  <1>5. Weighed(stack)
    <2>1. ASSUME NEW k \in 1 .. Len(stack)
          PROVE  Segment(stack[k]) /\ Width(stack[k]) * Power2[k - 1] <= Size(given)
      <3>1. k \in 1 .. Len(Pending)
        BY <1>2
      <3>2. Pending[k] = stack[k]
        BY <1>1, PendingTop
      <3> QED BY <1>1, <3>1, <3>2 DEF Weighed
    <2>2. stack \in Seq(Int \X Int) /\ Len(stack) <= STKSIZ
      BY <1>1, <1>2 DEF SortType
    <2> QED BY <2>1, <2>2, Zenon DEF Weighed
  <1> QED BY <1>2, <1>3, <1>4, <1>5 DEF Segment, Width

(* A segment put on what is weighed, when it is no heavier than a place    *)
(* at the top allows.                                                      *)
LEMMA PushOne ==
  ASSUME NEW st, Weighed(st), Len(st) < STKSIZ, NEW s \in Int \X Int, Segment(s),
         Width(s) * Power2[Len(st)] <= Size(given)
  PROVE  Weighed(Append(st, s))
  <1>1. st \in Seq(Int \X Int) /\ Len(st) \in Nat /\ STKSIZ \in Nat
    BY QsortAssumption DEF Weighed
  <1> DEFINE t == Append(st, s)
  <1>2. t \in Seq(Int \X Int) /\ Len(t) = Len(st) + 1 /\ t[Len(st) + 1] = s /\ \A k \in 1 .. Len(st) : t[k] = st[k]
    BY <1>1
  <1> HIDE DEF t
  <1>3. ASSUME NEW k \in 1 .. Len(t) PROVE Segment(t[k]) /\ Width(t[k]) * Power2[k - 1] <= Size(given)
    <2>1. CASE k = Len(st) + 1
      <3>1. k - 1 = Len(st)
        BY <1>1, <2>1
      <3> QED BY <1>2, <2>1, <3>1
    <2>2. CASE k # Len(st) + 1
      <3>1. k \in 1 .. Len(st)
        BY <1>1, <1>2, <2>2
      <3> QED BY <1>2, <3>1 DEF Weighed
    <2> QED BY <2>1, <2>2
  <1>4. Weighed(t)
    BY <1>1, <1>2, <1>3 DEF Weighed
  <1> QED BY <1>4 DEF t

(* Products with a power: the two facts of arithmetic that are needed. *)
LEMMA Lighter ==
  ASSUME NEW w \in Int, NEW v \in Int, NEW p \in Nat, NEW n \in Nat, w <= v, v * p <= n
  PROVE  w * p <= n
  OBVIOUS

(* Half the width, twice the power. *)
LEMMA HalfTwice ==
  ASSUME NEW w \in Int, NEW v \in Int, NEW p \in Nat, NEW n \in Nat, 2 * w <= v, v * p <= n
  PROVE  w * (2 * p) <= n
  OBVIOUS

(* Both parts of a split: the larger one is put below the other. *)
LEMMA PushTwo ==
  ASSUME given \in Arrays,
         NEW st, Weighed(st), Len(st) < STKSIZ, NEW w \in Int, w * Power2[Len(st)] <= Size(given),
         NEW s \in Int \X Int, Segment(s), NEW t \in Int \X Int, Segment(t),
         Width(s) + Width(t) <= w, Width(t) <= Width(s)
  PROVE  Weighed(Append(Append(st, s), t))
  <1>1. /\ st \in Seq(Int \X Int) /\ Len(st) \in Nat /\ STKSIZ \in Nat
        /\ Size(given) \in Nat /\ Width(s) \in Nat /\ Width(t) \in Nat
        /\ Width(s) >= 2 /\ Width(t) >= 2
    BY QsortAssumption, GivenFacts, SMTT(30) DEF Weighed, Width, Segment
  <1>2. Power2[Len(st)] \in Nat \ {0}
    BY <1>1, Power2Type
  <1>a. Power2[Len(st)] \in Nat /\ Size(given) \in Nat /\ Width(s) \in Int /\ Width(t) \in Int
    BY <1>1, <1>2
  <1>3. Weighed(Append(st, s))
    <2>1. Width(s) <= w
      BY <1>1
    <2>2. Width(s) * Power2[Len(st)] <= Size(given)
      BY <1>a, <2>1, Lighter, Zenon
    <2> QED BY <2>2, PushOne
  <1>4. Len(Append(st, s)) = Len(st) + 1
    BY <1>1
  <1>5. Power2[Len(st) + 1] = 2 * Power2[Len(st)]
    <2>1. Len(st) + 1 \in 1 .. STKSIZ /\ Len(st) + 1 - 1 = Len(st)
      BY <1>1
    <2> QED BY <2>1, Power2Step
  <1>6. Width(t) * Power2[Len(st) + 1] <= Size(given)
    <2>1. 2 * Width(t) <= w
      BY <1>1
    <2>2. Width(t) * (2 * Power2[Len(st)]) <= Size(given)
      BY <1>a, <2>1, HalfTwice, Zenon
    <2> QED BY <2>2, <1>5
  <1>7. Len(st) + 1 < STKSIZ
    <2> SUFFICES ASSUME Len(st) + 1 = STKSIZ PROVE FALSE
      BY <1>1
    <2>1. Size(given) < 2 * (2 * Power2[Len(st)])
      BY <1>5, GivenFacts
    <2>2. 2 * Power2[Len(st) + 1] <= Size(given)
      <3>1. 2 \in Int /\ 2 <= Width(t) /\ Power2[Len(st) + 1] \in Nat
        BY <1>1, <1>2, <1>5, SMTT(30)
      <3> QED BY <1>a, <1>6, <3>1, Lighter, Zenon
    <2> QED BY <1>1, <1>2, <1>5, <2>1, <2>2, SMTT(30)
  <1> QED BY <1>3, <1>4, <1>6, <1>7, PushOne

-----------------------------------------------------------------------------
(* What the scans of a partition find.                                     *)

(* The state in which they look. *)
LEMMA PartitionFacts ==
  ASSUME BoundsInv, step = "partition"
  PROVE  /\ lo \in Int /\ hi \in Int /\ mid \in Int /\ loguy \in Int /\ higuy \in Int
         /\ lo <= mid /\ mid < higuy /\ higuy <= hi /\ lo <= loguy /\ loguy < higuy
         /\ \A i \in lo .. hi : i \in Whole /\ a[i] \in Int
  <1>1. SortType /\ Scanning /\ 0 <= lo /\ lo < hi /\ hi < Size(given) /\ Size(given) \in Nat
    BY AtWork, GivenFacts DEF BoundsInv, SortType
  <1>2. \A i \in lo .. hi : i \in Whole
    BY <1>1 DEF SortType, Whole
  <1> QED BY <1>1, <1>2 DEF SortType, Scanning

(* Up is the first place after loguy with an element above the pivot, or   *)
(* the end; it is never the pivot's own.                                   *)
LEMMA UpIs ==
  ASSUME BoundsInv, step = "partition"
  PROVE  /\ Up \in Int /\ loguy < Up /\ Up <= hi + 1 /\ Up # mid
         /\ Up <= hi => a[Up] > a[mid]
         /\ \A i \in Int : loguy < i /\ i < Up => a[i] <= a[mid]
  <1> DEFINE S == {i \in loguy + 1 .. mid : i = mid \/ a[i] > a[mid]}
             l == IF mid > loguy THEN Least(S) ELSE loguy
             R == {i \in l + 1 .. hi + 1 : i = hi + 1 \/ a[i] > a[mid]}
  <1>0. Up = IF mid <= l THEN Least(R) ELSE l
    BY DEF Up
  <1>1. /\ l \in Int /\ loguy <= l /\ l <= hi
        /\ \A i \in Int : loguy < i /\ i < l => a[i] <= a[mid]
        /\ mid > loguy => loguy < l /\ l <= mid /\ (l = mid \/ a[l] > a[mid])
    <2>1. CASE mid > loguy
      <3>1. S \in SUBSET Int /\ mid \in S /\ \A i \in S : loguy + 1 <= i
        BY <2>1, PartitionFacts
      <3>2. Least(S) \in S /\ \A j \in S : Least(S) <= j
        <4>1. loguy + 1 \in Int
          BY PartitionFacts
        <4> HIDE DEF S
        <4> QED BY <3>1, <4>1, LeastIs
      <3>3. l = Least(S)
        BY <2>1
      <3>4. l \in Int /\ loguy < l /\ l <= mid /\ (l = mid \/ a[l] > a[mid])
        BY <3>2, <3>3, PartitionFacts
      <3>5. ASSUME NEW i \in Int, loguy < i, i < l PROVE a[i] <= a[mid]
        <4>1. i \notin S /\ i \in loguy + 1 .. mid /\ i # mid /\ i \in lo .. hi /\ mid \in lo .. hi
          <5>1. i \notin S
            <6> HIDE DEF S, l
            <6> QED BY <3>2, <3>3, <3>4, <3>5
          <5> HIDE DEF S, l
          <5> QED BY <5>1, <3>4, <3>5, PartitionFacts
        <4> QED BY <4>1, PartitionFacts
      <3> HIDE DEF S, l
      <3> QED BY <2>1, <3>4, <3>5, PartitionFacts
    <2>2. CASE ~(mid > loguy)
      BY <2>2, PartitionFacts
    <2> QED BY <2>1, <2>2
  <1> HIDE DEF S, l
  <1>2. CASE mid <= l
    <2>1. R \in SUBSET Int /\ hi + 1 \in R /\ \A i \in R : l + 1 <= i
      BY <1>1, PartitionFacts
    <2>2. Least(R) \in R /\ \A j \in R : Least(R) <= j
      <3>1. l + 1 \in Int
        BY <1>1
      <3> HIDE DEF R
      <3> QED BY <2>1, <3>1, LeastIs
    <2>3. Up = Least(R)
      BY <1>0, <1>2
    <2>4. Up \in Int /\ l < Up /\ Up <= hi + 1 /\ (Up = hi + 1 \/ a[Up] > a[mid])
      BY <2>2, <2>3, <1>1, PartitionFacts
    <2>5. ASSUME NEW i \in Int, l < i, i < Up PROVE a[i] <= a[mid]
      <3>1. i \notin R
        <4> HIDE DEF R
        <4> QED BY <2>2, <2>3, <2>4, <2>5
      <3>2. i \in l + 1 .. hi + 1 /\ i # hi + 1 /\ i \in lo .. hi /\ mid \in lo .. hi
        BY <2>4, <2>5, <1>1, PartitionFacts
      <3> QED BY <3>1, <3>2, PartitionFacts
    <2>6. a[l] <= a[mid] \/ l = loguy
      <3>1. CASE mid > loguy
        <4>1. l = mid
          BY <1>1, <1>2, <3>1, PartitionFacts
        <4>2. a[mid] \in Int
          BY PartitionFacts
        <4> QED BY <4>1, <4>2
      <3>2. CASE ~(mid > loguy)
        BY <3>2 DEF l
      <3> QED BY <3>1, <3>2
    <2>7. ASSUME NEW i \in Int, loguy < i, i < Up PROVE a[i] <= a[mid]
      <3>1. CASE i < l
        BY <1>1, <2>7, <3>1
      <3>2. CASE i = l
        BY <2>6, <2>7, <3>2, PartitionFacts
      <3>3. CASE l < i
        BY <2>5, <2>7, <3>3
      <3> QED BY <1>1, <3>1, <3>2, <3>3
    <2> QED BY <2>4, <2>7, <1>1, <1>2, PartitionFacts
  <1>3. CASE ~(mid <= l)
    <2>1. Up = l
      BY <1>0, <1>3
    <2>2. mid > loguy /\ l # mid
      BY <1>1, <1>3, PartitionFacts
    <2> QED BY <1>1, <2>1, <2>2, PartitionFacts
  <1> QED BY <1>2, <1>3

(* Down is the last place before higuy with an element that is not above   *)
(* the pivot, or the pivot's own.                                          *)
LEMMA DownIs ==
  ASSUME BoundsInv, step = "partition"
  PROVE  /\ Down \in Int /\ mid <= Down /\ Down < higuy
         /\ Down = mid \/ a[Down] <= a[mid]
         /\ \A i \in Int : Down < i /\ i < higuy => a[i] > a[mid]
  <1> DEFINE S == {i \in mid .. higuy - 1 : i = mid \/ a[i] <= a[mid]} \cup ({higuy - 1} \ mid .. hi)
  <1>0. Down = Greatest(S)
    BY DEF Down
  <1>1. S \in SUBSET Int /\ mid \in S /\ \A i \in S : i <= higuy - 1
    BY PartitionFacts
  <1>2. \A i \in Int : i \in S <=> mid <= i /\ i < higuy /\ (i = mid \/ a[i] <= a[mid])
    BY PartitionFacts
  <1> HIDE DEF S
  <1>3. Down \in S /\ \A j \in S : j <= Down
    <2>1. higuy - 1 \in Int
      BY PartitionFacts
    <2> QED BY <1>0, <1>1, <2>1, GreatestIs
  <1>4. Down \in Int /\ mid <= Down /\ Down < higuy /\ (Down = mid \/ a[Down] <= a[mid])
    BY <1>1, <1>2, <1>3
  <1>5. ASSUME NEW i \in Int, Down < i, i < higuy PROVE a[i] > a[mid]
    <2>1. i \notin S
      BY <1>3, <1>4, <1>5
    <2>2. mid <= i /\ i # mid /\ i \in lo .. hi /\ mid \in lo .. hi
      BY <1>4, <1>5, PartitionFacts
    <2>3. ~(a[i] <= a[mid])
      BY <1>2, <1>5, <2>1, <2>2
    <2> QED BY <2>2, <2>3, PartitionFacts
  <1> QED BY <1>4, <1>5

(* LowerEnd leaves out elements that equal the pivot, and no others. *)
LEMMA LowerEndIs ==
  ASSUME BoundsInv, step = "partition", NEW h \in Int, mid < h, h <= hi
  PROVE  /\ LowerEnd(h) \in Int /\ LowerEnd(h) < h /\ lo - 1 <= LowerEnd(h)
         /\ \A i \in Int : LowerEnd(h) < i /\ i < h => a[i] = a[mid]
  <1> DEFINE S == {i \in mid .. h - 1 : i = mid \/ a[i] # a[mid]}
             d == Greatest(S)
             R == {i \in lo .. d - 1 : i = lo \/ a[i] # a[mid]} \cup ({d - 1} \ lo .. hi)
  <1>0. LowerEnd(h) = IF mid >= d THEN Greatest(R) ELSE d
    BY DEF LowerEnd
  <1>1. S \in SUBSET Int /\ mid \in S /\ \A i \in S : i <= h - 1
    BY PartitionFacts
  <1>2. d \in S /\ \A j \in S : j <= d
    <2>1. h - 1 \in Int
      OBVIOUS
    <2> HIDE DEF S
    <2> QED BY <1>1, <2>1, GreatestIs
  <1>3. d \in Int /\ mid <= d /\ d < h
    BY <1>1, <1>2, PartitionFacts
  <1>4. ASSUME NEW i \in Int, d < i, i < h PROVE a[i] = a[mid]
    <2>1. i \notin S
      <3> HIDE DEF S, d
      <3> QED BY <1>2, <1>3, <1>4
    <2> HIDE DEF d
    <2> QED BY <2>1, <1>3, <1>4, PartitionFacts
  <1>5. CASE ~(mid >= d)
    BY <1>0, <1>3, <1>4, <1>5, PartitionFacts
  <1>6. CASE mid >= d
    <2>1. d = mid /\ LowerEnd(h) = Greatest(R)
      BY <1>0, <1>3, <1>6, PartitionFacts
    <2> HIDE DEF d
    <2>2. R \in SUBSET Int /\ (\A i \in R : i <= d - 1) /\ R # {}
      <3>1. CASE d = lo
        <4>1. d - 1 \in R
          BY <1>3, <3>1, PartitionFacts
        <4> QED BY <1>3, <4>1, PartitionFacts
      <3>2. CASE d # lo
        <4>1. lo \in R
          BY <1>3, <2>1, <3>2, PartitionFacts
        <4> QED BY <1>3, <4>1, PartitionFacts
      <3> QED BY <3>1, <3>2
    <2>3. \A i \in Int : lo <= i /\ i < d => (i \in R <=> (i = lo \/ a[i] # a[mid]))
      BY <1>3, PartitionFacts
    <2>4. \A i \in R : lo - 1 <= i
      BY <1>3, <2>1, PartitionFacts
    <2> HIDE DEF R
    <2>5. LowerEnd(h) \in R /\ \A j \in R : j <= LowerEnd(h)
      <3>1. d - 1 \in Int
        BY <1>3
      <3> QED BY <2>1, <2>2, <3>1, GreatestIs
    <2>6. LowerEnd(h) \in Int /\ LowerEnd(h) <= d - 1 /\ lo - 1 <= LowerEnd(h)
      BY <2>2, <2>4, <2>5
    <2>7. ASSUME NEW i \in Int, LowerEnd(h) < i, i < h PROVE a[i] = a[mid]
      <3>1. CASE i > d
        BY <1>4, <2>7, <3>1
      <3>2. CASE i = d
        BY <2>1, <3>2
      <3>3. CASE i < d
        <4>1. i \notin R
          BY <2>5, <2>6, <2>7
        <4>2. lo <= i
          BY <2>6, <2>7, PartitionFacts
        <4> QED BY <2>3, <2>7, <3>3, <4>1, <4>2
      <3> QED BY <1>3, <3>1, <3>2, <3>3
    <2> QED BY <2>6, <2>7, <1>3, PartitionFacts
  <1> QED BY <1>5, <1>6

-----------------------------------------------------------------------------
(* Rearranging: g has the elements of f, and only those at l .. h are      *)
(* elsewhere.                                                              *)

Shuffle(D, l, h) ==
  {p \in [D -> D] :
     /\ \A i, j \in D : p[i] = p[j] => i = j
     /\ \A j \in D : \E i \in D : p[i] = j
     /\ \A i \in D : i \in l .. h => p[i] \in l .. h
     /\ \A i \in D : i \notin l .. h => p[i] = i}

Shuffled(D, f, g, l, h) ==
  g \in [D -> Int] /\ \E p \in Shuffle(D, l, h) : \A i \in D : g[i] = f[p[i]]

(* Nothing moved. *)
LEMMA ShuffledSame ==
  ASSUME NEW D, NEW f \in [D -> Int], NEW l, NEW h
  PROVE  Shuffled(D, f, f, l, h)
  <1> DEFINE p == [i \in D |-> i]
  <1>1. p \in Shuffle(D, l, h)
    BY DEF Shuffle
  <1>2. \A i \in D : f[i] = f[p[i]]
    OBVIOUS
  <1> QED BY <1>1, <1>2 DEF Shuffled

(* Two elements exchanged. *)
LEMMA ShuffledSwap ==
  ASSUME NEW D, NEW f \in [D -> Int], NEW l, NEW h, NEW i \in D, NEW j \in D,
         i \in l .. h, j \in l .. h
  PROVE  Shuffled(D, f, Swapped(f, i, j), l, h)
  <1> DEFINE p == [x \in D |-> IF x = i THEN j ELSE IF x = j THEN i ELSE x]
  <1>1. p \in Shuffle(D, l, h)
    <2>1. p \in [D -> D] /\ \A x, y \in D : p[x] = p[y] => x = y
      OBVIOUS
    <2>2. ASSUME NEW y \in D PROVE \E x \in D : p[x] = y
      <3>1. p[p[y]] = y /\ p[y] \in D
        OBVIOUS
      <3> QED BY <3>1
    <2>3. /\ \A x \in D : x \in l .. h => p[x] \in l .. h
          /\ \A x \in D : x \notin l .. h => p[x] = x
      <3> DEFINE I == l .. h
      <3>1. i \in I /\ j \in I
        OBVIOUS
      <3> HIDE DEF I
      <3>2. (\A x \in D : x \in I => p[x] \in I) /\ (\A x \in D : x \notin I => p[x] = x)
        BY <3>1
      <3> QED BY <3>2 DEF I
    <2> HIDE DEF p
    <2> QED BY <2>1, <2>2, <2>3 DEF Shuffle
  <1>2. PICK g : /\ g = Swapped(f, i, j) /\ g \in [D -> Int] /\ g[i] = f[j] /\ g[j] = f[i]
                 /\ \A x \in D : x # i /\ x # j => g[x] = f[x]
    <2>1. /\ Swapped(f, i, j) \in [D -> Int]
          /\ Swapped(f, i, j)[i] = f[j] /\ Swapped(f, i, j)[j] = f[i]
          /\ \A x \in D : x # i /\ x # j => Swapped(f, i, j)[x] = f[x]
      BY DEF Swapped
    <2> QED BY <2>1, Zenon
  <1>3. ASSUME NEW x \in D PROVE g[x] = f[p[x]]
    BY <1>2
  <1> HIDE DEF p
  <1> QED BY <1>1, <1>2, <1>3 DEF Shuffled

(* Two rearrangements, one after the other. *)
LEMMA ShuffledThen ==
  ASSUME NEW D, NEW f, NEW g, NEW k, NEW l, NEW h,
         Shuffled(D, f, g, l, h), Shuffled(D, g, k, l, h)
  PROVE  Shuffled(D, f, k, l, h)
  <1>1. PICK p \in Shuffle(D, l, h) : \A i \in D : g[i] = f[p[i]]
    BY DEF Shuffled
  <1>2. PICK q \in Shuffle(D, l, h) : \A i \in D : k[i] = g[q[i]]
    BY DEF Shuffled
  <1> DEFINE r == [i \in D |-> p[q[i]]]
             I == l .. h
  <1>3. /\ p \in [D -> D]
        /\ \A i, j \in D : p[i] = p[j] => i = j
        /\ \A j \in D : \E i \in D : p[i] = j
        /\ \A i \in D : i \in I => p[i] \in I
        /\ \A i \in D : i \notin I => p[i] = i
    BY DEF Shuffle
  <1>4. /\ q \in [D -> D]
        /\ \A i, j \in D : q[i] = q[j] => i = j
        /\ \A j \in D : \E i \in D : q[i] = j
        /\ \A i \in D : i \in I => q[i] \in I
        /\ \A i \in D : i \notin I => q[i] = i
    BY DEF Shuffle
  <1>5. r \in Shuffle(D, l, h)
    <2> HIDE DEF I
    <2>1. r \in [D -> D] /\ \A i, j \in D : r[i] = r[j] => i = j
      BY <1>3, <1>4
    <2>2. \A j \in D : \E i \in D : r[i] = j
      BY <1>3, <1>4
    <2>3. /\ \A i \in D : i \in I => r[i] \in I
          /\ \A i \in D : i \notin I => r[i] = i
      BY <1>3, <1>4
    <2> HIDE DEF r
    <2> QED BY <2>1, <2>2, <2>3 DEF Shuffle, I
  <1>6. \A i \in D : k[i] = f[r[i]]
    BY <1>1, <1>2, <1>4
  <1> HIDE DEF r
  <1> QED BY <1>5, <1>6 DEF Shuffled

(* Elements put in order. *)
LEMMA ShuffledOrdered ==
  ASSUME NEW D, NEW f \in [D -> Int], NEW l, NEW h, NEW i \in D, NEW j \in D,
         i \in l .. h, j \in l .. h
  PROVE  Shuffled(D, f, Ordered(f, i, j), l, h)
  BY ShuffledSwap, ShuffledSame DEF Ordered

(* What is rearranged inside is so in the whole. *)
LEMMA ShuffledWider ==
  ASSUME NEW D, NEW f, NEW g, NEW l, NEW h, NEW m, NEW n, Shuffled(D, f, g, l, h), D \subseteq m .. n
  PROVE  Shuffled(D, f, g, m, n)
  <1>1. PICK p \in Shuffle(D, l, h) : \A i \in D : g[i] = f[p[i]]
    BY DEF Shuffled
  <1>2. p \in Shuffle(D, m, n)
    <2> DEFINE I == m .. n
    <2>1. D \subseteq I
      OBVIOUS
    <2> HIDE DEF I
    <2>2. \A i \in D : i \in I /\ p[i] \in I
      BY <2>1 DEF Shuffle
    <2> QED BY <2>2 DEF Shuffle, I
  <1> QED BY <1>1, <1>2 DEF Shuffled

-----------------------------------------------------------------------------
(* The selection sort of short segments.                                   *)

(* Some place of a segment has a greatest element: by induction. *)
LEMMA MaxPlace ==
  ASSUME NEW l \in Int, NEW n \in Nat, NEW f, \A i \in l .. l + n : f[i] \in Int
  PROVE  \E p \in l .. l + n : \A q \in l .. l + n : f[q] <= f[p]
  <1> DEFINE Has(m) == \E p \in l .. l + m : \A q \in l .. l + m : f[q] <= f[p]
             T == {m \in 0 .. n : ~Has(m)}
  <1> SUFFICES ASSUME T # {} PROVE FALSE
    <2>1. n \in 0 .. n
      OBVIOUS
    <2>2. ~Has(n) => n \in T
      BY <2>1
    <2>3. Has(n) => \E p \in l .. l + n : \A q \in l .. l + n : f[q] <= f[p]
      OBVIOUS
    <2> HIDE DEF Has, T
    <2> QED BY <2>2, <2>3
  <1>1. PICK m \in T : \A j \in T : m <= j
    <2>1. T \in SUBSET Nat
      OBVIOUS
    <2> HIDE DEF T
    <2> QED BY <2>1, LeastNumber
  <1>2. m \in 0 .. n /\ ~Has(m)
    BY <1>1
  <1>3. CASE m = 0
    <2>1. l \in l .. l + m /\ f[l] \in Int /\ \A q \in l .. l + m : q = l
      BY <1>3
    <2>2. ASSUME NEW q \in l .. l + m PROVE f[q] <= f[l]
      <3>1. q = l
        BY <2>1
      <3> QED BY <2>1, <3>1
    <2> QED BY <1>2, <2>1, <2>2
  <1>4. CASE m # 0
    <2>1. m - 1 \in 0 .. n /\ ~(m <= m - 1)
      BY <1>2, <1>4
    <2>2. Has(m - 1)
      <3>1. m - 1 \notin T
        <4> HIDE DEF T
        <4> QED BY <1>1, <2>1
      <3> HIDE DEF Has
      <3> QED BY <2>1, <3>1
    <2>3. PICK p \in l .. l + (m - 1) : \A q \in l .. l + (m - 1) : f[q] <= f[p]
      BY <2>2
    <2>4. /\ p \in l .. l + m /\ l + m \in l .. l + m /\ f[p] \in Int /\ f[l + m] \in Int
          /\ \A q \in l .. l + m : f[q] \in Int /\ (q = l + m \/ q \in l .. l + (m - 1))
      BY <1>2, <2>1, <2>3
    <2>5. CASE f[p] >= f[l + m]
      BY <1>2, <2>3, <2>4, <2>5
    <2>6. CASE f[p] < f[l + m]
      <3>1. \A q \in l .. l + m : f[q] <= f[l + m]
        BY <2>3, <2>4, <2>6
      <3> QED BY <1>2, <2>4, <3>1
    <2> QED BY <2>4, <2>5, <2>6
  <1> QED BY <1>3, <1>4

\* One round: the greatest of l .. h - k + 1 goes to its end.
SelectStep(f, l, h, k) ==
  Swapped(f, Least({p \in l .. h - k + 1 : \A q \in l .. h - k + 1 : f[q] <= f[p]}), h - k + 1)

\* The last k elements of the segment are where they belong.
LastInPlace(f, l, h, k) == \A i, j \in l .. h : i < j /\ j > h - k => f[i] <= f[j]

(* A round puts one more element where it belongs. *)
LEMMA SelectStepIs ==
  ASSUME NEW D, NEW l \in Int, NEW h \in Int, l .. h \subseteq D,
         NEW f \in [D -> Int], NEW k \in 1 .. h - l, LastInPlace(f, l, h, k - 1)
  PROVE  /\ Shuffled(D, f, SelectStep(f, l, h, k), l, h)
         /\ LastInPlace(SelectStep(f, l, h, k), l, h, k)
  <1> DEFINE e == h - k + 1
             S == {p \in l .. e : \A q \in l .. e : f[q] <= f[p]}
  <1>1. e \in Int /\ l < e /\ e <= h /\ e = h - k + 1 /\ k \in Int
    OBVIOUS
  <1>2. SelectStep(f, l, h, k) = Swapped(f, Least(S), e)
    BY DEF SelectStep
  <1> HIDE DEF e
  <1>3. \A i \in l .. e : i \in D /\ f[i] \in Int /\ i \in l .. h
    BY <1>1
  <1>4. S \in SUBSET Int /\ (\A i \in S : l <= i) /\ S # {}
    <2>1. e - l \in Nat /\ l + (e - l) = e
      BY <1>1
    <2>2. \E p \in l .. e : \A q \in l .. e : f[q] <= f[p]
      BY <1>3, <2>1, MaxPlace
    <2> QED BY <2>2
  <1>5. PICK m : m = Least(S) /\ m \in S
    <2> HIDE DEF S
    <2> QED BY <1>4, LeastIs
  <1>6. m \in l .. e /\ m \in D /\ e \in D /\ m \in l .. h /\ e \in l .. h /\ \A q \in l .. e : f[q] <= f[m]
    BY <1>1, <1>3, <1>5
  <1>7. PICK g : g = SelectStep(f, l, h, k) /\ g = Swapped(f, m, e)
    BY <1>2, <1>5
  <1>8. Shuffled(D, f, g, l, h)
    <2>1. Shuffled(D, f, Swapped(f, m, e), l, h)
      BY <1>6, ShuffledSwap, Zenon
    <2> QED BY <1>7, <2>1
  <1>9. /\ g \in [D -> Int] /\ g[m] = f[e] /\ g[e] = f[m]
        /\ \A x \in D : x # m /\ x # e => g[x] = f[x]
    <2>1. /\ Swapped(f, m, e) \in [D -> Int]
          /\ Swapped(f, m, e)[m] = f[e] /\ Swapped(f, m, e)[e] = f[m]
          /\ \A x \in D : x # m /\ x # e => Swapped(f, m, e)[x] = f[x]
      BY <1>6 DEF Swapped
    <2> QED BY <1>7, <2>1, Zenon
  <1>10. ASSUME NEW i \in l .. h, NEW j \in l .. h, i < j, j > h - k PROVE g[i] <= g[j]
    <2>1. i \in D /\ j \in D /\ j >= e /\ i \in Int /\ j \in Int
      BY <1>1, <1>10
    <2>2. PICK x \in l .. h : g[i] = f[x] /\ x \in Int /\ x <= (IF i <= e THEN e ELSE i)
      <3>1. CASE i = m
        BY <1>1, <1>6, <1>9, <3>1
      <3>2. CASE i # m /\ i = e
        BY <1>1, <1>6, <1>9, <3>2
      <3>3. CASE i # m /\ i # e
        BY <1>1, <1>9, <2>1, <3>3
      <3> QED BY <3>1, <3>2, <3>3
    <2>3. CASE j = e
      <3>1. x \in l .. e
        BY <1>1, <1>10, <2>1, <2>2, <2>3
      <3> QED BY <1>6, <1>9, <2>2, <2>3, <3>1
    <2>4. CASE j > e
      <3>1. g[j] = f[j]
        BY <1>1, <1>6, <1>9, <2>1, <2>4
      <3>2. x < j /\ j > h - (k - 1)
        BY <1>1, <1>10, <2>1, <2>2, <2>4
      <3>3. f[x] <= f[j]
        BY <2>2, <3>2 DEF LastInPlace
      <3> QED BY <2>2, <3>1, <3>3
    <2> QED BY <1>1, <2>1, <2>3, <2>4
  <1>11. LastInPlace(g, l, h, k)
    BY <1>10 DEF LastInPlace
  <1> QED BY <1>7, <1>8, <1>11

\* The recursion of the selection sort, of n rounds.
Selects(f, l, h, g, n) == g = [k \in 0 .. n |-> IF k = 0 THEN f ELSE SelectStep(g[k - 1], l, h, k)]

(* Some function satisfies it. *)
LEMMA SelectsExist ==
  ASSUME NEW n \in Nat, NEW f, NEW l, NEW h
  PROVE  \E g : Selects(f, l, h, g, n)
  <1> DEFINE T == {m \in Nat : ~ \E g : Selects(f, l, h, g, m)}
  <1> SUFFICES ASSUME T # {} PROVE FALSE
    OBVIOUS
  <1>1. PICK m \in T : \A j \in T : m <= j
    <2>1. T \in SUBSET Nat
      OBVIOUS
    <2> HIDE DEF T
    <2> QED BY <2>1, LeastNumber
  <1>2. CASE m = 0
    <2> DEFINE g == [k \in 0 .. 0 |-> f]
    <2>1. Selects(f, l, h, g, 0)
      BY DEF Selects
    <2> QED BY <1>2, <2>1
  <1>3. CASE m # 0
    <2>1. m \in Nat /\ m - 1 \in Nat /\ m - 1 \notin T
      <3>1. m \in Nat
        BY <1>1
      <3>2. m - 1 \in Nat /\ ~(m <= m - 1)
        BY <3>1, <1>3
      <3> HIDE DEF T
      <3> QED BY <1>1, <3>1, <3>2
    <2>2. PICK p : Selects(f, l, h, p, m - 1)
      BY <2>1
    <2> DEFINE g == [k \in 0 .. m |-> IF k = 0 THEN f ELSE SelectStep(p[k - 1], l, h, k)]
    <2>3. \A k \in 0 .. m - 1 : g[k] = p[k]
      BY <2>1, <2>2 DEF Selects
    <2>4. ASSUME NEW k \in 0 .. m PROVE g[k] = IF k = 0 THEN f ELSE SelectStep(g[k - 1], l, h, k)
      <3>1. CASE k = 0
        BY <3>1
      <3>2. CASE k # 0
        <4>1. k - 1 \in 0 .. m - 1
          BY <2>1, <3>2
        <4> QED BY <4>1, <2>3, <3>2
      <3> QED BY <3>1, <3>2
    <2>5. Selects(f, l, h, g, m)
      BY <2>4 DEF Selects
    <2> QED BY <2>1, <2>5, <1>1
  <1> QED BY <1>2, <1>3

(* After every round: by induction on the rounds. *)
LEMMA SelectsIs ==
  ASSUME NEW D, NEW l \in Int, NEW h \in Int, l <= h, l .. h \subseteq D,
         NEW f \in [D -> Int], NEW g, Selects(f, l, h, g, h - l)
  PROVE  Shuffled(D, f, g[h - l], l, h) /\ LastInPlace(g[h - l], l, h, h - l)
  <1> DEFINE Good(k) == Shuffled(D, f, g[k], l, h) /\ LastInPlace(g[k], l, h, k)
             T == {k \in 0 .. h - l : ~Good(k)}
  <1>0. /\ g[0] = f
        /\ \A k \in 1 .. h - l : g[k] = SelectStep(g[k - 1], l, h, k)
    BY DEF Selects
  <1> SUFFICES ASSUME T # {} PROVE FALSE
    OBVIOUS
  <1>1. PICK k \in T : \A j \in T : k <= j
    <2>1. T \in SUBSET Nat
      OBVIOUS
    <2> HIDE DEF T
    <2> QED BY <2>1, LeastNumber
  <1>2. k \in 0 .. h - l /\ ~Good(k)
    BY <1>1
  <1>3. CASE k = 0
    <2>1. Shuffled(D, f, g[0], l, h)
      BY <1>0, ShuffledSame
    <2>2. LastInPlace(g[0], l, h, 0)
      BY DEF LastInPlace
    <2> QED BY <1>2, <1>3, <2>1, <2>2
  <1>4. CASE k # 0
    <2>1. k \in 1 .. h - l /\ k - 1 \in 0 .. h - l /\ ~(k <= k - 1)
      BY <1>2, <1>4
    <2>2. Good(k - 1)
      <3>1. k - 1 \notin T
        <4> HIDE DEF T
        <4> QED BY <1>1, <2>1
      <3> HIDE DEF Good
      <3> QED BY <2>1, <3>1
    <2>3. g[k - 1] \in [D -> Int]
      BY <2>2 DEF Shuffled
    <2>4. Shuffled(D, g[k - 1], g[k], l, h) /\ LastInPlace(g[k], l, h, k)
      BY <1>0, <2>1, <2>2, <2>3, SelectStepIs
    <2>5. Good(k)
      BY <2>2, <2>4, ShuffledThen
    <2> QED BY <1>2, <2>5
  <1> QED BY <1>3, <1>4

(* The selection sort sorts the segment and moves nothing else. *)
LEMMA SelectionSortedIs ==
  ASSUME NEW D, lo \in Int, hi \in Int, lo <= hi, lo .. hi \subseteq D, a \in [D -> Int]
  PROVE  /\ Shuffled(D, a, SelectionSorted, lo, hi)
         /\ \A i, j \in lo .. hi : i < j => SelectionSorted[i] <= SelectionSorted[j]
  <1>1. SelectionSorted = (CHOOSE g : Selects(a, lo, hi, g, hi - lo))[hi - lo]
    BY DEF SelectionSorted, Selects, SelectStep
  <1>2. PICK g : g = (CHOOSE x : Selects(a, lo, hi, x, hi - lo)) /\ Selects(a, lo, hi, g, hi - lo)
    <2>1. hi - lo \in Nat
      OBVIOUS
    <2> QED BY <2>1, SelectsExist
  <1>3. Shuffled(D, a, g[hi - lo], lo, hi) /\ LastInPlace(g[hi - lo], lo, hi, hi - lo)
    BY <1>2, SelectsIs
  <1>4. SelectionSorted = g[hi - lo]
    BY <1>1, <1>2
  <1>5. \A i, j \in lo .. hi : i < j => g[hi - lo][i] <= g[hi - lo][j]
    BY <1>3 DEF LastInPlace
  <1> QED BY <1>3, <1>4, <1>5
-----------------------------------------------------------------------------
(* The bounds: every action keeps them.                                    *)

(* At first the whole array is pending. *)
LEMMA BoundsInit == QsortInit => BoundsInv
  <1> SUFFICES ASSUME QsortInit PROVE BoundsInv
    OBVIOUS
  <1>1. given \in Arrays /\ Size(given) \in Nat /\ given \in [Whole -> Int]
    BY GivenFacts DEF QsortInit
  <1>2. SortType
    BY <1>1 DEF QsortInit, SortType
  <1>3. STKSIZ \in Nat \ {0}
    BY QsortAssumption
  <1>4. Weighed(Pending)
    <2>1. Weighed(<<>>)
      BY <1>3 DEF Weighed
    <2>2. CASE Size(given) <= 1
      BY <2>1, <2>2 DEF QsortInit, Pending
    <2>3. CASE ~(Size(given) <= 1)
      <3>1. Pending = Append(<<>>, <<lo, hi>>) /\ lo = 0 /\ hi = Size(given) - 1
        BY <2>3, <1>1 DEF QsortInit, Pending
      <3>2. Segment(<<lo, hi>>) /\ Width(<<lo, hi>>) * Power2[0] <= Size(given) /\ <<lo, hi>> \in Int \X Int
        BY <1>1, <2>3, <3>1, Power2Step DEF Segment, Width
      <3>3. Len(<<>>) = 0 /\ 0 < STKSIZ
        BY <1>3
      <3> QED BY <2>1, <3>1, <3>2, <3>3, PushOne
    <2> QED BY <2>2, <2>3
  <1>5. Scanning
    BY DEF QsortInit, Scanning
  <1> QED BY <1>2, <1>4, <1>5 DEF BoundsInv

(* What is weighed stays so, as long as the array keeps its size. *)
LEMMA WeighedNext ==
  ASSUME NEW st, Weighed(st), given' = given, Pending' = st
  PROVE  Weighed(Pending)'
  BY DEF Weighed, Segment, Width

(* A short segment is sorted and gone. *)
LEMMA SortShortIs ==
  ASSUME BoundsInv, SortShort
  PROVE  /\ Pending' = stack
         /\ Shuffled(Whole, a, a', lo, hi)
         /\ \A i, j \in lo .. hi : i < j => a'[i] <= a'[j]
         /\ BoundsInv'
  <1>1. /\ SortType /\ step = "recurse" /\ Pop(stack) /\ a' = SelectionSorted
        /\ UNCHANGED <<given, mid, loguy, higuy>>
    BY DEF BoundsInv, SortShort
  <1>2. 0 <= lo /\ lo < hi /\ hi < Size(given) /\ Weighed(stack)
    BY <1>1, AtWork
  <1>3. lo \in Int /\ hi \in Int /\ stack \in Seq(Int \X Int) /\ a \in [Whole -> Int] /\ given \in Arrays
    BY <1>1 DEF SortType
  <1>4. /\ Pending' = stack /\ step' \in {"recurse", "done"}
        /\ lo' \in Int /\ hi' \in Int /\ stack' \in Seq(Int \X Int)
    BY <1>1, <1>3, PopIs
  <1>5. lo .. hi \subseteq Whole /\ lo <= hi
    BY <1>2, <1>3, GivenFacts DEF Whole
  <1>6. Shuffled(Whole, a, a', lo, hi) /\ \A i, j \in lo .. hi : i < j => a'[i] <= a'[j]
    BY <1>1, <1>3, <1>5, SelectionSortedIs
  <1>7. SortType'
    BY <1>1, <1>3, <1>4, <1>6 DEF SortType, Shuffled, Whole
  <1>8. Weighed(Pending)'
    BY <1>1, <1>2, <1>4, WeighedNext
  <1>9. Scanning'
    BY <1>4 DEF Scanning
  <1> QED BY <1>4, <1>6, <1>7, <1>8, <1>9 DEF BoundsInv

(* The median of three is in the middle. *)
LEMMA ChoosePivotIs ==
  ASSUME BoundsInv, ChoosePivot
  PROVE  /\ Pending' = Pending
         /\ Shuffled(Whole, a, a', lo, hi)
         /\ a'[lo] <= a'[mid'] /\ a'[mid'] <= a'[hi]
         /\ BoundsInv'
  <1> DEFINE m == lo + (hi - lo + 1) \div 2
             b == Ordered(a, lo, m)
             c == Ordered(b, lo, hi)
  <1>1. /\ SortType /\ step = "recurse" /\ hi - lo + 1 > CUTOFF
        /\ a' = Ordered(c, m, hi) /\ mid' = m /\ loguy' = lo /\ higuy' = hi /\ step' = "partition"
        /\ UNCHANGED <<given, lo, hi, stack>>
    BY DEF BoundsInv, ChoosePivot
  <1>2. 0 <= lo /\ lo < hi /\ hi < Size(given)
    BY <1>1, AtWork
  <1>3. lo \in Int /\ hi \in Int /\ stack \in Seq(Int \X Int) /\ a \in [Whole -> Int] /\ given \in Arrays
    BY <1>1 DEF SortType
  <1>4. m \in Int /\ lo < m /\ m < hi
    <2>1. CUTOFF \in Nat /\ CUTOFF >= 2
      BY QsortAssumption
    <2>2. hi - lo + 1 >= 3
      BY <1>1, <1>3, <2>1
    <2> QED BY <1>3, <2>2
  <1> HIDE DEF m
  <1>5. lo \in Whole /\ m \in Whole /\ hi \in Whole /\ lo \in lo .. hi /\ m \in lo .. hi /\ hi \in lo .. hi
    BY <1>2, <1>3, <1>4, GivenFacts DEF Whole
  <1>6. Shuffled(Whole, a, b, lo, hi) /\ b \in [Whole -> Int] /\ b[lo] <= b[m]
    <2>1. Shuffled(Whole, a, b, lo, hi)
      BY <1>3, <1>5, ShuffledOrdered
    <2>2. b[lo] <= b[m]
      BY <1>3, <1>4, <1>5 DEF Ordered, Swapped
    <2> QED BY <2>1, <2>2 DEF Shuffled
  <1> HIDE DEF b
  <1>7. Shuffled(Whole, b, c, lo, hi) /\ c \in [Whole -> Int] /\ c[lo] <= c[hi] /\ c[lo] <= c[m]
    <2>1. Shuffled(Whole, b, c, lo, hi)
      BY <1>5, <1>6, ShuffledOrdered
    <2>2. c[lo] <= c[hi] /\ c[lo] <= c[m]
      BY <1>4, <1>5, <1>6 DEF Ordered, Swapped
    <2> QED BY <2>1, <2>2 DEF Shuffled
  <1> HIDE DEF c
  <1>8. Shuffled(Whole, c, a', lo, hi) /\ a' \in [Whole -> Int] /\ a'[lo] <= a'[m] /\ a'[m] <= a'[hi]
    <2>1. Shuffled(Whole, c, a', lo, hi)
      BY <1>1, <1>5, <1>7, ShuffledOrdered
    <2>2. a'[lo] <= a'[m] /\ a'[m] <= a'[hi]
      BY <1>1, <1>4, <1>5, <1>7 DEF Ordered, Swapped
    <2> QED BY <2>1, <2>2 DEF Shuffled
  <1>9. Shuffled(Whole, a, a', lo, hi)
    BY <1>6, <1>7, <1>8, ShuffledThen
  <1>10. Pending' = Pending
    BY <1>1 DEF Pending
  <1>11. SortType'
    BY <1>1, <1>3, <1>4, <1>8 DEF SortType, Whole
  <1>12. Weighed(Pending)'
    BY <1>1, <1>10, WeighedNext DEF BoundsInv
  <1>13. Scanning'
    BY <1>1, <1>2, <1>3, <1>4 DEF Scanning
  <1> QED BY <1>1, <1>8, <1>9, <1>10, <1>11, <1>12, <1>13 DEF BoundsInv

(* Two elements on the wrong sides change places. *)
LEMMA SwapPairIs ==
  ASSUME BoundsInv, SwapPair
  PROVE  /\ Pending' = Pending /\ UNCHANGED <<given, lo, hi, step>> /\ step = "partition"
         /\ Shuffled(Whole, a, a', lo, hi)
         /\ a' = Swapped(a, Up, Down) /\ loguy' = Up /\ higuy' = Down /\ Up < Down
         /\ Up \in Whole /\ Down \in Whole /\ mid \in Whole /\ a'[mid'] = a[mid]
         /\ BoundsInv'
  <1>1. /\ SortType /\ step = "partition" /\ Down >= Up
        /\ a' = Swapped(a, Up, Down) /\ mid' = PivotAfter(Up, Down) /\ loguy' = Up /\ higuy' = Down
        /\ UNCHANGED <<given, step, lo, hi, stack>>
    BY DEF BoundsInv, SwapPair
  <1>2. PICK u \in Int, d \in Int :
          /\ u = Up /\ d = Down /\ loguy < u /\ u <= hi + 1 /\ u # mid /\ (u <= hi => a[u] > a[mid])
          /\ mid <= d /\ d < higuy /\ (d = mid \/ a[d] <= a[mid])
    BY <1>1, UpIs, DownIs
  <1>3. /\ lo \in Int /\ hi \in Int /\ mid \in Int /\ loguy \in Int /\ higuy \in Int
        /\ lo <= mid /\ mid < higuy /\ higuy <= hi /\ lo <= loguy /\ loguy < higuy
        /\ \A i \in lo .. hi : i \in Whole /\ a[i] \in Int
    BY <1>1, PartitionFacts
  <1>4. u <= d /\ u \in lo .. hi /\ d \in lo .. hi /\ mid \in lo .. hi
    BY <1>1, <1>2, <1>3
  <1>5. u < d
    <2>1. a[u] > a[mid] /\ a[u] \in Int /\ a[d] \in Int /\ a[mid] \in Int
      BY <1>2, <1>3, <1>4
    <2>2. u # d
      BY <1>2, <2>1
    <2> QED BY <1>2, <1>4, <2>2
  <1>6. u \in Whole /\ d \in Whole /\ mid \in Whole /\ a \in [Whole -> Int]
    BY <1>1, <1>3, <1>4 DEF SortType
  <1>7. Shuffled(Whole, a, a', lo, hi) /\ a' \in [Whole -> Int]
    <2>1. Shuffled(Whole, a, Swapped(a, u, d), lo, hi)
      BY <1>4, <1>6, ShuffledSwap
    <2> QED BY <1>1, <1>2, <2>1 DEF Shuffled
  <1>8. mid' \in Int /\ lo <= mid' /\ mid' < d /\ a'[mid'] = a[mid]
    <2>1. CASE mid = d
      <3>1. mid' = u
        BY <1>1, <1>2, <2>1 DEF PivotAfter
      <3> QED BY <1>1, <1>2, <1>3, <1>4, <1>5, <1>6, <2>1, <3>1 DEF Swapped
    <2>2. CASE mid # d
      <3>1. mid' = mid
        BY <1>1, <1>2, <2>2 DEF PivotAfter
      <3> QED BY <1>1, <1>2, <1>3, <1>4, <1>6, <2>2, <3>1 DEF Swapped
    <2> QED BY <2>1, <2>2
  <1>9. Pending' = Pending
    BY <1>1 DEF Pending
  <1>10. SortType'
    BY <1>1, <1>2, <1>7, <1>8 DEF SortType, Whole
  <1>11. Weighed(Pending)'
    BY <1>1, <1>9, WeighedNext DEF BoundsInv
  <1>12. Scanning'
    BY <1>1, <1>2, <1>3, <1>4, <1>5, <1>8 DEF Scanning
  <1> QED BY <1>1, <1>2, <1>5, <1>6, <1>7, <1>8, <1>9, <1>10, <1>11, <1>12 DEF BoundsInv

\* What is pending after a split at l and h.
SplitAt(l, h) ==
  LET lower == IF lo < h THEN <<<<lo, h>>>> ELSE <<>>
      upper == IF l < hi THEN <<<<l, hi>>>> ELSE <<>>
  IN  stack \o (IF LowerFirst(l, h) THEN upper \o lower ELSE lower \o upper)

(* Which of the two parts are pending, and in which order. *)
LEMMA SplitAtIs ==
  ASSUME stack \in Seq(Int \X Int), lo \in Int, hi \in Int, NEW l \in Int, NEW h \in Int
  PROVE  /\ ~(lo < h) /\ ~(l < hi) => SplitAt(l, h) = stack
         /\ lo < h /\ ~(l < hi) => SplitAt(l, h) = Append(stack, <<lo, h>>)
         /\ ~(lo < h) /\ l < hi => SplitAt(l, h) = Append(stack, <<l, hi>>)
         /\ lo < h /\ l < hi /\ h - lo < hi - l =>
              SplitAt(l, h) = Append(Append(stack, <<l, hi>>), <<lo, h>>)
         /\ lo < h /\ l < hi /\ ~(h - lo < hi - l) =>
              SplitAt(l, h) = Append(Append(stack, <<lo, h>>), <<l, hi>>)
  <1>1. ASSUME NEW s \in Int \X Int
        PROVE  /\ stack \o (<<s>> \o <<>>) = Append(stack, s)
               /\ stack \o (<<>> \o <<s>>) = Append(stack, s)
    <2>1. <<s>> \in Seq(Int \X Int)
      OBVIOUS
    <2> QED BY <2>1, ConcatEmptySeq, AppendIsConcat
  <1>2. ASSUME NEW s \in Int \X Int, NEW t \in Int \X Int
        PROVE  stack \o (<<s>> \o <<t>>) = Append(Append(stack, s), t)
    <2>1. <<s>> \in Seq(Int \X Int) /\ <<t>> \in Seq(Int \X Int) /\ Append(stack, s) \in Seq(Int \X Int)
      OBVIOUS
    <2>2. stack \o (<<s>> \o <<t>>) = (stack \o <<s>>) \o <<t>>
      BY <2>1, ConcatAssociative
    <2> QED BY <2>1, <2>2, AppendIsConcat
  <1>3. stack \o (<<>> \o <<>>) = stack
    OBVIOUS
  <1>4. <<lo, h>> \in Int \X Int /\ <<l, hi>> \in Int \X Int
    OBVIOUS
  <1>5. CASE ~(lo < h) /\ ~(l < hi)
    BY <1>3, <1>5 DEF SplitAt
  <1>6. CASE lo < h /\ ~(l < hi)
    BY <1>1, <1>2, <1>4, <1>6 DEF SplitAt
  <1>7. CASE ~(lo < h) /\ l < hi
    BY <1>1, <1>2, <1>4, <1>7 DEF SplitAt
  <1>8. CASE lo < h /\ l < hi /\ h - lo < hi - l
    BY <1>1, <1>2, <1>4, <1>8 DEF SplitAt, LowerFirst
  <1>9. CASE lo < h /\ l < hi /\ ~(h - lo < hi - l)
    BY <1>1, <1>2, <1>4, <1>9 DEF SplitAt, LowerFirst
  <1> QED BY <1>5, <1>6, <1>7, <1>8, <1>9

(* The split: both parts have fewer elements than the segment, and the     *)
(* smaller one goes on top.                                                *)
LEMMA SplitIs ==
  ASSUME BoundsInv, Split
  PROVE  /\ UNCHANGED <<given, a>> /\ step = "partition" /\ step' # "partition"
         /\ \E l \in Int, h \in Int :
              /\ l = Up /\ h = LowerEnd(Down + 1) /\ Down < Up /\ lo - 1 <= h /\ h < l
              /\ Pending' = SplitAt(l, h)
         /\ BoundsInv'
  <1>1. /\ SortType /\ step = "partition" /\ Down < Up
        /\ Pop(SplitAt(Up, LowerEnd(Down + 1)))
        /\ UNCHANGED <<given, a, mid, loguy, higuy>>
    BY DEF BoundsInv, Split, SplitAt
  <1>2. PICK l \in Int, d \in Int : l = Up /\ d = Down /\ loguy < l /\ l <= hi + 1 /\ mid <= d /\ d < higuy
    BY <1>1, UpIs, DownIs
  <1>3. /\ lo \in Int /\ hi \in Int /\ mid \in Int /\ loguy \in Int /\ higuy \in Int
        /\ lo <= mid /\ mid < higuy /\ higuy <= hi /\ lo <= loguy /\ loguy < higuy
    BY <1>1, PartitionFacts
  <1>4. PICK h \in Int : h = LowerEnd(Down + 1) /\ lo - 1 <= h /\ h < d + 1
    <2>1. d + 1 \in Int /\ mid < d + 1 /\ d + 1 <= hi
      BY <1>2, <1>3
    <2> QED BY <1>1, <1>2, <2>1, LowerEndIs
  <1>5. h < l /\ d < l
    BY <1>1, <1>2, <1>4
  <1>6. /\ Len(stack) < STKSIZ /\ 0 <= lo /\ lo < hi /\ hi < Size(given)
        /\ (hi - lo + 1) * Power2[Len(stack)] <= Size(given) /\ Weighed(stack)
    BY <1>1, AtWork
  <1>7. stack \in Seq(Int \X Int) /\ given \in Arrays /\ a \in [Whole -> Int] /\ Size(given) \in Nat
    BY <1>1, GivenFacts DEF SortType
  <1> DEFINE lower == <<lo, h>>
             upper == <<l, hi>>
  <1>8. /\ lower \in Int \X Int /\ Width(lower) = h - lo + 1 /\ (lo < h => Segment(lower))
        /\ upper \in Int \X Int /\ Width(upper) = hi - l + 1 /\ (l < hi => Segment(upper))
    BY <1>2, <1>3, <1>4, <1>5, <1>6, <1>7 DEF Width, Segment
  <1>9. /\ Width(lower) \in Int /\ Width(upper) \in Int
        /\ Width(lower) + Width(upper) <= hi - lo + 1 /\ (h - lo < hi - l <=> Width(lower) < Width(upper))
    BY <1>3, <1>5, <1>8
  <1>10. /\ hi - lo + 1 \in Int /\ Power2[Len(stack)] \in Nat
         /\ (Width(lower) <= hi - lo + 1) /\ (Width(upper) <= hi - lo + 1)
    <2>1. Len(stack) \in 0 .. STKSIZ
      BY <1>6, <1>7, QsortAssumption
    <2>2. Width(lower) <= hi - lo + 1 /\ Width(upper) <= hi - lo + 1
      BY <1>2, <1>3, <1>4, <1>5, <1>8
    <2> QED BY <1>3, <2>1, <2>2, Power2Type
  <1>11. Width(lower) * Power2[Len(stack)] <= Size(given) /\ Width(upper) * Power2[Len(stack)] <= Size(given)
    <2> HIDE DEF lower, upper
    <2>1. PICK w \in Int, v \in Int, u \in Int, p \in Nat, n \in Nat :
            /\ w = hi - lo + 1 /\ v = Width(lower) /\ u = Width(upper)
            /\ p = Power2[Len(stack)] /\ n = Size(given)
      BY <1>7, <1>9, <1>10
    <2>2. w * p <= n /\ v <= w /\ u <= w
      BY <1>6, <1>10, <2>1
    <2>3. v * p <= n /\ u * p <= n
      BY <2>2, Lighter
    <2> QED BY <2>1, <2>3
  <1>12. Weighed(SplitAt(l, h))
    <2>1. CASE ~(lo < h) /\ ~(l < hi)
      BY <1>3, <1>6, <1>7, <2>1, SplitAtIs
    <2>2. CASE lo < h /\ ~(l < hi)
      <3>1. Weighed(Append(stack, lower))
        <4> HIDE DEF lower
        <4> QED BY <1>6, <1>8, <1>11, <2>2, PushOne
      <3> QED BY <1>3, <1>7, <2>2, <3>1, SplitAtIs
    <2>3. CASE ~(lo < h) /\ l < hi
      <3>1. Weighed(Append(stack, upper))
        <4> HIDE DEF upper
        <4> QED BY <1>6, <1>8, <1>11, <2>3, PushOne
      <3> QED BY <1>3, <1>7, <2>3, <3>1, SplitAtIs
    <2>4. CASE lo < h /\ l < hi /\ h - lo < hi - l
      <3>1. Weighed(Append(Append(stack, upper), lower))
        <4>1. Width(upper) + Width(lower) <= hi - lo + 1 /\ Width(lower) <= Width(upper)
          BY <1>9, <2>4
        <4> HIDE DEF lower, upper
        <4> QED BY <1>6, <1>7, <1>8, <1>10, <2>4, <4>1, PushTwo
      <3> QED BY <1>3, <1>7, <2>4, <3>1, SplitAtIs
    <2>5. CASE lo < h /\ l < hi /\ ~(h - lo < hi - l)
      <3>1. Weighed(Append(Append(stack, lower), upper))
        <4>1. Width(lower) + Width(upper) <= hi - lo + 1 /\ Width(upper) <= Width(lower)
          BY <1>9, <2>5
        <4> HIDE DEF lower, upper
        <4> QED BY <1>6, <1>7, <1>8, <1>10, <2>5, <4>1, PushTwo
      <3> QED BY <1>3, <1>7, <2>5, <3>1, SplitAtIs
    <2> QED BY <2>1, <2>2, <2>3, <2>4, <2>5
  <1>13. /\ Pending' = SplitAt(l, h) /\ step' \in {"recurse", "done"}
         /\ lo' \in Int /\ hi' \in Int /\ stack' \in Seq(Int \X Int)
    <2>1. SplitAt(l, h) \in Seq(Int \X Int)
      BY <1>12 DEF Weighed
    <2>2. Pop(SplitAt(l, h))
      BY <1>1, <1>2, <1>4
    <2> QED BY <1>3, <2>1, <2>2, PopIs
  <1>14. SortType'
    BY <1>1, <1>3, <1>7, <1>13 DEF SortType, Whole
  <1>15. Weighed(Pending)'
    BY <1>1, <1>12, <1>13, WeighedNext
  <1>16. Scanning'
    BY <1>13 DEF Scanning
  <1>17. BoundsInv'
    BY <1>14, <1>15, <1>16 DEF BoundsInv
  <1>18. step' # "partition"
    BY <1>13
  <1> QED BY <1>1, <1>2, <1>4, <1>5, <1>13, <1>17, <1>18

(* Nothing happens to the array. *)
LEMMA BoundsStutter == BoundsInv /\ UNCHANGED qsortVars => BoundsInv'
  BY DEF BoundsInv, SortType, Weighed, Scanning, Pending, Segment, Width, Whole, qsortVars

(* Every step keeps the bounds. *)
LEMMA BoundsNext == BoundsInv /\ [QsortNext]_qsortVars => BoundsInv'
  BY SortShortIs, ChoosePivotIs, SwapPairIs, SplitIs, BoundsStutter DEF QsortNext

(* The bounds are what StackBounded says. *)
LEMMA BoundsStack == BoundsInv => StackBounded
  <1> SUFFICES ASSUME BoundsInv, step # "done"
               PROVE  Len(stack) < STKSIZ /\ (hi - lo + 1) * Power2[Len(stack)] <= Size(a)
    BY DEF StackBounded
  <1>1. Size(a) = Size(given)
    BY SizeIs DEF BoundsInv, SortType
  <1> QED BY <1>1, AtWork

-----------------------------------------------------------------------------
(* The order: whatever is not in one pending segment is in order already,  *)
(* and a partition has smaller elements to the left and larger ones to the *)
(* right of its scans.                                                     *)

Within(i, seg) == seg[1] <= i /\ i <= seg[2]

Apart(st) == \A k, m \in 1 .. Len(st) : k # m => st[k][2] < st[m][1] \/ st[m][2] < st[k][1]

InOrder(D, st, f) ==
  \A i, j \in D : i < j => \/ f[i] <= f[j]
                           \/ \E k \in 1 .. Len(st) : Within(i, st[k]) /\ Within(j, st[k])

Divided ==
  step = "partition" => /\ \A i \in Int : lo <= i /\ i <= loguy => a[i] <= a[mid]
                        /\ \A i \in Int : higuy <= i /\ i <= hi => a[mid] <= a[i]

Permuted == Shuffled(Whole, given, a, 0, Size(given) - 1)

OrderInv == Apart(Pending) /\ InOrder(Whole, Pending, a) /\ Divided /\ Permuted

(* Rearranging one pending segment leaves the rest in order. *)
LEMMA InOrderShuffled ==
  ASSUME NEW D \in SUBSET Int, NEW st \in Seq(Int \X Int), NEW l \in Int, NEW h \in Int, NEW n \in 1 .. Len(st),
         st[n] = <<l, h>>, Apart(st), NEW f, NEW g, InOrder(D, st, f), Shuffled(D, f, g, l, h)
  PROVE  InOrder(D, st, g)
  <1> SUFFICES ASSUME NEW i \in D, NEW j \in D, i < j
               PROVE  \/ g[i] <= g[j]
                      \/ \E k \in 1 .. Len(st) : Within(i, st[k]) /\ Within(j, st[k])
    BY DEF InOrder
  <1>0. i \in Int /\ j \in Int /\ st[n][1] = l /\ st[n][2] = h
    OBVIOUS
  <1> DEFINE In(y) == l <= y /\ y <= h
  <1>a. \A y \in D : y \in Int /\ (y \in l .. h <=> In(y))
    OBVIOUS
  <1> HIDE DEF In
  <1>b. PICK p \in Shuffle(D, l, h) : \A y \in D : g[y] = f[p[y]]
    BY DEF Shuffled
  <1>c. \A y \in D : p[y] \in D /\ p[y] \in Int /\ (In(y) => In(p[y])) /\ (~In(y) => g[y] = f[y])
    BY <1>a, <1>b DEF Shuffle
  <1>1. CASE In(i) /\ In(j)
    <2>1. Within(i, st[n]) /\ Within(j, st[n])
      BY <1>0, <1>1 DEF Within, In
    <2> QED BY <2>1
  <1>2. CASE ~In(i) /\ ~In(j)
    <2>1. g[i] = f[i] /\ g[j] = f[j]
      BY <1>2, <1>c
    <2> QED BY <2>1 DEF InOrder
  <1>3. CASE In(i) /\ ~In(j)
    <2>1. PICK x \in D : x \in Int /\ In(x) /\ g[i] = f[x]
      BY <1>3, <1>b, <1>c
    <2>2. g[j] = f[j] /\ x < j
      <3>1. x < j
        BY <1>0, <1>3, <2>1 DEF In
      <3> QED BY <1>3, <1>c, <3>1
    <2>3. f[x] <= f[j]
      <3> SUFFICES ASSUME NEW k \in 1 .. Len(st), Within(x, st[k]), Within(j, st[k]) PROVE FALSE
        BY <2>2 DEF InOrder
      <3>1. k # n
        BY <1>0, <1>3 DEF Within, In
      <3>2. st[k] \in Int \X Int /\ st[k][1] \in Int /\ st[k][2] \in Int
        BY SMTT(30)
      <3>3. st[k][2] < l \/ h < st[k][1]
        BY <1>0, <3>1 DEF Apart
      <3> QED BY <2>1, <3>2, <3>3, SMTT(30) DEF Within, In
    <2> QED BY <2>1, <2>2, <2>3
  <1>4. CASE ~In(i) /\ In(j)
    <2>1. PICK x \in D : x \in Int /\ In(x) /\ g[j] = f[x]
      BY <1>4, <1>b, <1>c
    <2>2. g[i] = f[i] /\ i < x
      <3>1. i < x
        BY <1>0, <1>4, <2>1 DEF In
      <3> QED BY <1>4, <1>c, <3>1
    <2>3. f[i] <= f[x]
      <3> SUFFICES ASSUME NEW k \in 1 .. Len(st), Within(i, st[k]), Within(x, st[k]) PROVE FALSE
        BY <2>2 DEF InOrder
      <3>1. k # n
        BY <1>0, <1>4 DEF Within, In
      <3>2. st[k] \in Int \X Int /\ st[k][1] \in Int /\ st[k][2] \in Int
        BY SMTT(30)
      <3>3. st[k][2] < l \/ h < st[k][1]
        BY <1>0, <3>1 DEF Apart
      <3> QED BY <2>1, <3>2, <3>3, SMTT(30) DEF Within, In
    <2> QED BY <2>1, <2>2, <2>3
  <1> QED BY <1>1, <1>2, <1>3, <1>4

(* The array stays a rearrangement of the given one. *)
LEMMA PermutedNext ==
  ASSUME Permuted, Shuffled(Whole, a, a', lo, hi), given' = given, given \in Arrays
  PROVE  Permuted'
  <1>1. Whole \subseteq 0 .. Size(given) - 1
    BY DEF Whole
  <1>2. Shuffled(Whole, a, a', 0, Size(given) - 1)
    <2> DEFINE n == Size(given) - 1
    <2>1. Whole \subseteq 0 .. n
      BY <1>1
    <2> HIDE DEF n
    <2>2. Shuffled(Whole, a, a', 0, n)
      BY <2>1, ShuffledWider
    <2> QED BY <2>2 DEF n
  <1>3. Shuffled(Whole, given, a', 0, Size(given) - 1)
    BY <1>2, ShuffledThen DEF Permuted
  <1> QED BY <1>3 DEF Permuted, Whole

(* At first everything is in the one segment. *)
LEMMA OrderInit == QsortInit => OrderInv
  <1> SUFFICES ASSUME QsortInit PROVE OrderInv
    OBVIOUS
  <1>1. given \in Arrays /\ Size(given) \in Nat /\ given \in [Whole -> Int] /\ a = given
    BY GivenFacts DEF QsortInit
  <1>2. Permuted
    BY <1>1, ShuffledSame DEF Permuted
  <1>3. Divided
    BY DEF Divided, QsortInit
  <1>4. CASE Size(given) <= 1
    <2>1. Pending = <<>> /\ \A i, j \in Whole : ~(i < j)
      BY <1>1, <1>4 DEF Pending, QsortInit, Whole
    <2> QED BY <1>2, <1>3, <2>1 DEF OrderInv, Apart, InOrder
  <1>5. CASE ~(Size(given) <= 1)
    <2>1. Pending = Append(<<>>, <<lo, hi>>) /\ lo = 0 /\ hi = Size(given) - 1
      BY <1>1, <1>5 DEF Pending, QsortInit
    <2>2. Len(Pending) = 1 /\ Pending[1] = <<0, Size(given) - 1>>
      BY <1>1, <2>1
    <2>3. Apart(Pending)
      BY <2>2 DEF Apart
    <2>4. InOrder(Whole, Pending, a)
      <3>1. \A i \in Whole : Within(i, Pending[1])
        BY <1>1, <2>2 DEF Within, Whole
      <3>2. 1 \in 1 .. Len(Pending)
        BY <2>2
      <3> QED BY <3>1, <3>2 DEF InOrder
    <2> QED BY <1>2, <1>3, <2>3, <2>4 DEF OrderInv
  <1> QED BY <1>4, <1>5

(* The segment at work is one of those pending, apart from the others. *)
LEMMA PendingApart ==
  ASSUME BoundsInv, OrderInv, step # "done"
  PROVE  /\ Pending \in Seq(Int \X Int) /\ Whole \in SUBSET Int
         /\ Len(stack) \in Nat /\ Len(Pending) = Len(stack) + 1
         /\ Pending[Len(stack) + 1] = <<lo, hi>>
         /\ \A k \in 1 .. Len(stack) :
              /\ Pending[k] = stack[k] /\ stack[k] \in Int \X Int
              /\ stack[k][1] \in Int /\ stack[k][2] \in Int
              /\ stack[k][2] < lo \/ hi < stack[k][1]
         /\ Apart(stack)
  <1>1. SortType /\ Apart(Pending) /\ stack \in Seq(Int \X Int) /\ Pending \in Seq(Int \X Int) /\ given \in Arrays
    BY DEF BoundsInv, OrderInv, SortType, Weighed
  <1>2. /\ Len(stack) \in Nat /\ Len(Pending) = Len(stack) + 1
        /\ Pending[Len(stack) + 1] = <<lo, hi>>
        /\ \A k \in 1 .. Len(stack) : Pending[k] = stack[k]
    BY <1>1, PendingTop
  <1>3. ASSUME NEW k \in 1 .. Len(stack)
        PROVE  /\ stack[k] \in Int \X Int /\ stack[k][1] \in Int /\ stack[k][2] \in Int
               /\ stack[k][2] < lo \/ hi < stack[k][1]
    <2>1. stack[k] \in Int \X Int
      BY <1>1
    <2>2. PICK n : n = Len(stack) + 1 /\ n \in 1 .. Len(Pending) /\ k \in 1 .. Len(Pending) /\ k # n
      BY <1>2
    <2>3. Pending[k][2] < Pending[n][1] \/ Pending[n][2] < Pending[k][1]
      BY <1>1, <2>2 DEF Apart
    <2>4. Pending[n][1] = lo /\ Pending[n][2] = hi /\ Pending[k] = stack[k]
      BY <1>2, <2>2
    <2> QED BY <2>1, <2>3, <2>4
  <1>4. Apart(stack)
    <2>1. \A k \in 1 .. Len(stack) : k \in 1 .. Len(Pending)
      BY <1>2
    <2> QED BY <1>1, <1>2, <2>1 DEF Apart
  <1>5. Whole \in SUBSET Int
    BY <1>1, GivenFacts
  <1> QED BY <1>1, <1>2, <1>3, <1>4, <1>5

(* What is rearranged in the segment at work stays in order outside it. *)
LEMMA OrderOutside ==
  ASSUME BoundsInv, OrderInv, step # "done", NEW g, Shuffled(Whole, a, g, lo, hi)
  PROVE  InOrder(Whole, Pending, g)
  <1>1. lo \in Int /\ hi \in Int /\ Apart(Pending) /\ InOrder(Whole, Pending, a)
    BY DEF BoundsInv, SortType, OrderInv
  <1>2. PICK n \in 1 .. Len(Pending) : Pending[n] = <<lo, hi>>
    <2>1. Len(stack) + 1 \in 1 .. Len(Pending) /\ Pending[Len(stack) + 1] = <<lo, hi>>
      BY PendingApart
    <2> QED BY <2>1
  <1>3. Pending \in Seq(Int \X Int) /\ Whole \in SUBSET Int
    BY PendingApart
  <1> QED BY <1>1, <1>2, <1>3, InOrderShuffled

(* The order goes on to the next state. *)
LEMMA OrderNextState ==
  ASSUME given' = given, NEW st, Pending' = st, Apart(st), InOrder(Whole, st, a')
  PROVE  Apart(Pending)' /\ InOrder(Whole, Pending, a)'
  BY DEF Apart, InOrder, Within, Whole

(* SortShort: the segment at work is in order and no longer pending. *)
LEMMA OrderSortShort ==
  ASSUME BoundsInv, OrderInv, SortShort
  PROVE  OrderInv'
  <1>1. /\ Pending' = stack /\ Shuffled(Whole, a, a', lo, hi)
        /\ \A i, j \in lo .. hi : i < j => a'[i] <= a'[j]
    BY SortShortIs
  <1>2. step = "recurse" /\ given' = given /\ given \in Arrays /\ lo \in Int /\ hi \in Int
    BY DEF SortShort, BoundsInv, SortType
  <1>3. InOrder(Whole, Pending, a')
    BY <1>1, <1>2, OrderOutside
  <1>4. InOrder(Whole, stack, a')
    <2> SUFFICES ASSUME NEW i \in Whole, NEW j \in Whole, i < j, ~(a'[i] <= a'[j])
                 PROVE  \E k \in 1 .. Len(stack) : Within(i, stack[k]) /\ Within(j, stack[k])
      BY DEF InOrder
    <2>1. PICK k \in 1 .. Len(Pending) : Within(i, Pending[k]) /\ Within(j, Pending[k])
      BY <1>3 DEF InOrder
    <2>2. i \in Int /\ j \in Int
      BY <1>2, PendingApart
    <2>3. k # Len(stack) + 1
      <3> SUFFICES ASSUME k = Len(stack) + 1 PROVE FALSE
        OBVIOUS
      <3>1. Pending[k] = <<lo, hi>>
        BY <1>2, PendingApart
      <3>2. i \in lo .. hi /\ j \in lo .. hi
        BY <1>2, <2>1, <2>2, <3>1 DEF Within
      <3> QED BY <1>1, <3>2
    <2>4. k \in 1 .. Len(stack) /\ Pending[k] = stack[k]
      BY <1>2, <2>3, PendingApart, SMTT(30)
    <2> QED BY <2>1, <2>4
  <1>5. Apart(stack)
    BY <1>2, PendingApart
  <1>6. Apart(Pending)' /\ InOrder(Whole, Pending, a)'
    BY <1>1, <1>2, <1>4, <1>5, OrderNextState
  <1>7. Permuted'
    BY <1>1, <1>2, PermutedNext DEF OrderInv
  <1>8. Divided'
    <2>1. step' # "partition"
      BY DEF SortShort, Pop
    <2> QED BY <2>1 DEF Divided
  <1> QED BY <1>6, <1>7, <1>8 DEF OrderInv

(* ChoosePivot: the first and the last element are on their sides of it. *)
LEMMA OrderChoosePivot ==
  ASSUME BoundsInv, OrderInv, ChoosePivot
  PROVE  OrderInv'
  <1>1. /\ Pending' = Pending /\ Shuffled(Whole, a, a', lo, hi)
        /\ a'[lo] <= a'[mid'] /\ a'[mid'] <= a'[hi]
    BY ChoosePivotIs
  <1>2. /\ step = "recurse" /\ given' = given /\ given \in Arrays /\ lo \in Int /\ hi \in Int
        /\ loguy' = lo /\ higuy' = hi /\ lo' = lo /\ hi' = hi
    BY DEF ChoosePivot, BoundsInv, SortType
  <1>3. InOrder(Whole, Pending, a')
    BY <1>1, <1>2, OrderOutside
  <1>4. Apart(Pending)' /\ InOrder(Whole, Pending, a)'
    BY <1>1, <1>2, <1>3, OrderNextState DEF OrderInv
  <1>5. Permuted'
    BY <1>1, <1>2, PermutedNext DEF OrderInv
  <1>6. Divided'
    BY <1>1, <1>2 DEF Divided
  <1> QED BY <1>4, <1>5, <1>6 DEF OrderInv

(* SwapPair: nothing up to loguy is above the pivot, and nothing from higuy on below it. *)
LEMMA OrderSwapPair ==
  ASSUME BoundsInv, OrderInv, SwapPair
  PROVE  OrderInv'
  <1>1. /\ Pending' = Pending /\ UNCHANGED <<given, lo, hi, step>> /\ step = "partition"
        /\ Shuffled(Whole, a, a', lo, hi)
        /\ a' = Swapped(a, Up, Down) /\ loguy' = Up /\ higuy' = Down /\ Up < Down
        /\ Up \in Whole /\ Down \in Whole /\ mid \in Whole /\ a'[mid'] = a[mid]
    BY SwapPairIs
  <1>2. given \in Arrays /\ lo \in Int /\ hi \in Int /\ a \in [Whole -> Int]
    BY DEF BoundsInv, SortType
  <1>3. InOrder(Whole, Pending, a')
    BY <1>1, OrderOutside
  <1>4. Apart(Pending)' /\ InOrder(Whole, Pending, a)'
    BY <1>1, <1>3, OrderNextState DEF OrderInv
  <1>5. Permuted'
    BY <1>1, <1>2, PermutedNext DEF OrderInv
  <1>6. Divided'
    <2>1. PICK u \in Int, d \in Int :
            /\ u = Up /\ d = Down /\ loguy < u /\ (u <= hi => a[u] > a[mid])
            /\ \A i \in Int : loguy < i /\ i < u => a[i] <= a[mid]
            /\ d < higuy /\ (d = mid \/ a[d] <= a[mid])
            /\ \A i \in Int : d < i /\ i < higuy => a[i] > a[mid]
      BY <1>1, UpIs, DownIs
    <2>2. /\ mid \in Int /\ loguy \in Int /\ higuy \in Int
          /\ lo <= mid /\ mid < higuy /\ higuy <= hi /\ lo <= loguy /\ loguy < higuy
          /\ \A i \in lo .. hi : i \in Whole /\ a[i] \in Int
      BY <1>1, PartitionFacts
    <2>3. /\ \A i \in Int : lo <= i /\ i <= loguy => a[i] <= a[mid]
          /\ \A i \in Int : higuy <= i /\ i <= hi => a[mid] <= a[i]
      BY <1>1 DEF OrderInv, Divided
    <2>4. /\ u \in Whole /\ d \in Whole /\ u < d /\ a'[u] = a[d] /\ a'[d] = a[u]
          /\ \A x \in Whole : x # u /\ x # d => a'[x] = a[x]
      BY <1>1, <1>2, <2>1 DEF Swapped
    <2>5. ASSUME NEW i \in Int, lo <= i, i <= u PROVE a'[i] <= a[mid]
      <3>1. i \in lo .. hi /\ mid \in lo .. hi
        BY <1>2, <2>1, <2>2, <2>4, <2>5
      <3>2. CASE i = u
        <4>1. a[d] <= a[mid]
          BY <2>1, <2>2, <3>1
        <4> QED BY <2>4, <3>2, <4>1
      <3>3. CASE i # u
        <4>1. a'[i] = a[i]
          BY <2>2, <2>4, <2>5, <3>1, <3>3
        <4>2. a[i] <= a[mid]
          BY <2>1, <2>2, <2>3, <2>5, <3>3
        <4> QED BY <4>1, <4>2
      <3> QED BY <3>2, <3>3
    <2>6. ASSUME NEW i \in Int, d <= i, i <= hi PROVE a[mid] <= a'[i]
      <3>1. i \in lo .. hi /\ mid \in lo .. hi /\ u \in lo .. hi
        BY <1>2, <2>1, <2>2, <2>4, <2>6
      <3>2. CASE i = d
        BY <2>1, <2>2, <2>4, <3>1, <3>2
      <3>3. CASE i # d
        <4>1. a'[i] = a[i]
          BY <2>2, <2>4, <2>6, <3>1, <3>3
        <4>2. a[mid] <= a[i]
          BY <2>1, <2>2, <2>3, <2>6, <3>1, <3>3
        <4> QED BY <4>1, <4>2
      <3> QED BY <3>2, <3>3
    <2> QED BY <1>1, <2>1, <2>5, <2>6 DEF Divided
  <1> QED BY <1>4, <1>5, <1>6 DEF OrderInv

\* st is the stack with the parts of a split on it.
SplitInto(st, l, h) ==
  /\ Len(st) \in Nat /\ Len(stack) \in Nat /\ Len(stack) <= Len(st)
  /\ \A k \in 1 .. Len(stack) : st[k] = stack[k]
  /\ \A k \in Len(stack) + 1 .. Len(st) : st[k] = <<lo, h>> \/ st[k] = <<l, hi>>
  /\ \A k, m \in Len(stack) + 1 .. Len(st) :
       k # m => \/ st[k] = <<lo, h>> /\ st[m] = <<l, hi>>
                \/ st[k] = <<l, hi>> /\ st[m] = <<lo, h>>
  /\ lo < h => \E k \in 1 .. Len(st) : st[k] = <<lo, h>>
  /\ l < hi => \E k \in 1 .. Len(st) : st[k] = <<l, hi>>

(* Where the parts of a split are. *)
LEMMA SplitPlaces ==
  ASSUME stack \in Seq(Int \X Int), lo \in Int, hi \in Int, NEW l \in Int, NEW h \in Int,
         NEW st, st = SplitAt(l, h)
  PROVE  SplitInto(st, l, h)
  <1> USE DEF SplitInto
  <1>1. PICK n \in Nat : n = Len(stack)
    OBVIOUS
  <1>2. ASSUME NEW s \in Int \X Int
        PROVE  /\ Len(Append(stack, s)) = n + 1 /\ Append(stack, s)[n + 1] = s
               /\ \A k \in 1 .. n : Append(stack, s)[k] = stack[k]
    BY <1>1
  <1>3. ASSUME NEW s \in Int \X Int, NEW t \in Int \X Int
        PROVE  /\ Len(Append(Append(stack, s), t)) = n + 2
               /\ Append(Append(stack, s), t)[n + 1] = s
               /\ Append(Append(stack, s), t)[n + 2] = t
               /\ \A k \in 1 .. n : Append(Append(stack, s), t)[k] = stack[k]
    BY <1>1
  <1>4. <<lo, h>> \in Int \X Int /\ <<l, hi>> \in Int \X Int
    OBVIOUS
  <1>5. CASE ~(lo < h) /\ ~(l < hi)
    <2>1. st = stack
      BY <1>5, SplitAtIs
    <2> QED BY <1>1, <1>5, <2>1
  <1>6. CASE lo < h /\ ~(l < hi)
    <2>1. /\ Len(st) = n + 1 /\ st[n + 1] = <<lo, h>> /\ \A k \in 1 .. n : st[k] = stack[k]
      <3>1. st = Append(stack, <<lo, h>>)
        BY <1>6, SplitAtIs
      <3> QED BY <1>2, <1>4, <3>1
    <2>2. \A k \in n + 1 .. n + 1 : k = n + 1
      BY <1>1
    <2>3. n + 1 \in 1 .. n + 1 /\ n <= n + 1 /\ n + 1 \in Nat
      BY <1>1
    <2> QED BY <1>1, <1>6, <2>1, <2>2, <2>3
  <1>7. CASE ~(lo < h) /\ l < hi
    <2>1. /\ Len(st) = n + 1 /\ st[n + 1] = <<l, hi>> /\ \A k \in 1 .. n : st[k] = stack[k]
      <3>1. st = Append(stack, <<l, hi>>)
        BY <1>7, SplitAtIs
      <3> QED BY <1>2, <1>4, <3>1
    <2>2. \A k \in n + 1 .. n + 1 : k = n + 1
      BY <1>1
    <2>3. n + 1 \in 1 .. n + 1 /\ n <= n + 1 /\ n + 1 \in Nat
      BY <1>1
    <2> QED BY <1>1, <1>7, <2>1, <2>2, <2>3
  <1>8. CASE lo < h /\ l < hi
    <2>1. PICK s, t : /\ st = Append(Append(stack, s), t)
                      /\ \/ s = <<lo, h>> /\ t = <<l, hi>>
                         \/ s = <<l, hi>> /\ t = <<lo, h>>
      BY <1>8, SplitAtIs
    <2>2. /\ Len(st) = n + 2 /\ st[n + 1] = s /\ st[n + 2] = t /\ \A k \in 1 .. n : st[k] = stack[k]
      BY <1>3, <1>4, <2>1
    <2>3. \A k \in n + 1 .. n + 2 : k = n + 1 \/ k = n + 2
      BY <1>1
    <2>4. n + 1 \in 1 .. n + 2 /\ n + 2 \in 1 .. n + 2 /\ n <= n + 2 /\ n + 2 \in Nat
      BY <1>1
    <2> QED BY <1>1, <2>1, <2>2, <2>3, <2>4
  <1> QED BY <1>5, <1>6, <1>7, <1>8

(* Split: what is in neither part is equal to the pivot and in its place. *)
LEMMA OrderSplit ==
  ASSUME BoundsInv, OrderInv, Split
  PROVE  OrderInv'
  <1>1. UNCHANGED <<given, a>> /\ step = "partition" /\ step' # "partition"
    BY SplitIs
  <1>2. PICK l \in Int, h \in Int :
          /\ l = Up /\ h = LowerEnd(Down + 1) /\ Down < Up /\ lo - 1 <= h /\ h < l
          /\ Pending' = SplitAt(l, h)
    BY SplitIs
  <1>3. PICK st : st = SplitAt(l, h) /\ Pending' = st
    BY <1>2
  <1>4. /\ given \in Arrays /\ lo \in Int /\ hi \in Int /\ a \in [Whole -> Int] /\ stack \in Seq(Int \X Int)
    BY DEF BoundsInv, SortType
  <1>5. PICK d \in Int :
          /\ d = Down /\ loguy < l /\ l <= hi + 1
          /\ \A i \in Int : loguy < i /\ i < l => a[i] <= a[mid]
          /\ mid <= d /\ d < higuy
          /\ \A i \in Int : d < i /\ i < higuy => a[i] > a[mid]
    BY <1>1, <1>2, UpIs, DownIs
  <1>6. /\ mid \in Int /\ loguy \in Int /\ higuy \in Int
        /\ lo <= mid /\ mid < higuy /\ higuy <= hi /\ lo <= loguy /\ loguy < higuy
        /\ \A i \in lo .. hi : i \in Whole /\ a[i] \in Int
    BY <1>1, PartitionFacts
  <1>7. h < d + 1 /\ \A i \in Int : h < i /\ i < d + 1 => a[i] = a[mid]
    <2>1. d + 1 \in Int /\ mid < d + 1 /\ d + 1 <= hi
      BY <1>4, <1>5, <1>6
    <2> QED BY <1>1, <1>2, <1>5, <2>1, LowerEndIs
  <1>8. ASSUME NEW i \in Int, lo <= i, i < l PROVE a[i] <= a[mid]
    <2>1. CASE i <= loguy
      BY <1>1, <1>8, <2>1 DEF OrderInv, Divided
    <2>2. CASE ~(i <= loguy)
      BY <1>5, <1>6, <1>8, <2>2
    <2> QED BY <2>1, <2>2
  <1>9. ASSUME NEW j \in Int, h < j, j <= hi PROVE a[mid] <= a[j]
    <2>0. a[mid] \in Int /\ a[j] \in Int
      BY <1>2, <1>4, <1>6, <1>9
    <2>1. CASE j >= higuy
      BY <1>1, <1>9, <2>1 DEF OrderInv, Divided
    <2>2. CASE d < j /\ j < higuy
      BY <1>5, <1>9, <2>0, <2>2
    <2>3. CASE j <= d
      BY <1>5, <1>7, <1>9, <2>0, <2>3
    <2> QED BY <1>5, <1>6, <2>1, <2>2, <2>3
  <1>10. /\ Len(st) \in Nat /\ Len(stack) \in Nat /\ Len(stack) <= Len(st)
         /\ \A k \in 1 .. Len(stack) : st[k] = stack[k]
         /\ \A k \in Len(stack) + 1 .. Len(st) : st[k] = <<lo, h>> \/ st[k] = <<l, hi>>
         /\ \A k, m \in Len(stack) + 1 .. Len(st) :
              k # m => \/ st[k] = <<lo, h>> /\ st[m] = <<l, hi>>
                       \/ st[k] = <<l, hi>> /\ st[m] = <<lo, h>>
         /\ lo < h => \E k \in 1 .. Len(st) : st[k] = <<lo, h>>
         /\ l < hi => \E k \in 1 .. Len(st) : st[k] = <<l, hi>>
    <2>1. SplitInto(st, l, h)
      BY <1>3, <1>4, SplitPlaces
    <2> QED BY <2>1 DEF SplitInto
  <1>11. /\ \A k \in 1 .. Len(stack) :
              /\ Pending[k] = stack[k] /\ stack[k][1] \in Int /\ stack[k][2] \in Int
              /\ stack[k][2] < lo \/ hi < stack[k][1]
         /\ Apart(stack) /\ Len(Pending) = Len(stack) + 1 /\ Pending[Len(stack) + 1] = <<lo, hi>>
         /\ Whole \in SUBSET Int
    BY <1>1, PendingApart
  <1>12. PICK n \in Nat, r \in Nat : n = Len(stack) /\ r = Len(st) /\ n <= r
    BY <1>10
  <1>13. Apart(st)
    <2> SUFFICES ASSUME NEW k \in 1 .. r, NEW m \in 1 .. r, k # m
                 PROVE  st[k][2] < st[m][1] \/ st[m][2] < st[k][1]
      BY <1>12 DEF Apart
    <2>1. ASSUME NEW x \in n + 1 .. r
          PROVE  /\ st[x][1] \in Int /\ st[x][2] \in Int /\ lo <= st[x][1] /\ st[x][2] <= hi
      <3>1. CASE st[x] = <<lo, h>>
        BY <1>2, <1>4, <1>5, <1>6, <1>7, <3>1
      <3>2. CASE st[x] = <<l, hi>>
        BY <1>4, <1>5, <1>6, <3>2
      <3> QED BY <1>10, <1>12, <3>1, <3>2
    <2>2. CASE k <= n /\ m <= n
      <3>1. k \in 1 .. n /\ m \in 1 .. n
        BY <1>12, <2>2
      <3> QED BY <1>10, <1>11, <1>12, <3>1 DEF Apart
    <2>3. CASE k <= n /\ ~(m <= n)
      <3>1. k \in 1 .. n /\ m \in n + 1 .. r
        BY <1>12, <2>3
      <3>2. st[k] = stack[k] /\ stack[k][1] \in Int /\ stack[k][2] \in Int /\ (stack[k][2] < lo \/ hi < stack[k][1])
        BY <1>10, <1>11, <1>12, <3>1
      <3>3. st[m][1] \in Int /\ st[m][2] \in Int /\ lo <= st[m][1] /\ st[m][2] <= hi
        BY <2>1, <3>1
      <3> QED BY <1>4, <3>2, <3>3, SMTT(30)
    <2>4. CASE ~(k <= n) /\ m <= n
      <3>1. m \in 1 .. n /\ k \in n + 1 .. r
        BY <1>12, <2>4
      <3>2. st[m] = stack[m] /\ stack[m][1] \in Int /\ stack[m][2] \in Int /\ (stack[m][2] < lo \/ hi < stack[m][1])
        BY <1>10, <1>11, <1>12, <3>1
      <3>3. st[k][1] \in Int /\ st[k][2] \in Int /\ lo <= st[k][1] /\ st[k][2] <= hi
        BY <2>1, <3>1
      <3> QED BY <1>4, <3>2, <3>3, SMTT(30)
    <2>5. CASE ~(k <= n) /\ ~(m <= n)
      <3>1. k \in n + 1 .. r /\ m \in n + 1 .. r
        BY <1>12, <2>5
      <3>2. \/ st[k] = <<lo, h>> /\ st[m] = <<l, hi>>
            \/ st[k] = <<l, hi>> /\ st[m] = <<lo, h>>
        BY <1>10, <1>12, <3>1
      <3> QED BY <1>2, <3>2
    <2> QED BY <1>12, <2>2, <2>3, <2>4, <2>5
  <1>14. InOrder(Whole, st, a)
    <2> SUFFICES ASSUME NEW i \in Whole, NEW j \in Whole, i < j, ~(a[i] <= a[j])
                 PROVE  \E k \in 1 .. r : Within(i, st[k]) /\ Within(j, st[k])
      BY <1>12 DEF InOrder
    <2>0. i \in Int /\ j \in Int /\ a[i] \in Int /\ a[j] \in Int
      BY <1>4, <1>11
    <2>1. PICK k \in 1 .. n + 1 : Within(i, Pending[k]) /\ Within(j, Pending[k])
      BY <1>11, <1>12 DEF OrderInv, InOrder
    <2>2. CASE k # n + 1
      <3>1. k \in 1 .. n /\ k \in 1 .. r
        BY <1>12, <2>2
      <3>2. Pending[k] = st[k]
        BY <1>10, <1>11, <1>12, <3>1
      <3> QED BY <2>1, <3>1, <3>2
    <2>3. CASE k = n + 1
      <3>1. lo <= i /\ j <= hi
        BY <1>11, <1>12, <2>1, <2>3 DEF Within
      <3>2. ~(i < l /\ h < j)
        <4> SUFFICES ASSUME i < l, h < j PROVE FALSE
          OBVIOUS
        <4>1. a[i] <= a[mid] /\ a[mid] <= a[j] /\ a[mid] \in Int
          BY <1>4, <1>6, <1>8, <1>9, <2>0, <3>1
        <4> QED BY <2>0, <4>1
      <3>3. CASE j <= h
        <4>1. lo < h
          BY <1>4, <2>0, <3>1, <3>3
        <4>2. PICK m \in 1 .. r : st[m] = <<lo, h>>
          BY <1>10, <1>12, <4>1
        <4>3. Within(i, st[m]) /\ Within(j, st[m])
          BY <1>4, <2>0, <3>1, <3>3, <4>2 DEF Within
        <4> QED BY <4>3
      <3>4. CASE l <= i
        <4>1. l < hi
          BY <1>4, <2>0, <3>1, <3>4
        <4>2. PICK m \in 1 .. r : st[m] = <<l, hi>>
          BY <1>10, <1>12, <4>1
        <4>3. Within(i, st[m]) /\ Within(j, st[m])
          BY <1>4, <2>0, <3>1, <3>4, <4>2 DEF Within
        <4> QED BY <4>3
      <3> QED BY <2>0, <3>2, <3>3, <3>4
    <2> QED BY <2>2, <2>3
  <1>15. Apart(Pending)' /\ InOrder(Whole, Pending, a)'
    BY <1>1, <1>3, <1>13, <1>14, OrderNextState
  <1>16. Permuted'
    BY <1>1 DEF OrderInv, Permuted, Whole
  <1>17. Divided'
    BY <1>1 DEF Divided
  <1> QED BY <1>15, <1>16, <1>17 DEF OrderInv

(* A step that does not sort. *)
LEMMA OrderStutter == OrderInv /\ UNCHANGED qsortVars => OrderInv'
  BY DEF OrderInv, Apart, InOrder, Within, Divided, Permuted, Pending, Whole, qsortVars

(* So the order is kept by every step. *)
LEMMA OrderNext == BoundsInv /\ OrderInv /\ [QsortNext]_qsortVars => OrderInv'
  BY OrderSortShort, OrderChoosePivot, OrderSwapPair, OrderSplit, OrderStutter DEF QsortNext

(* A rearranged array has every element as often as the other. *)
LEMMA SameCounts ==
  ASSUME NEW D, IsFiniteSet(D), NEW f, NEW g, NEW l, NEW h, Shuffled(D, f, g, l, h), NEW v
  PROVE  Cardinality({i \in D : g[i] = v}) = Cardinality({i \in D : f[i] = v})
  <1> DEFINE S == {i \in D : g[i] = v}
             T == {i \in D : f[i] = v}
  <1>1. PICK p \in Shuffle(D, l, h) : \A i \in D : g[i] = f[p[i]]
    BY DEF Shuffled
  <1>2. /\ p \in [D -> D] /\ (\A i, j \in D : p[i] = p[j] => i = j)
        /\ \A j \in D : \E i \in D : p[i] = j
    BY DEF Shuffle
  <1> DEFINE q == [i \in S |-> p[i]]
  <1>3. q \in Bijection(S, T)
    <2>1. q \in [S -> T]
      BY <1>1, <1>2
    <2>2. \A i, j \in S : q[i] = q[j] => i = j
      BY <1>2
    <2>3. \A t \in T : \E s \in S : q[s] = t
      BY <1>1, <1>2
    <2> HIDE DEF S, T, q
    <2> QED BY <2>1, <2>2, <2>3 DEF Bijection, Injection, Surjection, IsInjective
  <1>4. ExistsBijection(S, T)
    BY <1>3 DEF ExistsBijection
  <1>5. IsFiniteSet(S)
    BY FS_Subset
  <1> HIDE DEF S, T
  <1>6. Cardinality(S) = Cardinality(T)
    BY <1>4, <1>5, FS_Bijection
  <1> QED BY <1>6 DEF S, T

(* With nothing pending the array is sorted. *)
LEMMA OrderSorts == BoundsInv /\ OrderInv => Sorts
  <1> SUFFICES ASSUME BoundsInv, OrderInv, step = "done"
               PROVE  /\ \A i, j \in DOMAIN a : i < j => a[i] <= a[j]
                      /\ \A v \in {given[i] : i \in DOMAIN given} :
                           Cardinality({i \in DOMAIN a : a[i] = v}) = Cardinality({i \in DOMAIN given : given[i] = v})
    BY DEF Sorts
  <1>1. given \in Arrays /\ DOMAIN a = Whole /\ DOMAIN given = Whole /\ Size(given) \in Nat
    BY GivenFacts DEF BoundsInv, SortType
  <1>2. Pending = <<>>
    BY DEF Pending
  <1>3. \A i, j \in Whole : i < j => a[i] <= a[j]
    BY <1>2 DEF OrderInv, InOrder
  <1>4. IsFiniteSet(Whole)
    BY <1>1, FS_Interval DEF Whole
  <1>5. \A v : Cardinality({i \in Whole : a[i] = v}) = Cardinality({i \in Whole : given[i] = v})
    BY <1>4, SameCounts DEF OrderInv, Permuted
  <1> QED BY <1>1, <1>3, <1>5

-----------------------------------------------------------------------------
(* Both invariants hold of the services, since only QsortNext changes what *)
(* it sorts.                                                               *)

(* A step of the services is one of the sort, or leaves it alone. *)
LEMMA SortSteps == [ServicesNext]_servicesVars => [QsortNext]_qsortVars
  BY DEF ServicesNext, servicesVars

(* The bounds of the segments are an invariant of the services. *)
LEMMA BoundsHold == ServicesSpec => []BoundsInv
  <1>1. ServicesInit => BoundsInv
    BY BoundsInit DEF ServicesInit
  <1>2. BoundsInv /\ [ServicesNext]_servicesVars => BoundsInv'
    BY SortSteps, BoundsNext
  <1> QED BY <1>1, <1>2, PTL DEF ServicesSpec

(* The stack of msvcrt_qsort never overflows, whatever is sorted: of the   *)
(* two parts of a split the larger one waits, so that the segment at work  *)
(* is halved with every entry of the stack.                                *)
THEOREM StackBoundedHolds == ServicesSpec => []StackBounded
  <1>1. BoundsInv => StackBounded
    BY BoundsStack
  <1> QED BY <1>1, BoundsHold, PTL

(* msvcrt_qsort sorts: when it returns the array is in order and has every *)
(* element as often as before.                                             *)
THEOREM SortsHolds == ServicesSpec => []Sorts
  <1>1. ServicesInit => OrderInv
    BY OrderInit DEF ServicesInit
  <1>2. BoundsInv /\ OrderInv /\ [ServicesNext]_servicesVars => OrderInv'
    BY SortSteps, OrderNext
  <1>3. BoundsInv /\ OrderInv => Sorts
    BY OrderSorts
  <1> QED BY <1>1, <1>2, <1>3, BoundsHold, PTL DEF ServicesSpec

-----------------------------------------------------------------------------
(* Moving files: FileMove implements AtomicMove.  The invariant says what  *)
(* the abstract state hides: a mover that has a copy to rename has         *)
(* finished it, nobody but its mover gives a copy the target's name, and   *)
(* only once, and a mover gets past the guarded ways to rename only where  *)
(* there are none for it.                                                  *)

Places ==
  {"rename", "link", "unlink", "lstat", "rename_anyway", "look_first", "open", "copy", "finish",
   "drop", "undo", "retire", "moved", "refused", "halfway", "dead"}

MoveType ==
  /\ job \in [Movers -> [src : Sources, replace : BOOLEAN, copy : BOOLEAN]]
  /\ fs \in FileSystems
  /\ place \in [Movers -> Places]
  /\ entry \in [Movers -> {"from", "tmp"}]
  /\ source \in [Sources -> Sources \cup {None}]
  /\ target \in Sources \cup Others \cup Movers \cup {None}
  /\ temp \in [Movers -> BOOLEAN]
  /\ copied \in [Movers -> 0 .. Chunks]
  /\ mode \in [Movers -> BOOLEAN]
  /\ denied \in [Movers -> SUBSET {"link", "unlink"}]

\* A source is under its own name or none.
OwnNames == \A s \in Sources : source[s] \in {s, None}

\* A copy that is about to be, or has been, the target is whole.
CopyWhole(m) ==
  /\ place[m] = "finish" => copied[m] = Chunks
  /\ entry[m] = "tmp" => copied[m] = Chunks /\ mode[m]
  /\ entry[m] = "tmp" => place[m] \notin {"look_first", "open", "copy", "finish"}
  /\ place[m] \in {"undo", "retire"} => entry[m] = "tmp"

\* A copy is the target only after its rename.
PlacedOnce(m) ==
  target = m => entry[m] = "tmp" /\ place[m] \in {"unlink", "undo", "retire", "moved", "halfway", "dead"}

\* The temporary file is there only while the copy is made and renamed, or it
\* could not be removed.
TempHeld(m) ==
  temp[m] =>
    \/ place[m] \in {"copy", "finish", "drop", "undo", "dead"}
    \/ entry[m] = "tmp" /\ place[m] \in {"rename", "link", "unlink", "lstat", "rename_anyway"}
    \/ "unlink" \in denied[m] /\ place[m] \in {"refused", "halfway"}

\* rename is the last resort.
LastResort(m) ==
  /\ place[m] \in {"link", "lstat", "rename_anyway"} => fs.noreplace # "works"
  /\ place[m] \in {"lstat", "rename_anyway"} => "link" \in denied[m] \/ Exdev(m)

MoveInv ==
  /\ MoveType
  /\ OwnNames
  /\ \A m \in Movers : CopyWhole(m) /\ PlacedOnce(m) /\ TempHeld(m) /\ LastResort(m)

-----------------------------------------------------------------------------
(* The invariant is one.  Of a mover that takes a step, the four parts     *)
(* about it are shown; those of the others are disturbed only by a name    *)
(* that goes.                                                              *)

(* The names of the constants are told apart. *)
LEMMA Distinct ==
  /\ Chunks \in Nat
  /\ \A m \in Movers : m \notin Sources /\ m \notin Others /\ m # None
  /\ \A s \in Sources : s \notin Others /\ s # None
  /\ None \notin Others
  BY MoveAssumption

(* The initial states satisfy the invariant. *)
LEMMA InvInit == MoveInit => MoveInv
  BY Distinct, MoveAssumption
  DEF MoveInit, MoveInv, MoveType, OwnNames, CopyWhole, PlacedOnce, TempHeld, LastResort, Places, Inode, Exdev

(* Steps that change neither the names nor the copies: a mover goes on.    *)
LEMMA InvGoesOn ==
  ASSUME MoveInv, NEW m \in Movers, NEW where \in Places, Proceed(m, where),
         UNCHANGED <<job, fs, entry, source, target, temp, copied, mode, denied>>,
         where = "finish" => copied[m] = Chunks,
         where \in {"look_first", "open", "copy", "finish"} => entry[m] = "from",
         where \in {"undo", "retire"} => entry[m] = "tmp",
         target = m => where \in {"unlink", "undo", "retire", "moved", "halfway", "dead"},
         temp[m] => \/ where \in {"copy", "finish", "drop", "undo", "dead"}
                    \/ entry[m] = "tmp" /\ where \in {"rename", "link", "unlink", "lstat", "rename_anyway"},
         where \in {"link", "lstat", "rename_anyway"} => fs.noreplace # "works",
         where \in {"lstat", "rename_anyway"} => "link" \in denied[m] \/ Exdev(m)
  PROVE  MoveInv'
  <1>1. MoveType' /\ OwnNames'
    BY DEF MoveInv, MoveType, OwnNames, Proceed
  <1>2. ASSUME NEW u \in Movers
        PROVE  (CopyWhole(u) /\ PlacedOnce(u) /\ TempHeld(u) /\ LastResort(u))'
    <2>1. CASE u = m
      BY <2>1 DEF MoveInv, MoveType, Proceed, CopyWhole, PlacedOnce, TempHeld, LastResort, Inode, Exdev
    <2>2. CASE u # m
      BY <2>2 DEF MoveInv, MoveType, Proceed, CopyWhole, PlacedOnce, TempHeld, LastResort, Inode, Exdev
    <2> QED BY <2>1, <2>2
  <1> QED BY <1>1, <1>2 DEF MoveInv

(* Steps of the directory: the inode of m becomes the target, or its old   *)
(* name goes, or both.                                                     *)
LEMMA InvRenames ==
  ASSUME MoveInv, NEW m \in Movers, NEW where \in {"unlink", "retire", "moved"}, Proceed(m, where),
         Inode(m) # None,
         target' \in {Inode(m), target},
         Unname(m) \/ (where = "unlink" /\ UNCHANGED <<source, temp>>),
         where = "retire" => entry[m] = "tmp",
         where = "moved" => entry[m] = "from",
         place[m] \in {"rename", "link", "unlink", "rename_anyway"},
         UNCHANGED <<job, fs, entry, copied, mode, denied>>
  PROVE  MoveInv'
  <1> USE Distinct
  <1>1. Inode(m) \in Sources \cup Movers /\ (entry[m] = "from" => Inode(m) \in Sources) /\ (entry[m] = "tmp" => Inode(m) = m)
    BY DEF MoveInv, MoveType, Inode
  <1>2. /\ job[m].src \in Sources
        /\ source' \in [Sources -> Sources \cup {None}]
        /\ temp' \in [Movers -> BOOLEAN]
        /\ \A s \in Sources : source'[s] \in {source[s], None}
        /\ \A u \in Movers : u # m => temp'[u] = temp[u]
        /\ entry[m] = "from" => temp' = temp
        /\ temp'[m] => (where = "unlink" /\ entry[m] = "tmp") \/ (temp[m] /\ entry[m] = "from")
    BY DEF MoveInv, MoveType, Unname
  <1>3. MoveType' /\ OwnNames'
    BY <1>1, <1>2 DEF MoveInv, MoveType, OwnNames, Proceed, Places
  <1>4. ASSUME NEW u \in Movers
        PROVE  (CopyWhole(u) /\ PlacedOnce(u) /\ TempHeld(u) /\ LastResort(u))'
    <2>1. CASE u = m
      <3>1. CopyWhole(u)' /\ PlacedOnce(u)' /\ LastResort(u)'
        BY <1>1, <2>1 DEF MoveInv, MoveType, Proceed, CopyWhole, PlacedOnce, LastResort
      <3>2. TempHeld(u)'
        BY <1>2, <2>1 DEF MoveInv, MoveType, Proceed, TempHeld
      <3> QED BY <3>1, <3>2
    <2>2. CASE u # m
      <3>1. place'[u] = place[u] /\ temp'[u] = temp[u] /\ (target' = u => target = u)
        BY <1>1, <1>2, <2>2 DEF MoveInv, MoveType, Proceed
      <3>2. Exdev(u)' = Exdev(u)
        BY DEF Exdev
      <3> QED BY <3>1, <3>2 DEF MoveInv, CopyWhole, PlacedOnce, TempHeld, LastResort
    <2> QED BY <2>1, <2>2
  <1> QED BY <1>3, <1>4 DEF MoveInv

(* Steps of the copy that another mover sees nothing of: mkostemp, the     *)
(* loops, fchmod and close, and unlink(tmp).                               *)
LEMMA InvCopies ==
  ASSUME MoveInv, NEW m \in Movers, Open(m) \/ CopyPieces(m) \/ FinishCopy(m) \/ DropCopy(m)
  PROVE  MoveInv'
  <1> USE Distinct
  <1>1. MoveType' /\ OwnNames'
    <2>1. CASE Open(m)
      BY <2>1 DEF MoveInv, MoveType, OwnNames, Proceed, Open, Places
    <2>2. CASE CopyPieces(m)
      <3>1. copied[m] \in 0 .. Chunks
        BY DEF MoveInv, MoveType
      <3>2. \A k \in copied[m] + 1 .. Chunks : k \in 0 .. Chunks
        BY <3>1
      <3>3. copied' = copied \/ \E k \in 0 .. Chunks : copied' = [copied EXCEPT ![m] = k]
        BY <2>2, <3>2 DEF CopyPieces
      <3>4. copied' \in [Movers -> 0 .. Chunks]
        BY <3>3 DEF MoveInv, MoveType
      <3>5. place' \in [Movers -> Places]
        BY <2>2 DEF MoveInv, MoveType, Proceed, CopyPieces, WriteFailed, Places
      <3> QED BY <2>2, <3>4, <3>5 DEF MoveInv, MoveType, OwnNames, CopyPieces
    <2>3. CASE FinishCopy(m)
      BY <2>3 DEF MoveInv, MoveType, OwnNames, Proceed, FinishCopy, Places
    <2>4. CASE DropCopy(m)
      <3>1. temp' \in [Movers -> BOOLEAN] /\ denied' \in [Movers -> SUBSET {"link", "unlink"}]
        <4>1. temp \in [Movers -> BOOLEAN] /\ denied \in [Movers -> SUBSET {"link", "unlink"}]
          BY DEF MoveInv, MoveType
        <4>2. CASE temp' = [temp EXCEPT ![m] = FALSE] /\ denied' = denied
          BY <4>1, <4>2
        <4>3. CASE Denied(m, "unlink") /\ temp' = temp
          BY <4>1, <4>3 DEF Denied
        <4> QED BY <2>4, <4>2, <4>3 DEF DropCopy
      <3>2. place' \in [Movers -> Places]
        BY <2>4 DEF MoveInv, MoveType, DropCopy, Proceed, Places
      <3>3. UNCHANGED <<job, fs, entry, source, target, copied, mode>>
        BY <2>4 DEF DropCopy
      <3> QED BY <3>1, <3>2, <3>3 DEF MoveInv, MoveType, OwnNames
    <2> QED BY <2>1, <2>2, <2>3, <2>4
  <1>2. ASSUME NEW u \in Movers, u # m
        PROVE  (CopyWhole(u) /\ PlacedOnce(u) /\ TempHeld(u) /\ LastResort(u))'
    <2>1. /\ place'[u] = place[u] /\ temp'[u] = temp[u] /\ entry'[u] = entry[u]
          /\ copied'[u] = copied[u] /\ mode'[u] = mode[u] /\ denied'[u] = denied[u]
      BY <1>2 DEF MoveInv, MoveType, Proceed, Open, CopyPieces, FinishCopy, DropCopy, Denied
    <2>2. UNCHANGED <<job, fs, source, target>>
      BY DEF Open, CopyPieces, FinishCopy, DropCopy
    <2>3. Exdev(u)' = Exdev(u)
      BY <2>1, <2>2 DEF Exdev
    <2> QED BY <2>1, <2>2, <2>3 DEF MoveInv, CopyWhole, PlacedOnce, TempHeld, LastResort
  <1>3. (CopyWhole(m) /\ PlacedOnce(m) /\ TempHeld(m) /\ LastResort(m))'
    <2>1. CASE Open(m)
      BY <2>1 DEF MoveInv, MoveType, Proceed, Open, CopyWhole, PlacedOnce, TempHeld, LastResort
    <2>2. CASE CopyPieces(m)
      BY <2>2 DEF MoveInv, MoveType, Proceed, CopyPieces, WriteFailed, CopyWhole, PlacedOnce, TempHeld, LastResort
    <2>3. CASE FinishCopy(m)
      BY <2>3 DEF MoveInv, MoveType, Proceed, FinishCopy, CopyWhole, PlacedOnce, TempHeld, LastResort
    <2>4. CASE DropCopy(m)
      <3>1. /\ place[m] \in {"drop", "undo"}
            /\ place'[m] = IF place[m] = "drop" THEN "refused" ELSE "halfway"
            /\ UNCHANGED <<job, fs, entry, source, target, copied, mode>>
        BY <2>4 DEF MoveInv, MoveType, Proceed, DropCopy
      <3>2. ~temp'[m] \/ "unlink" \in denied'[m]
        BY <2>4 DEF MoveInv, MoveType, DropCopy, Denied
      <3>3. TempHeld(m)'
        BY <3>1, <3>2 DEF TempHeld
      <3>4. CopyWhole(m)' /\ PlacedOnce(m)' /\ LastResort(m)'
        BY <3>1 DEF MoveInv, CopyWhole, PlacedOnce, LastResort
      <3> QED BY <3>3, <3>4
    <2> QED BY <2>1, <2>2, <2>3, <2>4
  <1> QED BY <1>1, <1>2, <1>3 DEF MoveInv

(* A hard link that is refused. *)
LEMMA InvLinkRefused ==
  ASSUME MoveInv, NEW m \in Movers, place[m] = "link", Proceed(m, "lstat"),
         IF Exdev(m) THEN denied' = denied ELSE Denied(m, "link"),
         UNCHANGED <<job, fs, entry, source, target, temp, copied, mode>>
  PROVE  MoveInv'
  <1>1. /\ denied' \in [Movers -> SUBSET {"link", "unlink"}]
        /\ \A u \in Movers : u # m => denied'[u] = denied[u]
        /\ "link" \in denied'[m] \/ Exdev(m)
    BY DEF MoveInv, MoveType, Denied
  <1>2. place' \in [Movers -> Places] /\ place'[m] = "lstat" /\ \A u \in Movers : u # m => place'[u] = place[u]
    BY DEF MoveInv, MoveType, Proceed, Places
  <1>3. MoveType' /\ OwnNames'
    BY <1>1, <1>2 DEF MoveInv, MoveType, OwnNames
  <1>4. \A u \in Movers : Exdev(u)' = Exdev(u)
    BY DEF Exdev
  <1>5. ASSUME NEW u \in Movers
        PROVE  (CopyWhole(u) /\ PlacedOnce(u) /\ TempHeld(u) /\ LastResort(u))'
    <2>1. CASE u = m
      BY <1>1, <1>2, <1>4, <2>1 DEF MoveInv, CopyWhole, PlacedOnce, TempHeld, LastResort
    <2>2. CASE u # m
      BY <1>1, <1>2, <1>4, <2>2 DEF MoveInv, CopyWhole, PlacedOnce, TempHeld, LastResort
    <2> QED BY <2>1, <2>2
  <1> QED BY <1>3, <1>5 DEF MoveInv

(* A rename that fails. *)
LEMMA InvFails ==
  ASSUME MoveInv, NEW m \in Movers, NEW err, Failed(m, err),
         place[m] \in {"rename", "link", "lstat", "rename_anyway"}
  PROVE  MoveInv'
  <1>1. AfterFailure(m, err) \in {"drop", "look_first", "refused"}
    BY DEF AfterFailure
  <1>2. /\ entry[m] \in {"from", "tmp"}
        /\ AfterFailure(m, err) = "drop" <=> entry[m] = "tmp"
    BY DEF AfterFailure, MoveInv, MoveType
  <1>3. target # m /\ (entry[m] = "from" => ~temp[m])
    BY DEF MoveInv, PlacedOnce, TempHeld
  <1> QED BY <1>1, <1>2, <1>3, InvGoesOn DEF Failed, Places

(* rename, wherever it is called. *)
LEMMA InvRenameCall ==
  ASSUME MoveInv, NEW m \in Movers, RenameCall(m), place[m] \in {"rename", "rename_anyway"}
  PROVE  MoveInv'
  <1>1. CASE Exdev(m) /\ Failed(m, "EXDEV")
    BY <1>1, InvFails
  <1>2. CASE ~Exdev(m) /\ Failed(m, "other")
    BY <1>2, InvFails
  <1>3. CASE /\ ~Exdev(m) /\ Inode(m) # None
             /\ IF Inode(m) = target THEN UNCHANGED <<source, target, temp>>
                ELSE target' = Inode(m) /\ Unname(m)
             /\ Renamed(m)
             /\ UNCHANGED <<job, fs, entry, copied, mode, denied>>
    <2>1. entry[m] \in {"from", "tmp"} /\ target # m /\ (entry[m] = "from" => ~temp[m])
      BY DEF MoveInv, MoveType, PlacedOnce, TempHeld
    <2>2. CASE Inode(m) = target
      <3>1. entry[m] = "from"
        BY <2>1, <2>2 DEF Inode
      <3> QED BY <1>3, <2>1, <2>2, <3>1, InvGoesOn DEF Renamed, Places
    <2>3. CASE Inode(m) # target
      BY <1>3, <2>1, <2>3, InvRenames DEF Renamed
    <2> QED BY <2>2, <2>3
  <1> QED BY <1>1, <1>2, <1>3 DEF RenameCall

(* Every step of a mover keeps the invariant. *)
LEMMA InvMoveStep ==
  ASSUME MoveInv, NEW m \in Movers, MoveStep(m) \/ Die(m)
  PROVE  MoveInv'
  <1>e. entry[m] \in {"from", "tmp"} /\ place[m] \in Places
    BY DEF MoveInv, MoveType
  <1>c. /\ place[m] \notin {"unlink", "undo", "retire", "moved", "halfway", "dead"} => target # m
        /\ place[m] \in {"lstat", "look_first", "open"} => (temp[m] => entry[m] = "tmp")
        /\ place[m] \in {"look_first", "open"} => entry[m] = "from" /\ ~temp[m]
        /\ place[m] \in {"undo", "retire"} => entry[m] = "tmp"
        /\ place[m] = "retire" => ~temp[m]
        /\ place[m] \in {"rename", "link", "unlink", "lstat", "rename_anyway"} /\ entry[m] = "from" => ~temp[m]
        /\ place[m] \in {"link", "lstat", "rename_anyway"} => fs.noreplace # "works"
        /\ place[m] \in {"lstat", "rename_anyway"} => "link" \in denied[m] \/ Exdev(m)
    BY <1>e DEF MoveInv, CopyWhole, PlacedOnce, TempHeld, LastResort
  <1>1. CASE Rename(m)
    BY <1>1, InvRenameCall DEF Rename
  <1>2. CASE RenameAt2(m)
    <2>1. CASE Proceed(m, "link") /\ fs.noreplace # "works" /\ UNCHANGED <<job, fs, entry, source, target, temp, copied, mode, denied>>
      BY <1>2, <1>e, <1>c, <2>1, InvGoesOn DEF RenameAt2, Places
    <2>2. CASE Failed(m, "EXDEV") \/ Failed(m, "other")
      BY <1>2, <2>2, InvFails DEF RenameAt2
    <2>3. CASE /\ Inode(m) # None /\ target' = Inode(m) /\ Unname(m) /\ Renamed(m)
               /\ UNCHANGED <<job, fs, entry, copied, mode, denied>>
      BY <1>2, <1>e, <2>3, InvRenames DEF RenameAt2, Renamed
    <2> QED BY <1>2, <2>1, <2>2, <2>3 DEF RenameAt2
  <1>3. CASE Link(m)
    <2>1. CASE Failed(m, "EEXIST")
      BY <1>3, <2>1, InvFails DEF Link
    <2>2. CASE /\ Proceed(m, "lstat")
               /\ IF Exdev(m) THEN denied' = denied ELSE Denied(m, "link")
               /\ UNCHANGED <<job, fs, entry, source, target, temp, copied, mode>>
      BY <1>3, <2>2, InvLinkRefused DEF Link
    <2>3. CASE /\ Inode(m) # None /\ target' = Inode(m) /\ Proceed(m, "unlink")
               /\ UNCHANGED <<job, fs, entry, source, temp, copied, mode, denied>>
      BY <1>3, <2>3, InvRenames DEF Link
    <2> QED BY <1>3, <2>1, <2>2, <2>3 DEF Link
  <1>4. CASE Unlink(m)
    <2>1. CASE /\ Inode(m) # None /\ Unname(m) /\ Renamed(m)
               /\ UNCHANGED <<job, fs, entry, target, copied, mode, denied>>
      BY <1>4, <1>e, <2>1, InvRenames DEF Unlink, Renamed
    <2>2. CASE /\ Proceed(m, IF entry[m] = "from" THEN "halfway" ELSE "undo")
               /\ UNCHANGED <<job, fs, entry, source, target, temp, copied, mode, denied>>
      BY <1>4, <1>e, <1>c, <2>2, InvGoesOn DEF Unlink, Places
    <2> QED BY <1>4, <2>1, <2>2 DEF Unlink
  <1>5. CASE Lstat(m)
    <2>1. CASE Failed(m, "EEXIST")
      BY <1>5, <2>1, InvFails DEF Lstat
    <2>2. CASE /\ Proceed(m, "rename_anyway")
               /\ UNCHANGED <<job, fs, entry, source, target, temp, copied, mode, denied>>
      BY <1>5, <1>e, <1>c, <2>2, InvGoesOn DEF Lstat, Places
    <2> QED BY <1>5, <2>1, <2>2 DEF Lstat
  <1>6. CASE RenameAnyway(m)
    BY <1>6, InvRenameCall DEF RenameAnyway
  <1>7. CASE LookFirst(m)
    <2>1. PICK where \in {"refused", "open"} :
            Proceed(m, where) /\ UNCHANGED <<job, fs, entry, source, target, temp, copied, mode, denied>>
      BY <1>7, Zenon DEF LookFirst
    <2>2. place[m] = "look_first"
      BY <1>7 DEF LookFirst
    <2> QED BY <1>c, <2>1, <2>2, InvGoesOn DEF Places
  <1>8. CASE Open(m) \/ CopyPieces(m) \/ FinishCopy(m) \/ DropCopy(m)
    BY <1>8, InvCopies
  <1>9. CASE UnlinkSource(m)
    <2> USE Distinct
    <2>1. MoveType' /\ OwnNames'
      BY <1>9 DEF MoveInv, MoveType, OwnNames, UnlinkSource, Proceed, Places
    <2>2. /\ UNCHANGED <<job, fs, entry, target, temp, copied, mode, denied>>
          /\ \A u \in Movers : u # m => place'[u] = place[u]
          /\ place'[m] \in {"moved", "halfway"}
      BY <1>9 DEF MoveInv, MoveType, UnlinkSource, Proceed
    <2>3. ASSUME NEW u \in Movers
          PROVE  (CopyWhole(u) /\ PlacedOnce(u) /\ TempHeld(u) /\ LastResort(u))'
      <3>1. Exdev(u)' = Exdev(u)
        BY <2>2 DEF Exdev
      <3>2. CASE u = m
        BY <1>9, <1>c, <2>2, <3>2 DEF UnlinkSource, MoveInv, CopyWhole, PlacedOnce, TempHeld, LastResort
      <3>3. CASE u # m
        BY <2>2, <3>1, <3>3 DEF MoveInv, CopyWhole, PlacedOnce, TempHeld, LastResort
      <3> QED BY <3>2, <3>3
    <2> QED BY <2>1, <2>3 DEF MoveInv
  <1>10. CASE Die(m)
    <2>1. target = m => place[m] \in {"unlink", "undo", "retire"}
      BY <1>10, <1>c DEF Die, Answered, Places
    <2> QED BY <1>10, InvGoesOn DEF Die, Places
  <1> QED BY <1>1, <1>2, <1>3, <1>4, <1>5, <1>6, <1>7, <1>8, <1>9, <1>10 DEF MoveStep

(* So does everything else. *)
LEMMA InvNext == MoveInv /\ [MoveNext]_moveVars => MoveInv'
  <1> SUFFICES ASSUME MoveInv, [MoveNext]_moveVars PROVE MoveInv'
    OBVIOUS
  <1>1. CASE \E m \in Movers : MoveStep(m) \/ Die(m)
    BY <1>1, InvMoveStep
  <1>2. CASE Elsewhere
    BY <1>2, Distinct
    DEF Elsewhere, MoveInv, MoveType, OwnNames, CopyWhole, PlacedOnce, TempHeld, LastResort, Inode, Exdev
  <1>3. CASE UNCHANGED moveVars
    BY <1>3
    DEF moveVars, MoveInv, MoveType, OwnNames, CopyWhole, PlacedOnce, TempHeld, LastResort, Inode, Exdev
  <1> QED BY <1>1, <1>2, <1>3 DEF MoveNext

(* The invariant holds in every state the movers reach. *)
THEOREM MoveInvariant == MoveSpec => []MoveInv
  BY InvInit, InvNext, PTL DEF MoveSpec

-----------------------------------------------------------------------------
(* The refinement.  First, what the invariant makes of the mapped state:   *)
(* the sources are under their names, and a target that is a copy is whole.*)

(* The mapped directory entries. *)
LEMMA EntryFacts ==
  ASSUME MoveInv
  PROVE  /\ [s \in Sources |-> Contents(source[s])] = source
         /\ Contents(target) = IF target \in Movers THEN job[target].src ELSE target
  <1> USE Distinct
  <1>1. \A s \in Sources : Contents(source[s]) = source[s]
    BY DEF MoveInv, OwnNames, Contents
  <1>2. Contents(target) = IF target \in Movers THEN job[target].src ELSE target
    BY DEF MoveInv, CopyWhole, PlacedOnce, Contents
  <1>3. source = [s \in Sources |-> source[s]]
    BY DEF MoveInv, MoveType
  <1> QED BY <1>1, <1>2, <1>3

(* The same in the next state. *)
LEMMA EntriesNext ==
  ASSUME MoveInv'
  PROVE  /\ [s \in Sources |-> Contents(source[s])'] = source'
         /\ Contents(target)' = IF target' \in Movers THEN job'[target'].src ELSE target'
  <1> USE Distinct
  <1>1. \A s \in Sources : Contents(source[s])' = source'[s]
    BY DEF MoveInv, OwnNames, Contents
  <1>2. Contents(target)' = IF target' \in Movers THEN job'[target'].src ELSE target'
    BY DEF MoveInv, CopyWhole, PlacedOnce, Contents
  <1>3. source' = [s \in Sources |-> source'[s]]
    BY DEF MoveInv, MoveType
  <1> QED BY <1>1, <1>2, <1>3

(* The mapped stages when one mover goes on. *)
LEMMA Stages ==
  ASSUME MoveInv, NEW m \in Movers, NEW where, Proceed(m, where)
  PROVE  [u \in Movers |-> StageAt(place'[u])]
           = [[u \in Movers |-> StageAt(place[u])] EXCEPT ![m] = StageAt(where)]
  <1>1. \A u \in Movers : place'[u] = IF u = m THEN where ELSE place[u]
    BY DEF MoveInv, MoveType, Proceed
  <1> QED BY <1>1

(* Initial states are mapped to initial states. *)
LEMMA RefinesInit == MoveInit => Promise!Init
  <1> SUFFICES ASSUME MoveInit PROVE Promise!Init
    OBVIOUS
  <1>1. MoveInv
    BY InvInit
  <1>2. \A m \in Movers : job[m].src \in Sources /\ job[m].replace \in BOOLEAN
    BY <1>1 DEF MoveInv, MoveType
  <1>3. [m \in Movers |-> [src |-> job[m].src, replace |-> job[m].replace]]
          \in [Movers -> [src : Sources, replace : BOOLEAN]]
    BY <1>2
  <1>4. (fs.noreplace = "works") \in BOOLEAN
    OBVIOUS
  <1>5. [m \in Movers |-> StageAt(place[m])] = [m \in Movers |-> "asked"]
    BY DEF MoveInit, StageAt, Answered
  <1>6. [s \in Sources |-> Contents(source[s])] = [s \in Sources |-> s] /\ Contents(target) \in Others \cup {None}
    BY <1>1, EntryFacts, Distinct DEF MoveInit
  <1>7. {m \in Movers : temp[m]} = {}
    BY DEF MoveInit
  <1>8. denied = [m \in Movers |-> {}]
    BY DEF MoveInit
  <1> QED BY <1>3, <1>4, <1>5, <1>6, <1>7, <1>8 DEF Promise!Init

(* A step that only moves a mover on within a stage is a stutter. *)
LEMMA Stutters ==
  ASSUME MoveInv, MoveInv', NEW m \in Movers, NEW where, Proceed(m, where),
         StageAt(where) = StageAt(place[m]), UNCHANGED <<job, fs, source, target, temp, denied>>
  PROVE  UNCHANGED Promise!vars
  <1>1. [u \in Movers |-> StageAt(place'[u])] = [u \in Movers |-> StageAt(place[u])]
    BY DEF MoveInv, MoveType, Proceed
  <1> QED BY <1>1, EntryFacts, EntriesNext DEF Promise!vars

(* What stays as it was, and what becomes of the temporary files. *)
LEMMA Rest ==
  ASSUME MoveInv, MoveInv', NEW m \in Movers,
         \A u \in Movers : u # m => temp'[u] = temp[u],
         UNCHANGED <<job, fs>>
  PROVE  /\ [u \in Movers |-> [src |-> job'[u].src, replace |-> job'[u].replace]]
              = [u \in Movers |-> [src |-> job[u].src, replace |-> job[u].replace]]
         /\ (fs'.noreplace = "works") = (fs.noreplace = "works")
         /\ temp'[m] => {u \in Movers : temp'[u]} = {u \in Movers : temp[u]} \cup {m}
         /\ ~temp'[m] => {u \in Movers : temp'[u]} = {u \in Movers : temp[u]} \ {m}
  OBVIOUS

(* A mover that gives up leaves nothing behind, or what it may not remove. *)
LEMMA Refuses ==
  ASSUME MoveInv, MoveInv', NEW m \in Movers, NEW where \in {"refused", "halfway"}, Proceed(m, where),
         StageAt(place[m]) = IF where = "refused" THEN "asked" ELSE "placed",
         \/ ~temp'[m] /\ denied' = denied /\ \A u \in Movers : u # m => temp'[u] = temp[u]
         \/ temp' = temp /\ Denied(m, "unlink"),
         UNCHANGED <<job, fs, source, target>>
  PROVE  Promise!Refuse(m)
  <1>2. \/ {u \in Movers : temp'[u]} = {u \in Movers : temp[u]} \ {m} /\ denied' = denied
        \/ {u \in Movers : temp'[u]} = {u \in Movers : temp[u]} /\ Promise!Denied(m, "unlink")
    BY DEF Denied, Promise!Denied
  <1>3. StageAt(where) = where
    BY DEF StageAt, Answered
  <1>4. [u \in Movers |-> StageAt(place'[u])]
           = [[u \in Movers |-> StageAt(place[u])] EXCEPT ![m] = where]
    BY <1>3, Stages
  <1>5. [u \in Movers |-> StageAt(place[u])][m] = StageAt(place[m])
    OBVIOUS
  <1>6. /\ [s \in Sources |-> Contents(source[s])'] = [s \in Sources |-> Contents(source[s])]
        /\ Contents(target)' = Contents(target)
    BY EntryFacts, EntriesNext
  <1> QED BY <1>2, <1>4, <1>5, <1>6, Rest
       DEF Promise!Refuse, Promise!Answer, Promise!Stage

(* The mapped job of a mover. *)
LEMMA Jobs ==
  ASSUME NEW m \in Movers
  PROVE  LET jobs == [u \in Movers |-> [src |-> job[u].src, replace |-> job[u].replace]]
         IN  jobs[m].src = job[m].src /\ jobs[m].replace = job[m].replace
  OBVIOUS

(* A source moved by one rename. *)
LEMMA Renames ==
  ASSUME MoveInv, MoveInv', NEW m \in Movers, Proceed(m, "moved"), StageAt(place[m]) = "asked",
         entry[m] = "from", source[job[m].src] # None,
         job[m].replace \/ target = None \/ "link" \in denied[m],
         target' = source[job[m].src], Unname(m), UNCHANGED <<job, fs, denied>>
  PROVE  Promise!Rename(m)
  <1> USE Distinct
  <1>1. /\ source' = [source EXCEPT ![job[m].src] = None]
        /\ temp' = temp
    BY DEF Unname
  <1>2. ~temp'[m]
    BY DEF MoveInv, MoveType, TempHeld, Proceed
  <1>3. {u \in Movers : temp'[u]} = {u \in Movers : temp[u]} \ {m}
    BY <1>1, <1>2, Rest
  <1>4. [u \in Movers |-> StageAt(place'[u])]
           = [[u \in Movers |-> StageAt(place[u])] EXCEPT ![m] = "moved"]
    BY Stages DEF StageAt, Answered
  <1>5. [u \in Movers |-> StageAt(place[u])][m] = "asked"
    OBVIOUS
  <1>6. Contents(target)' = source[job[m].src]
    <2>1. target' \in Sources
      BY DEF MoveInv, MoveType
    <2> QED BY <2>1, EntriesNext
  <1>7. Contents(target) = None \/ target # None
    BY EntryFacts
  <1> QED BY <1>1, <1>3, <1>4, <1>5, <1>6, <1>7, Rest, EntryFacts, EntriesNext, Jobs
       DEF Promise!Rename, Promise!Answer, Promise!Stage, Promise!Gone, Promise!Allowed

(* The target is the source by a hard link, or the copy of it. *)
LEMMA Placed ==
  ASSUME MoveInv, MoveInv', NEW m \in Movers, NEW where \in {"unlink", "retire"}, Proceed(m, where),
         StageAt(place[m]) = "asked", Inode(m) # None,
         job[m].replace \/ target = None \/ "link" \in denied[m],
         target' = Inode(m), \A u \in Movers : u # m => temp'[u] = temp[u],
         temp'[m] => temp[m],
         UNCHANGED <<job, fs, source, denied>>
  PROVE  Promise!Place(m)
  <1> USE Distinct
  <1>1. {u \in Movers : temp'[u]} \in {{u \in Movers : temp[u]}, {u \in Movers : temp[u]} \ {m}}
    BY Rest DEF MoveInv, MoveType
  <1>2. [u \in Movers |-> StageAt(place'[u])]
           = [[u \in Movers |-> StageAt(place[u])] EXCEPT ![m] = "placed"]
    BY Stages DEF StageAt, Answered
  <1>3. [u \in Movers |-> StageAt(place[u])][m] = "asked"
    OBVIOUS
  <1>4. Contents(target)' = job[m].src
    <2>1. CASE entry[m] = "from"
      BY <2>1, EntriesNext DEF Inode, MoveInv, MoveType, OwnNames
    <2>2. CASE entry[m] # "from"
      BY <2>2, EntriesNext DEF Inode
    <2> QED BY <2>1, <2>2
  <1>5. Contents(target) = None \/ target # None
    BY EntryFacts
  <1>6. [s \in Sources |-> Contents(source[s])'] = [s \in Sources |-> Contents(source[s])]
    BY EntryFacts, EntriesNext
  <1> QED BY <1>1, <1>2, <1>3, <1>4, <1>5, <1>6, Rest, Jobs
       DEF Promise!Place, Promise!Stage, Promise!Allowed

(* The old name of a target goes. *)
LEMMA Retires ==
  ASSUME MoveInv, MoveInv', NEW m \in Movers, Proceed(m, "moved"), StageAt(place[m]) = "placed",
         source' = [source EXCEPT ![job[m].src] = None],
         UNCHANGED <<job, fs, target, temp, denied>>
  PROVE  Promise!Retire(m)
  <1>1. ~temp'[m]
    BY DEF MoveInv, MoveType, TempHeld, Proceed
  <1>2. {u \in Movers : temp'[u]} = {u \in Movers : temp[u]} \ {m}
    BY <1>1, Rest
  <1>3. [u \in Movers |-> StageAt(place'[u])]
           = [[u \in Movers |-> StageAt(place[u])] EXCEPT ![m] = "moved"]
    BY Stages DEF StageAt, Answered
  <1>4. [u \in Movers |-> StageAt(place[u])][m] = "placed"
    OBVIOUS
  <1>5. Contents(target)' = Contents(target)
    BY EntryFacts, EntriesNext
  <1> QED BY <1>2, <1>3, <1>4, <1>5, Rest, EntryFacts, EntriesNext, Jobs
       DEF Promise!Retire, Promise!Answer, Promise!Stage, Promise!Gone

(* rename of two names of one file. *)
LEMMA Alreadies ==
  ASSUME MoveInv, MoveInv', NEW m \in Movers, Proceed(m, "moved"), StageAt(place[m]) = "asked",
         source[job[m].src] # None, target = source[job[m].src],
         UNCHANGED <<job, fs, source, target, temp, denied>>
  PROVE  Promise!Already(m)
  <1> USE Distinct
  <1>1. ~temp'[m]
    BY DEF MoveInv, MoveType, TempHeld, Proceed
  <1>2. {u \in Movers : temp'[u]} = {u \in Movers : temp[u]} \ {m}
    BY <1>1, Rest
  <1>3. [u \in Movers |-> StageAt(place'[u])]
           = [[u \in Movers |-> StageAt(place[u])] EXCEPT ![m] = "moved"]
    BY Stages DEF StageAt, Answered
  <1>4. [u \in Movers |-> StageAt(place[u])][m] = "asked"
    OBVIOUS
  <1>5. Contents(target)' = Contents(target) /\ Contents(target) = source[job[m].src]
    BY EntryFacts, EntriesNext DEF MoveInv, MoveType
  <1> QED BY <1>2, <1>3, <1>4, <1>5, Rest, EntryFacts, EntriesNext, Jobs
       DEF Promise!Already, Promise!Answer, Promise!Stage

(* A temporary file comes or goes. *)
LEMMA Prepares ==
  ASSUME MoveInv, MoveInv', NEW m \in Movers, NEW where, Proceed(m, where),
         StageAt(where) = StageAt(place[m]), StageAt(place[m]) \in {"asked", "placed"},
         \A u \in Movers : u # m => temp'[u] = temp[u],
         UNCHANGED <<job, fs, source, target, denied>>
  PROVE  Promise!Prepare(m)
  <1>1. {u \in Movers : temp'[u]} \in {{u \in Movers : temp[u]} \cup {m}, {u \in Movers : temp[u]} \ {m}}
    BY Rest DEF MoveInv, MoveType
  <1>2. [u \in Movers |-> StageAt(place'[u])] = [u \in Movers |-> StageAt(place[u])]
    BY DEF MoveInv, MoveType, Proceed
  <1>3. [u \in Movers |-> StageAt(place[u])][m] = StageAt(place[m])
    OBVIOUS
  <1>4. /\ [s \in Sources |-> Contents(source[s])'] = [s \in Sources |-> Contents(source[s])]
        /\ Contents(target)' = Contents(target)
    BY EntryFacts, EntriesNext
  <1> QED BY <1>1, <1>2, <1>3, <1>4, Rest DEF Promise!Prepare

(* A mover dies where it is. *)
LEMMA Dies ==
  ASSUME MoveInv, MoveInv', NEW m \in Movers, Die(m)
  PROVE  Promise!Die(m)
  <1>1. Proceed(m, "dead") /\ UNCHANGED <<job, fs, source, target, temp, denied>>
    BY DEF Die
  <1>2. StageAt(place[m]) \in {"asked", "placed"}
    BY DEF Die, StageAt
  <1>3. [u \in Movers |-> StageAt(place'[u])]
           = [[u \in Movers |-> StageAt(place[u])] EXCEPT ![m] = "dead"]
    BY <1>1, Stages DEF StageAt
  <1>4. [u \in Movers |-> StageAt(place[u])][m] = StageAt(place[m])
    OBVIOUS
  <1>5. /\ [s \in Sources |-> Contents(source[s])'] = [s \in Sources |-> Contents(source[s])]
        /\ Contents(target)' = Contents(target)
    BY <1>1, EntryFacts, EntriesNext
  <1>6. {u \in Movers : temp'[u]} = {u \in Movers : temp[u]}
    BY <1>1
  <1> QED BY <1>1, <1>2, <1>3, <1>4, <1>5, <1>6, Rest DEF Promise!Die, Promise!Stage

(* The stages that the places stand for. *)
LEMMA StagesOfPlaces ==
  /\ \A w \in {"rename", "link", "lstat", "rename_anyway", "look_first", "open", "copy", "finish", "drop"} :
       StageAt(w) = "asked"
  /\ \A w \in {"unlink", "undo", "retire"} : StageAt(w) = "placed"
  BY DEF StageAt, Answered

(* What a mover does in one step of the promise. *)
PromiseStep(m) ==
  \/ Promise!Rename(m) \/ Promise!Place(m) \/ Promise!Retire(m) \/ Promise!Already(m)
  \/ Promise!Refuse(m) \/ Promise!Deny(m) \/ Promise!Die(m) \/ Promise!Prepare(m) \/ UNCHANGED Promise!vars

(* A mover that has no copy to rename has no temporary file. *)
LEMMA NoCopyYet ==
  ASSUME MoveInv, NEW m \in Movers
  PROVE  /\ place[m] \in {"look_first", "open", "retire"} => ~temp[m]
         /\ place[m] \in {"rename", "link", "unlink", "lstat", "rename_anyway"} /\ entry[m] = "from" => ~temp[m]
  BY DEF MoveInv, TempHeld, CopyWhole

(* A rename that fails is looked into, or the move is given up. *)
LEMMA RefinesFailed ==
  ASSUME MoveInv, MoveInv', NEW m \in Movers, NEW err, Failed(m, err),
         place[m] \in {"rename", "link", "lstat", "rename_anyway"}
  PROVE  PromiseStep(m)
  <1>1. Proceed(m, AfterFailure(m, err)) /\ UNCHANGED <<job, fs, source, target, temp, denied>>
    BY DEF Failed
  <1>0. StageAt(place[m]) = "asked"
    BY StagesOfPlaces
  <1>2. CASE AfterFailure(m, err) \in {"drop", "look_first"}
    <2>1. StageAt(AfterFailure(m, err)) = StageAt(place[m])
      BY <1>0, <1>2, StagesOfPlaces
    <2> QED BY <1>1, <2>1, Stutters DEF PromiseStep
  <1>3. CASE AfterFailure(m, err) = "refused"
    <2>1. ~temp[m]
      BY <1>3, NoCopyYet DEF AfterFailure, MoveInv, MoveType
    <2> QED BY <1>0, <1>1, <1>3, <2>1, Refuses DEF PromiseStep
  <1> QED BY <1>2, <1>3 DEF AfterFailure

(* A hard link that is refused lets the mover replace the target. *)
LEMMA RefinesLinkRefused ==
  ASSUME MoveInv, MoveInv', NEW m \in Movers, place[m] = "link", Proceed(m, "lstat"),
         IF Exdev(m) THEN denied' = denied ELSE Denied(m, "link"),
         UNCHANGED <<job, fs, entry, source, target, temp, copied, mode>>
  PROVE  PromiseStep(m)
  <1>1. StageAt("lstat") = StageAt(place[m]) /\ StageAt(place[m]) = "asked"
    BY StagesOfPlaces
  <1>2. CASE Exdev(m)
    BY <1>1, <1>2, Stutters DEF PromiseStep
  <1>3. CASE ~Exdev(m)
    <2>1. Promise!Denied(m, "link")
      BY <1>3 DEF Denied, Promise!Denied
    <2>2. fs.noreplace # "works"
      BY DEF MoveInv, LastResort
    <2>3. [u \in Movers |-> StageAt(place'[u])] = [u \in Movers |-> StageAt(place[u])]
      BY <1>1 DEF MoveInv, MoveType, Proceed
    <2>4. [u \in Movers |-> StageAt(place[u])][m] = "asked"
      BY <1>1
    <2>5. /\ [s \in Sources |-> Contents(source[s])'] = [s \in Sources |-> Contents(source[s])]
          /\ Contents(target)' = Contents(target)
      BY EntryFacts, EntriesNext
    <2>6. {u \in Movers : temp'[u]} = {u \in Movers : temp[u]}
      OBVIOUS
    <2> QED BY <2>1, <2>2, <2>3, <2>4, <2>5, <2>6, Rest DEF Promise!Deny, PromiseStep
  <1> QED BY <1>2, <1>3

(* A rename that works is the move of a source, the placing of a copy, or  *)
(* nothing at all.                                                         *)
LEMMA RefinesRenamed ==
  ASSUME MoveInv, MoveInv', NEW m \in Movers, StageAt(place[m]) = "asked",
         place[m] # "retire", Inode(m) # None,
         job[m].replace \/ target = None \/ "link" \in denied[m],
         IF Inode(m) = target THEN UNCHANGED <<source, target, temp>>
         ELSE target' = Inode(m) /\ Unname(m),
         Renamed(m), UNCHANGED <<job, fs, entry, copied, mode, denied>>
  PROVE  PromiseStep(m)
  <1> USE Distinct
  <1>1. CASE entry[m] = "from"
    <2>1. Proceed(m, "moved") /\ Inode(m) = source[job[m].src]
      BY <1>1 DEF Renamed, Inode
    <2>2. CASE Inode(m) = target
      BY <2>1, <2>2, Alreadies DEF PromiseStep
    <2>3. CASE Inode(m) # target
      BY <1>1, <2>1, <2>3, Renames DEF PromiseStep
    <2> QED BY <2>2, <2>3
  <1>2. CASE entry[m] # "from"
    <2>1. Proceed(m, "retire") /\ Inode(m) = m
      BY <1>2 DEF Renamed, Inode
    <2>2. target # m
      <3>1. place[m] \notin {"unlink", "undo", "retire", "moved", "halfway", "dead"}
        BY StagesOfPlaces DEF StageAt, Answered
      <3> QED BY <3>1 DEF MoveInv, PlacedOnce
    <2>3. target' = Inode(m) /\ temp' = [temp EXCEPT ![m] = FALSE] /\ source' = source
      BY <1>2, <2>1, <2>2 DEF Unname
    <2>4. (\A u \in Movers : u # m => temp'[u] = temp[u]) /\ (temp'[m] => temp[m])
      BY <2>3 DEF MoveInv, MoveType
    <2> QED BY <2>1, <2>3, <2>4, Placed DEF PromiseStep
  <1> QED BY <1>1, <1>2

(* rename, where nothing better is to be had or replacing was asked for. *)
LEMMA RefinesRenameCall ==
  ASSUME MoveInv, MoveInv', NEW m \in Movers, RenameCall(m), place[m] \in {"rename", "rename_anyway"},
         job[m].replace \/ place[m] = "rename_anyway"
  PROVE  PromiseStep(m)
  <1>1. StageAt(place[m]) = "asked"
    BY StagesOfPlaces
  <1>2. CASE Failed(m, "EXDEV") \/ Failed(m, "other")
    BY <1>1, <1>2, RefinesFailed
  <1>3. CASE /\ ~Exdev(m) /\ Inode(m) # None
             /\ IF Inode(m) = target THEN UNCHANGED <<source, target, temp>>
                ELSE target' = Inode(m) /\ Unname(m)
             /\ Renamed(m)
             /\ UNCHANGED <<job, fs, entry, copied, mode, denied>>
    <2>1. job[m].replace \/ "link" \in denied[m]
      BY <1>3 DEF MoveInv, LastResort
    <2> QED BY <1>1, <1>3, <2>1, RefinesRenamed
  <1> QED BY <1>2, <1>3 DEF RenameCall

(* Every step of a mover is one of the promise. *)
LEMMA RefinesMoveStep ==
  ASSUME MoveInv, MoveInv', NEW m \in Movers, MoveStep(m)
  PROVE  PromiseStep(m)
  <1> USE StagesOfPlaces
  <1>1. CASE Rename(m)
    BY <1>1, RefinesRenameCall DEF Rename
  <1>2. CASE RenameAt2(m)
    <2>1. CASE Proceed(m, "link") /\ UNCHANGED <<job, fs, entry, source, target, temp, copied, mode, denied>>
      BY <1>2, <2>1, Stutters DEF RenameAt2, PromiseStep
    <2>2. CASE Failed(m, "EXDEV") \/ Failed(m, "other")
      BY <1>2, <2>2, RefinesFailed DEF RenameAt2
    <2>3. CASE /\ Inode(m) # None /\ target = None /\ target' = Inode(m) /\ Unname(m) /\ Renamed(m)
               /\ UNCHANGED <<job, fs, entry, copied, mode, denied>>
      BY <1>2, <2>3, RefinesRenamed DEF RenameAt2
    <2> QED BY <1>2, <2>1, <2>2, <2>3 DEF RenameAt2
  <1>3. CASE Link(m)
    <2>1. CASE Failed(m, "EEXIST")
      BY <1>3, <2>1, RefinesFailed DEF Link
    <2>2. CASE /\ Proceed(m, "lstat")
               /\ IF Exdev(m) THEN denied' = denied ELSE Denied(m, "link")
               /\ UNCHANGED <<job, fs, entry, source, target, temp, copied, mode>>
      BY <1>3, <2>2, RefinesLinkRefused DEF Link
    <2>3. CASE /\ Inode(m) # None /\ target = None /\ target' = Inode(m) /\ Proceed(m, "unlink")
               /\ UNCHANGED <<job, fs, entry, source, temp, copied, mode, denied>>
      BY <1>3, <2>3, Placed DEF Link, PromiseStep
    <2> QED BY <1>3, <2>1, <2>2, <2>3 DEF Link
  <1>4. CASE Unlink(m)
    <2>1. CASE entry[m] = "from" /\ Inode(m) # None /\ Unname(m) /\ Renamed(m) /\ UNCHANGED <<job, fs, entry, target, denied>>
      <3>1. Proceed(m, "moved") /\ source' = [source EXCEPT ![job[m].src] = None] /\ temp' = temp
        BY <2>1 DEF Unname, Renamed
      <3> QED BY <1>4, <2>1, <3>1, Retires DEF Unlink, PromiseStep
    <2>2. CASE entry[m] # "from" /\ Unname(m) /\ Renamed(m) /\ UNCHANGED <<job, fs, entry, target, denied>>
      <3>1. Proceed(m, "retire") /\ source' = source /\ temp' = [temp EXCEPT ![m] = FALSE]
        BY <2>2 DEF Unname, Renamed
      <3>2. \A u \in Movers : u # m => temp'[u] = temp[u]
        BY <3>1 DEF MoveInv, MoveType
      <3> QED BY <1>4, <2>2, <3>1, <3>2, Prepares DEF Unlink, PromiseStep
    <2>3. CASE /\ Proceed(m, IF entry[m] = "from" THEN "halfway" ELSE "undo")
               /\ UNCHANGED <<job, fs, entry, source, target, temp, copied, mode, denied>>
      <3>1. place[m] = "unlink"
        BY <1>4 DEF Unlink
      <3>2. CASE entry[m] = "from"
        BY <2>3, <3>1, <3>2, NoCopyYet, Refuses DEF PromiseStep
      <3>3. CASE entry[m] # "from"
        BY <2>3, <3>1, <3>3, Stutters DEF PromiseStep
      <3> QED BY <3>2, <3>3
    <2> QED BY <1>4, <2>1, <2>2, <2>3 DEF Unlink
  <1>5. CASE Lstat(m)
    <2>1. CASE Failed(m, "EEXIST")
      BY <1>5, <2>1, RefinesFailed DEF Lstat
    <2>2. CASE Proceed(m, "rename_anyway") /\ UNCHANGED <<job, fs, entry, source, target, temp, copied, mode, denied>>
      BY <1>5, <2>2, Stutters DEF Lstat, PromiseStep
    <2> QED BY <1>5, <2>1, <2>2 DEF Lstat
  <1>6. CASE RenameAnyway(m)
    BY <1>6, RefinesRenameCall DEF RenameAnyway
  <1>7. CASE LookFirst(m)
    <2>1. CASE Proceed(m, "refused")
      BY <1>7, <2>1, NoCopyYet, Refuses DEF LookFirst, PromiseStep
    <2>2. CASE Proceed(m, "open")
      BY <1>7, <2>2, Stutters DEF LookFirst, PromiseStep
    <2> QED BY <1>7, <2>1, <2>2 DEF LookFirst
  <1>8. CASE Open(m)
    <2>1. CASE temp' = [temp EXCEPT ![m] = TRUE] /\ Proceed(m, "copy")
      <3>1. \A u \in Movers : u # m => temp'[u] = temp[u]
        BY <2>1 DEF MoveInv, MoveType
      <3> QED BY <1>8, <2>1, <3>1, Prepares DEF Open, PromiseStep
    <2>2. CASE Proceed(m, "refused") /\ temp' = temp
      BY <1>8, <2>2, NoCopyYet, Refuses DEF Open, PromiseStep
    <2> QED BY <1>8, <2>1, <2>2 DEF Open
  <1>9. CASE CopyPieces(m)
    <2>1. CASE place' = place
      <3>1. Proceed(m, "copy")
        BY <1>9, <2>1 DEF CopyPieces, Proceed, MoveInv, MoveType
      <3> QED BY <1>9, <3>1, Stutters DEF CopyPieces, PromiseStep
    <2>2. CASE Proceed(m, "finish")
      BY <1>9, <2>2, Stutters DEF CopyPieces, PromiseStep
    <2>3. CASE Proceed(m, "drop")
      BY <1>9, <2>3, Stutters DEF CopyPieces, PromiseStep
    <2> QED BY <1>9, <2>1, <2>2, <2>3 DEF CopyPieces, WriteFailed
  <1>10. CASE FinishCopy(m)
    <2>1. CASE Proceed(m, "rename")
      BY <1>10, <2>1, Stutters DEF FinishCopy, PromiseStep
    <2>2. CASE Proceed(m, "drop")
      BY <1>10, <2>2, Stutters DEF FinishCopy, PromiseStep
    <2> QED BY <1>10, <2>1, <2>2 DEF FinishCopy
  <1>11. CASE DropCopy(m)
    <2>1. PICK where \in {"refused", "halfway"} :
            Proceed(m, where) /\ StageAt(place[m]) = IF where = "refused" THEN "asked" ELSE "placed"
      BY <1>11 DEF DropCopy
    <2>2. \/ ~temp'[m] /\ denied' = denied /\ \A u \in Movers : u # m => temp'[u] = temp[u]
          \/ temp' = temp /\ Denied(m, "unlink")
      BY <1>11 DEF DropCopy, MoveInv, MoveType
    <2> QED BY <1>11, <2>1, <2>2, Refuses DEF DropCopy, PromiseStep
  <1>12. CASE UnlinkSource(m)
    <2>1. CASE source' = [source EXCEPT ![job[m].src] = None] /\ Proceed(m, "moved")
      BY <1>12, <2>1, Retires DEF UnlinkSource, PromiseStep
    <2>2. CASE Proceed(m, "halfway") /\ source' = source
      BY <1>12, <2>2, NoCopyYet, Refuses DEF UnlinkSource, PromiseStep
    <2> QED BY <1>12, <2>1, <2>2 DEF UnlinkSource
  <1> QED BY <1>1, <1>2, <1>3, <1>4, <1>5, <1>6, <1>7, <1>8, <1>9, <1>10, <1>11, <1>12 DEF MoveStep

(* Somebody else's file comes or goes under the target's name. *)
LEMMA RefinesElsewhere ==
  ASSUME MoveInv, MoveInv', Elsewhere
  PROVE  Promise!Elsewhere
  <1> USE Distinct
  <1>1. [u \in Movers |-> StageAt(place'[u])] = [u \in Movers |-> StageAt(place[u])]
    BY DEF Elsewhere
  <1>2. [s \in Sources |-> Contents(source[s])'] = [s \in Sources |-> Contents(source[s])]
    BY EntryFacts, EntriesNext DEF Elsewhere
  <1>3. \/ Contents(target) = None /\ Contents(target)' \in Others
        \/ Contents(target)' = None
    BY EntryFacts, EntriesNext DEF Elsewhere
  <1>4. UNCHANGED <<job, fs, temp, denied>>
    BY DEF Elsewhere
  <1> QED BY <1>1, <1>2, <1>3, <1>4 DEF Promise!Elsewhere

(* Every step is one of the promise. *)
LEMMA RefinesNext ==
  MoveInv /\ MoveInv' /\ [MoveNext]_moveVars => [Promise!Next]_(Promise!vars)
  <1> SUFFICES ASSUME MoveInv, MoveInv', [MoveNext]_moveVars PROVE [Promise!Next]_(Promise!vars)
    OBVIOUS
  <1>1. CASE \E m \in Movers : MoveStep(m) \/ Die(m)
    <2>1. PICK m \in Movers : MoveStep(m) \/ Die(m)
      BY <1>1
    <2>2. PromiseStep(m)
      BY <2>1, RefinesMoveStep, Dies DEF PromiseStep
    <2> QED BY <2>2 DEF PromiseStep, Promise!Next
  <1>2. CASE Elsewhere
    BY <1>2, RefinesElsewhere DEF Promise!Next
  <1>3. CASE UNCHANGED moveVars
    <2>1. UNCHANGED <<job, fs, place, source, target, temp, copied, mode, denied>>
      BY <1>3 DEF moveVars
    <2> QED BY <2>1, EntryFacts, EntriesNext DEF Promise!vars
  <1> QED BY <1>1, <1>2, <1>3 DEF MoveNext

(* However the moves interleave, whatever system call fails and wherever a *)
(* mover dies, for any movers, sources and file systems, MoveFileEx does   *)
(* what AtomicMove promises.                                               *)
THEOREM Implements == ServicesSpec => ImplementsAtomicMove
  <1>1. MoveSpec => ImplementsAtomicMove
    BY RefinesInit, InvInit, InvNext, RefinesNext, PTL DEF MoveSpec, ImplementsAtomicMove, Promise!Spec
  <1>2. ServicesInit => MoveInit
    BY DEF ServicesInit
  <1>3. [ServicesNext]_servicesVars => [MoveNext]_moveVars
    BY DEF ServicesNext, servicesVars
  <1> QED BY <1>1, <1>2, <1>3, PTL DEF ServicesSpec, MoveSpec

-----------------------------------------------------------------------------
(* Text: what a conversion writes fits, the program gets valid UTF-16, and *)
(* strings and paths come back.                                            *)
(*                                                                         *)
(* A round trip is shown by setting the two scans side by side: the second *)
(* one is, after each of its steps, where the first one was after one of   *)
(* its own, and has read what the first had written by then.  A character  *)
(* that is written is read as the same character because no byte and no    *)
(* unit that begins one continues another.                                 *)

(* What holds of 0, and of every number after one it holds of, holds of    *)
(* all: induction is by this lemma, over the set of the numbers of which   *)
(* something holds.                                                        *)
LEMMA CountUp ==
  ASSUME NEW S, 0 \in S, \A n \in Nat : n \in S => n + 1 \in S
  PROVE  \A n \in Nat : n \in S
  <1> DEFINE T == Nat \ S
  <1> SUFFICES ASSUME T # {} PROVE FALSE
    OBVIOUS
  <1>1. PICK x \in T : \A y \in T : x <= y
    <2>1. T \in SUBSET Nat
      OBVIOUS
    <2> HIDE DEF T
    <2> QED BY <2>1, LeastNumber
  <1>2. x \in Nat /\ x \notin S /\ x # 0
    OBVIOUS
  <1>3. x - 1 \in Nat /\ ~(x <= x - 1) /\ (x - 1) + 1 = x
    BY <1>2
  <1> QED BY <1>1, <1>2, <1>3
Bytes8  == 1 .. 255
Units16 == 1 .. MaxUnit

\* What a unit or a pair may stand for, and what can be encoded.
CodePoints == {cp \in Nat : 1 <= cp /\ cp <= 1114111}
Surrogate(cp) == High(cp) \/ Low(cp)
Scalar(cp) == cp \in CodePoints /\ ~Surrogate(cp)

\* w stands in s at p.
Sits(s, p, w) == \A k \in 1 .. Len(w) : p + k - 1 <= Len(s) /\ s[p + k - 1] = w[k]

\* What two, three and four bytes say.
Of2(x, y) == (x % 32) * 64 + (y % 64)
Of3(x, y, z) == (x % 16) * 4096 + (y % 64) * 64 + (z % 64)
Of4(x, y, z, w) == (x % 8) * 262144 + (y % 64) * 4096 + (z % 64) * 64 + (w % 64)

Lead2 == 194 .. 223
Lead3 == 224 .. 239
Lead4 == 240 .. 244
Cont  == 128 .. 191

\* By the number of their bytes.
Points1 == 1 .. 127
Points2 == 128 .. 2047
Points3 == {cp \in Nat : 2048 <= cp /\ cp <= 65535}
Points4 == {cp \in Nat : 65536 <= cp /\ cp <= 1114111}

(* The halves of pairs, first and last. *)
LEMMA HalvesAre ==
  ASSUME NEW u
  PROVE  (High(u) => u \in Int /\ u >= 55296 /\ u <= 56319) /\ (Low(u) => u \in Int /\ u >= 56320 /\ u <= 57343)
  <1>1. High(u) => u \in Int /\ u >= 55296 /\ u <= 56319
    BY DEF High
  <1>2. Low(u) => u \in Int /\ u >= 56320 /\ u <= 57343
    BY DEF Low
  <1> QED BY <1>1, <1>2

(* Other numbers. *)
LEMMA NoHalf ==
  ASSUME NEW u \in Nat, u < 55296 \/ u > 57343
  PROVE  ~High(u) /\ ~Low(u)
  BY HalvesAre

(* The end of a string is neither. *)
LEMMA NoEnd == ~High(0) /\ ~Low(0)
  BY NoHalf

(* No unit is both halves of a pair. *)
LEMMA LowNotHigh ==
  ASSUME NEW u, Low(u)
  PROVE  ~High(u)
  <1>1. u \in Int /\ u >= 56320
    BY DEF Low
  <1>2. High(u) => u <= 56319
    BY DEF High
  <1> QED BY <1>1, <1>2

(* Utf8 gives one to four bytes, of which all but the first continue. *)
LEMMA Utf8One ==
  ASSUME NEW cp \in Points1
  PROVE  Utf8(cp) = <<cp>>
  BY SMT DEF Utf8, Points1

(* Two bytes. *)
LEMMA Utf8Two ==
  ASSUME NEW cp \in Points2
  PROVE  \E x \in Lead2, y \in Cont :
           Utf8(cp) = <<x, y>> /\ Of2(x, y) = cp
  <1> DEFINE x == 192 + cp \div 64
             y == 128 + (cp % 64)
  <1>1. Utf8(cp) = <<x, y>>
    <2>1. cp \div 1 = cp
      BY SMT DEF Points1, Points2, Points3, Points4, Lead2, Lead3, Lead4, Cont
    <2> QED BY SMT, <2>1 DEF Utf8, Points1, Points2, Points3, Points4
  <1>2. x \in Lead2 /\ y \in Cont /\ Of2(x, y) = cp
    BY SMT DEF Points1, Points2, Points3, Points4, Following, Wrong, Bits, Lead2, Lead3, Lead4, Cont, Of2
  <1> QED BY SMT, <1>1, <1>2

(* Three bytes. *)
LEMMA Utf8Three ==
  ASSUME NEW cp \in Points3
  PROVE  \E x \in Lead3, y \in Cont, z \in Cont :
           Utf8(cp) = <<x, y, z>> /\ Of3(x, y, z) = cp
  <1> DEFINE x == 224 + cp \div 4096
             y == 128 + ((cp \div 64) % 64)
             z == 128 + (cp % 64)
  <1>1. Utf8(cp) = <<x, y, z>>
    <2>1. cp \div 1 = cp
      BY SMT DEF Points1, Points2, Points3, Points4, Lead2, Lead3, Lead4, Cont
    <2> QED BY SMT, <2>1 DEF Utf8, Points1, Points2, Points3, Points4
  <1>2. x \in Lead3 /\ y \in Cont /\ z \in Cont
    BY SMT DEF Points1, Points2, Points3, Points4, Lead2, Lead3, Lead4, Cont
  <1>3. x % 16 = cp \div 4096 /\ y % 64 = (cp \div 64) % 64 /\ z % 64 = cp % 64
    BY SMT DEF Points1, Points2, Points3, Points4, Lead2, Lead3, Lead4, Cont
  <1>4. (cp \div 4096) * 4096 + ((cp \div 64) % 64) * 64 + (cp % 64) = cp
    BY SMT DEF Points1, Points2, Points3, Points4, Lead2, Lead3, Lead4, Cont
  <1>5. Of3(x, y, z) = cp
    BY SMT, <1>3, <1>4 DEF Of3
  <1> HIDE DEF x, y, z
  <1> QED BY Zenon, <1>1, <1>2, <1>5

(* Four bytes. *)
LEMMA Utf8Four ==
  ASSUME NEW cp \in Points4
  PROVE  \E x \in Lead4, y \in Cont, z \in Cont, w \in Cont :
           /\ Utf8(cp) = <<x, y, z, w>>
           /\ Of4(x, y, z, w) = cp
  <1> DEFINE x == 240 + cp \div 262144
             y == 128 + ((cp \div 4096) % 64)
             z == 128 + ((cp \div 64) % 64)
             w == 128 + (cp % 64)
  <1>1. Utf8(cp) = <<x, y, z, w>>
    <2>1. cp \div 1 = cp
      BY SMT DEF Points1, Points2, Points3, Points4, Lead2, Lead3, Lead4, Cont
    <2> QED BY SMT, <2>1 DEF Utf8, Points1, Points2, Points3, Points4
  <1>2. x \in Lead4 /\ y \in Cont /\ z \in Cont /\ w \in Cont
    BY SMT DEF Points1, Points2, Points3, Points4, Lead2, Lead3, Lead4, Cont
  <1>3. x % 8 = cp \div 262144 /\ y % 64 = (cp \div 4096) % 64 /\ z % 64 = (cp \div 64) % 64 /\ w % 64 = cp % 64
    BY SMT DEF Points1, Points2, Points3, Points4, Lead2, Lead3, Lead4, Cont
  <1>4. (cp \div 262144) * 262144 + ((cp \div 4096) % 64) * 4096 + ((cp \div 64) % 64) * 64 + (cp % 64) = cp
    BY SMT DEF Points1, Points2, Points3, Points4, Lead2, Lead3, Lead4, Cont
  <1>5. Of4(x, y, z, w) = cp
    BY SMT, <1>3, <1>4 DEF Of4
  <1> HIDE DEF x, y, z, w
  <1> QED BY Zenon, <1>1, <1>2, <1>5

(* What two bytes may stand for. *)
LEMMA TwoBytes ==
  ASSUME NEW x \in Int, x >= 194, x <= 223, NEW y \in Int
  PROVE  Of2(x, y) \in Nat /\ Of2(x, y) >= 128 /\ Of2(x, y) < 2048
  BY SMT DEF Of2

(* What three bytes may. *)
LEMMA ThreeBytes ==
  ASSUME NEW x \in Int, NEW y \in Int, NEW z \in Int
  PROVE  Of3(x, y, z) \in Nat /\ Of3(x, y, z) < 65536
  BY SMT DEF Of3

(* And four. *)
LEMMA FourBytes ==
  ASSUME NEW x \in Int, NEW y \in Int, NEW z \in Int, NEW w \in Int
  PROVE  Of4(x, y, z, w) \in Nat
  BY SMT DEF Of4

(* utf8_next, by the number of bytes: one stands for itself. *)
LEMMA NextOne ==
  ASSUME NEW s, NEW p \in Nat, s[p] \in 1 .. 127
  PROVE  Utf8Next(s, p) = [cp |-> s[p], len |-> 1]
  BY SMT DEF Utf8Next

(* A lead byte and one that continues. *)
LEMMA NextTwo ==
  ASSUME NEW s, NEW p \in Nat, s[p] \in Lead2, At(s, p + 1) \in Cont
  PROVE  Utf8Next(s, p) = [cp |-> Of2(s[p], At(s, p + 1)), len |-> 2]
  <1> DEFINE v == Of2(s[p], At(s, p + 1))
  <1>1. s[p] \in Int /\ s[p] >= 194 /\ s[p] <= 223 /\ At(s, p + 1) \in Int
    BY SMT DEF Lead2, Cont
  <1>2. v \in Nat /\ v >= 128 /\ v < 2048
    BY SMT, <1>1, TwoBytes
  <1>3. ~High(v) /\ ~Low(v)
    <2> HIDE DEF v
    <2> QED BY <1>2, NoHalf
  <1>4. {k \in 1 .. 1 : At(s, p + k) \notin Cont} = {}
    BY SMT
  <1> QED BY SMT, <1>1, <1>2, <1>3, <1>4 DEF Utf8Next, Following, Wrong, Bits, Lead2, Lead3, Lead4, Cont, Of2

(* And two, which may make a surrogate. *)
LEMMA NextThree ==
  ASSUME NEW s, NEW p \in Nat, s[p] \in Lead3, At(s, p + 1) \in Cont, At(s, p + 2) \in Cont,
         Of3(s[p], At(s, p + 1), At(s, p + 2)) \in Points3
  PROVE  Utf8Next(s, p) =
           [cp |-> IF Surrogate(Of3(s[p], At(s, p + 1), At(s, p + 2))) THEN Replacement
                   ELSE Of3(s[p], At(s, p + 1), At(s, p + 2)),
            len |-> 3]
  <1> DEFINE v == Of3(s[p], At(s, p + 1), At(s, p + 2))
  <1>1. s[p] \in Nat /\ s[p] >= 224 /\ s[p] <= 239
    BY SMT DEF Lead3
  <1>2. v \in Nat /\ v >= 2048 /\ v < 65536
    BY SMT DEF Points3
  <1>3. {k \in 1 .. 2 : At(s, p + k) \notin 128 .. 191} = {}
    BY SMT DEF Cont
  <1>4. Utf8Next(s, p) = IF High(v) \/ Low(v) THEN [cp |-> Replacement, len |-> 2 + 1] ELSE [cp |-> v, len |-> 2 + 1]
    BY SMT, <1>1, <1>2, <1>3 DEF Utf8Next, Following, Wrong, Bits, Of3
  <1> QED BY SMT, <1>4 DEF Surrogate

(* And three. *)
LEMMA NextFour ==
  ASSUME NEW s, NEW p \in Nat, s[p] \in Lead4,
         At(s, p + 1) \in Cont, At(s, p + 2) \in Cont, At(s, p + 3) \in Cont,
         Of4(s[p], At(s, p + 1), At(s, p + 2), At(s, p + 3)) \in Points4
  PROVE  Utf8Next(s, p) = [cp |-> Of4(s[p], At(s, p + 1), At(s, p + 2), At(s, p + 3)), len |-> 4]
  <1> DEFINE v == Of4(s[p], At(s, p + 1), At(s, p + 2), At(s, p + 3))
  <1>1. s[p] \in Nat /\ s[p] >= 240 /\ s[p] <= 244
    BY SMT DEF Lead4
  <1>2. v \in Nat /\ v >= 65536 /\ v <= 1114111
    BY SMT DEF Points4
  <1>3. ~High(v) /\ ~Low(v)
    <2> HIDE DEF v
    <2> QED BY <1>2, NoHalf
  <1>4. {k \in 1 .. 3 : At(s, p + k) \notin 128 .. 191} = {}
    BY SMT DEF Cont
  <1>5. Utf8Next(s, p) = [cp |-> v, len |-> 3 + 1]
    BY SMT, <1>1, <1>2, <1>3, <1>4 DEF Utf8Next, Following, Wrong, Bits, Of4
  <1> QED BY SMT, <1>5

(* What stands for a surrogate. *)
LEMMA ReplacementIs == Replacement \in Units16 /\ Scalar(Replacement) /\ Utf16(Replacement) = <<Replacement>>
  <1>1. Replacement \in Nat /\ Replacement = 65533
    BY SMT DEF Replacement
  <1>2. MaxUnit \in Nat /\ MaxUnit = 65535
    BY SMT DEF MaxUnit
  <1>3. Replacement \in Units16 /\ Replacement \in CodePoints
    BY <1>1, <1>2 DEF Units16, CodePoints
  <1>4. ~Surrogate(Replacement)
    BY <1>1, NoHalf DEF Surrogate
  <1>5. Utf16(Replacement) = <<Replacement>>
    BY <1>1 DEF Utf16
  <1> QED BY <1>3, <1>4, <1>5 DEF Scalar

(* The points by their number of bytes are all there are. *)
LEMMA PointsAre ==
  ASSUME NEW cp \in Nat
  PROVE  cp \in CodePoints <=> cp \in Points1 \/ cp \in Points2 \/ cp \in Points3 \/ cp \in Points4
  BY SMT DEF CodePoints, Points1, Points2, Points3, Points4

(* Only points of three bytes are surrogates. *)
LEMMA SurrogateAre ==
  ASSUME NEW cp \in Nat
  PROVE  Surrogate(cp) => cp \in Points3 /\ cp \notin Points1 /\ cp \notin Points2 /\ cp \notin Points4
  <1>1. Surrogate(cp) => cp >= 55296 /\ cp <= 57343
    BY HalvesAre DEF Surrogate
  <1> HIDE DEF Surrogate
  <1> QED BY SMT, <1>1 DEF Points1, Points2, Points3, Points4

(* A code point is of one of four lengths. *)
LEMMA PointIs ==
  ASSUME NEW cp \in CodePoints
  PROVE  cp \in Nat /\ (cp \in Points1 \/ cp \in Points2 \/ cp \in Points3 \/ cp \in Points4)
  <1>1. cp \in Nat
    BY DEF CodePoints
  <1> QED BY <1>1, PointsAre

(* One to four bytes, of which all but the first continue. *)
LEMMA Utf8Bytes ==
  ASSUME NEW cp \in CodePoints
  PROVE  /\ Utf8(cp) \in Seq(Bytes8) /\ Utf8(cp) \in Seq(Int) /\ Len(Utf8(cp)) \in 1 .. 4
         /\ Utf8(cp)[1] \notin Cont /\ \A k \in 2 .. Len(Utf8(cp)) : Utf8(cp)[k] \in Cont
  <1>1. CASE cp \in Points1
    <2>1. cp \in Bytes8 /\ cp \notin Cont
      BY SMT, <1>1 DEF Points1, Bytes8, Cont
    <2>2. Len(<<cp>>) = 1 /\ <<cp>>[1] = cp /\ <<cp>> \in Seq(Bytes8) /\ <<cp>> \in Seq(Int)
      BY <2>1 DEF CodePoints
    <2>3. Utf8(cp) = <<cp>>
      BY <1>1, Utf8One
    <2> QED BY <2>1, <2>2, <2>3
  <1>2. CASE cp \in Points2
    <2>1. PICK x \in Lead2, y \in Cont : Utf8(cp) = <<x, y>>
      BY <1>2, Utf8Two
    <2>2. x \in Int /\ y \in Int /\ x \in Bytes8 /\ y \in Bytes8 /\ x \notin Cont
      BY SMT DEF Lead2, Cont, Bytes8
    <2>3. Len(<<x, y>>) = 2 /\ <<x, y>>[1] = x /\ <<x, y>>[2] = y /\ <<x, y>> \in Seq(Bytes8) /\ <<x, y>> \in Seq(Int)
      BY <2>2
    <2> QED BY <2>1, <2>2, <2>3
  <1>3. CASE cp \in Points3
    <2>1. PICK x \in Lead3, y \in Cont, z \in Cont : Utf8(cp) = <<x, y, z>>
      BY <1>3, Utf8Three
    <2>2. x \in Int /\ y \in Int /\ x \in Bytes8 /\ y \in Bytes8 /\ z \in Bytes8 /\ z \in Int /\ x \notin Cont
      BY SMT DEF Lead3, Cont, Bytes8
    <2>3. Len(<<x, y, z>>) = 3 /\ <<x, y, z>>[1] = x /\ <<x, y, z>>[2] = y /\ <<x, y, z>>[3] = z /\ <<x, y, z>> \in Seq(Bytes8) /\ <<x, y, z>> \in Seq(Int)
      BY <2>2
    <2> QED BY <2>1, <2>2, <2>3
  <1>4. CASE cp \in Points4
    <2>1. PICK x \in Lead4, y \in Cont, z \in Cont, w \in Cont : Utf8(cp) = <<x, y, z, w>>
      BY <1>4, Utf8Four
    <2>2. x \in Int /\ y \in Int /\ x \in Bytes8 /\ y \in Bytes8 /\ z \in Bytes8 /\ w \in Bytes8 /\ z \in Int /\ w \in Int /\ x \notin Cont
      BY SMT DEF Lead4, Cont, Bytes8
    <2>3. /\ Len(<<x, y, z, w>>) = 4 /\ <<x, y, z, w>>[1] = x /\ <<x, y, z, w>>[2] = y /\ <<x, y, z, w>>[3] = z /\ <<x, y, z, w>>[4] = w
          /\ <<x, y, z, w>> \in Seq(Bytes8) /\ <<x, y, z, w>> \in Seq(Int)
      BY <2>2
    <2> QED BY <2>1, <2>2, <2>3
  <1> QED BY <1>1, <1>2, <1>3, <1>4, PointIs

(* What stands in a string is what At finds. *)
LEMMA SitsAt ==
  ASSUME NEW s \in Seq(Int), NEW p \in Nat, p >= 1, NEW w \in Seq(Int), Sits(s, p, w), NEW k \in 1 .. Len(w)
  PROVE  At(s, p + (k - 1)) = w[k] /\ s[p + (k - 1)] = w[k] /\ p + (k - 1) \in 1 .. Len(s)
  BY SMT DEF Sits, At

(* What wchar_to_utf8 encoded, utf8_next decodes; a surrogate is replaced. *)
LEMMA NextReads ==
  ASSUME NEW s \in Seq(Int), NEW p \in Nat, p >= 1, NEW cp \in CodePoints, Sits(s, p, Utf8(cp))
  PROVE  Utf8Next(s, p) = [cp |-> IF Surrogate(cp) THEN Replacement ELSE cp, len |-> Len(Utf8(cp))]
  <1>a. Utf8(cp) \in Seq(Int) /\ Len(Utf8(cp)) \in 1 .. 4
    BY Utf8Bytes
  <1>b. p + (1 - 1) = p /\ p + (2 - 1) = p + 1 /\ p + (3 - 1) = p + 2 /\ p + (4 - 1) = p + 3
    BY SMT
  <1>c. \A k \in 1 .. Len(Utf8(cp)) : At(s, p + (k - 1)) = Utf8(cp)[k] /\ s[p + (k - 1)] = Utf8(cp)[k]
    BY <1>a, SitsAt
  <1>1. CASE cp \in Points1
    <2>1. Utf8(cp) = <<cp>> /\ ~Surrogate(cp)
      BY <1>1, Utf8One, SurrogateAre, PointIs
    <2>2. s[p] = cp
      BY SMT, <2>1, <1>b, <1>c
    <2> QED BY <2>1, <2>2, <1>1, NextOne DEF Points1
  <1>2. CASE cp \in Points2
    <2>1. PICK x \in Lead2, y \in Cont : Utf8(cp) = <<x, y>> /\ Of2(x, y) = cp
      BY <1>2, Utf8Two
    <2>2. s[p] = x /\ At(s, p + 1) = y
      BY SMT, <2>1, <1>b, <1>c
    <2>3. ~Surrogate(cp)
      BY <1>2, SurrogateAre, PointIs
    <2>4. Utf8Next(s, p) = [cp |-> Of2(x, y), len |-> 2]
      BY <2>2, NextTwo, Zenon
    <2> QED BY <2>1, <2>3, <2>4
  <1>3. CASE cp \in Points3
    <2>1. PICK x \in Lead3, y \in Cont, z \in Cont : Utf8(cp) = <<x, y, z>> /\ Of3(x, y, z) = cp
      BY <1>3, Utf8Three
    <2>2. s[p] = x /\ At(s, p + 1) = y /\ At(s, p + 2) = z
      BY SMT, <2>1, <1>b, <1>c
    <2>3. Utf8Next(s, p) = [cp |-> IF Surrogate(Of3(x, y, z)) THEN Replacement ELSE Of3(x, y, z), len |-> 3]
      BY <2>1, <2>2, <1>3, NextThree, Zenon
    <2> QED BY <2>1, <2>3
  <1>4. CASE cp \in Points4
    <2>1. PICK x \in Lead4, y \in Cont, z \in Cont, w \in Cont : Utf8(cp) = <<x, y, z, w>> /\ Of4(x, y, z, w) = cp
      BY <1>4, Utf8Four
    <2>2. s[p] = x /\ At(s, p + 1) = y /\ At(s, p + 2) = z /\ At(s, p + 3) = w
      BY SMT, <2>1, <1>b, <1>c
    <2>3. ~Surrogate(cp)
      BY <1>4, SurrogateAre, PointIs
    <2>4. Utf8Next(s, p) = [cp |-> Of4(x, y, z, w), len |-> 4]
      BY <2>1, <2>2, <1>4, NextFour, Zenon
    <2> QED BY <2>1, <2>3, <2>4
  <1> QED BY <1>1, <1>2, <1>3, <1>4, PointIs
(* The least of a set of places. *)
LEMMA LeastPlace ==
  ASSUME NEW S \in SUBSET (1 .. 3), S # {}
  PROVE  FirstOf(S) \in S
  <1>1. \E k \in S : \A j \in S : k <= j
    <2>1. CASE 1 \in S
      BY <2>1
    <2>2. CASE 1 \notin S /\ 2 \in S
      BY <2>2
    <2>3. CASE 1 \notin S /\ 2 \notin S
      <3>1. \A j \in S : j = 3
        BY <2>3
      <3>2. 3 \in S
        BY <3>1
      <3> QED BY <3>1, <3>2
    <2> QED BY <2>1, <2>2, <2>3
  <1> QED BY <1>1 DEF FirstOf

(* Whatever bytes there are, utf8_next makes a code point of them that is  *)
(* no surrogate.                                                           *)
LEMMA NextScalar ==
  ASSUME NEW s \in Seq(Bytes8), NEW p \in 1 .. Len(s)
  PROVE  Scalar(Utf8Next(s, p).cp) /\ Utf8Next(s, p).len \in 1 .. 4
  <1>1. \A b \in Bytes8 : b \in Nat /\ b >= 1 /\ b <= 255
    BY SMT DEF Bytes8
  <1>2. \A i \in Int : At(s, i) \in Int
    BY <1>1 DEF At
  <1>3. PICK c \in Nat : c = s[p] /\ c >= 1 /\ c <= 255
    BY <1>1
  <1>4. PICK x \in Int, y \in Int, z \in Int : x = At(s, p + 1) /\ y = At(s, p + 2) /\ z = At(s, p + 3)
    <2>1. p + 1 \in Int /\ p + 2 \in Int /\ p + 3 \in Int
      OBVIOUS
    <2>2. At(s, p + 1) \in Int /\ At(s, p + 2) \in Int /\ At(s, p + 3) \in Int
      BY <1>2, <2>1
    <2> QED BY <2>2, Zenon
  <1>5. Scalar(Replacement)
    BY ReplacementIs
  <1>6. \A v \in Nat : v >= 1 /\ v <= 1114111 /\ ~High(v) /\ ~Low(v) => Scalar(v)
    BY SMT DEF Scalar, CodePoints, Surrogate
  <1>7. CASE c < 128
    <2>1. Utf8Next(s, p) = [cp |-> c, len |-> 1]
      BY SMT, <1>3, <1>7 DEF Utf8Next
    <2>2. ~High(c) /\ ~Low(c)
      BY <1>7, NoHalf
    <2>3. Scalar(c)
      BY SMT, <1>3, <1>6, <1>7, <2>2
    <2> QED BY <2>1, <2>3
  <1>8. CASE c >= 128
    <2> DEFINE more == Following(s[p])
               bad  == Wrong(s, p, more)
               v    == Bits(s, p, more)
    <2>1. more \in 0 .. 3
      BY SMT DEF Following
    <2> HIDE DEF more
    <2>2. bad \in SUBSET (1 .. 3)
      <3>1. \A k \in Wrong(s, p, more) : k \in 1 .. more
        BY Zenon DEF Wrong
      <3>2. \A k \in 1 .. more : k \in 1 .. 3
        BY SMT, <2>1
      <3> QED BY Zenon, <3>1, <3>2
    <2> HIDE DEF bad
    <2>3. bad # {} => FirstOf(bad) \in 1 .. 3
      BY <2>2, LeastPlace
    <2>4. Of2(c, x) \in Nat /\ Of3(c, x, y) \in Nat /\ Of4(c, x, y, z) \in Nat
      BY SMT DEF Of2, Of3, Of4
    <2>5. more = 1 => Of2(c, x) >= 128
      <3>1. more = 1 => s[p] \in 194 .. 223
        BY SMT DEF more, Following
      <3>2. c \in 194 .. 223 => c >= 194 /\ c <= 223
        BY SMT
      <3>3. c \in 194 .. 223 => Of2(c, x) >= 128
        BY SMT, <3>2, TwoBytes
      <3> QED BY <3>1, <3>3, <1>3, Zenon
    <2>6. Utf8Next(s, p) =
            IF more = 0 THEN [cp |-> Replacement, len |-> 1]
            ELSE IF bad # {} THEN [cp |-> Replacement, len |-> FirstOf(bad)]
            ELSE IF \/ more = 2 /\ v < 2048
                    \/ more = 3 /\ v < 65536
                    \/ v > 1114111 \/ High(v) \/ Low(v)
                 THEN [cp |-> Replacement, len |-> more + 1]
                 ELSE [cp |-> v, len |-> more + 1]
      BY SMT, <1>3, <1>8 DEF Utf8Next, more, bad
    <2>7. v \in Nat /\ (more = 1 => v >= 128)
      <3>1. Bits(s, p, 1) = Of2(c, x) /\ Bits(s, p, 2) = Of3(c, x, y) /\ Bits(s, p, 3) = Of4(c, x, y, z) /\ Bits(s, p, 0) = c
        BY SMT, <1>3, <1>4 DEF Bits, Of2, Of3, Of4
      <3>2. more = 0 \/ more = 1 \/ more = 2 \/ more = 3
        BY <2>1
      <3> QED BY SMT, <3>1, <3>2, <2>4, <2>5
    <2> HIDE DEF v
    <2>8. more # 0 /\ ~(\/ more = 2 /\ v < 2048
                        \/ more = 3 /\ v < 65536
                        \/ v > 1114111 \/ High(v) \/ Low(v)) => Scalar(v)
      BY SMT, <2>1, <2>7, <1>6
    <2> QED BY SMT, <2>1, <2>3, <2>6, <2>8, <1>5
  <1> QED BY SMT, <1>3, <1>7, <1>8

-----------------------------------------------------------------------------
(* Units of sixteen bits. *)

(* A pair stands for a code point of four bytes, which gives it back. *)
LEMMA PairIs ==
  ASSUME NEW u \in Units16, NEW v \in Units16, High(u), Low(v)
  PROVE  Pair(u, v) \in Points4 /\ Utf16(Pair(u, v)) = <<u, v>>
  <1>1. u \in Nat /\ v \in Nat /\ u >= 55296 /\ u <= 56319 /\ v >= 56320 /\ v <= 57343
    BY HalvesAre
  <1> DEFINE c == Pair(u, v)
  <1>2. c \in Nat /\ c >= 65536 /\ c <= 1114111
    BY SMT, <1>1 DEF Pair
  <1>3. (c - 65536) \div 1024 = u - 55296 /\ ((c - 65536) % 1024) = v - 56320
    BY SMT, <1>1 DEF Pair
  <1>4. Utf16(c) = <<55296 + (c - 65536) \div 1024, 56320 + ((c - 65536) % 1024)>>
    <2> HIDE DEF c
    <2> QED BY SMT, <1>2 DEF Utf16
  <1>5. 55296 + (c - 65536) \div 1024 = u /\ 56320 + ((c - 65536) % 1024) = v
    <2> HIDE DEF c
    <2> QED BY SMT, <1>1, <1>2, <1>3
  <1>6. Utf16(c) = <<u, v>>
    BY SMT, <1>4, <1>5
  <1> HIDE DEF c
  <1>7. c \in Points4
    BY SMT, <1>2 DEF Points4
  <1>8. Pair(u, v) = c
    BY DEF c
  <1> QED BY Zenon, <1>6, <1>7, <1>8

(* A code point of three bytes at most is one unit. *)
LEMMA Utf16One ==
  ASSUME NEW cp \in CodePoints, cp \notin Points4
  PROVE  Utf16(cp) = <<cp>> /\ cp \in Units16
  <1>1. cp \in Nat /\ cp >= 1 /\ cp < 65536
    BY SMT DEF CodePoints, Points4
  <1>2. cp <= MaxUnit /\ MaxUnit \in Nat
    BY SMT, <1>1 DEF MaxUnit
  <1> QED BY SMT, <1>1, <1>2 DEF Utf16, Units16

(* One of four is two, which form a pair. *)
LEMMA Utf16Two ==
  ASSUME NEW cp \in Points4
  PROVE  \E u \in Units16, v \in Units16 :
           Utf16(cp) = <<u, v>> /\ High(u) /\ Low(v) /\ Pair(u, v) = cp
  <1> DEFINE u == 55296 + ((cp - 65536) \div 1024)
             v == 56320 + ((cp - 65536) % 1024)
  <1>1. Utf16(cp) = <<u, v>>
    BY SMT DEF Utf16, Points4
  <1>2. u \in Nat /\ v \in Nat /\ u >= 55296 /\ u <= 56319 /\ v >= 56320 /\ v <= 57343
    BY SMT DEF Points4
  <1>3. Pair(u, v) = cp
    BY SMT DEF Pair, Points4
  <1> HIDE DEF u, v
  <1>4. u \in Units16 /\ v \in Units16
    <2>1. u <= MaxUnit /\ v <= MaxUnit /\ MaxUnit \in Nat
      BY SMT, <1>2 DEF MaxUnit
    <2> QED BY SMT, <1>2, <2>1 DEF Units16
  <1>5. High(u) /\ Low(v)
    BY SMT, <1>2 DEF High, Low
  <1> QED BY Zenon, <1>1, <1>3, <1>4, <1>5

-----------------------------------------------------------------------------
(* The scans. *)

Begun == [at |-> 1, out |-> <<>>]

\* The recursions of WcharToUtf8 and Utf8ToWchar, as far as n.
Encodings(s, size, f, n) == f = [k \in 0 .. n |-> IF k = 0 THEN Begun ELSE Encode(s, size, f[k - 1])]
Decodings(s, size, f, n) == f = [k \in 0 .. n |-> IF k = 0 THEN Begun ELSE Decode(s, size, f[k - 1])]

(* Some function satisfies the first. *)
LEMMA EncodingsExist ==
  ASSUME NEW s, NEW size
  PROVE  \A n \in Nat : \E f : Encodings(s, size, f, n)
  <1> DEFINE S == {n \in Nat : \E f : Encodings(s, size, f, n)}
  <1>1. 0 \in S
    <2> DEFINE g == [k \in 0 .. 0 |-> Begun]
    <2>1. Encodings(s, size, g, 0)
      BY DEF Encodings
    <2> QED BY <2>1
  <1>2. ASSUME NEW n \in Nat, n \in S PROVE n + 1 \in S
    <2>1. PICK f : Encodings(s, size, f, n)
      BY <1>2
    <2> DEFINE g == [k \in 0 .. n + 1 |-> IF k = 0 THEN Begun ELSE Encode(s, size, f[k - 1])]
    <2>2. \A k \in 0 .. n : g[k] = f[k]
      BY <2>1 DEF Encodings
    <2>3. ASSUME NEW k \in 0 .. n + 1 PROVE g[k] = IF k = 0 THEN Begun ELSE Encode(s, size, g[k - 1])
      <3>1. CASE k = 0
        BY <3>1
      <3>2. CASE k # 0
        <4>1. k - 1 \in 0 .. n
          BY <3>2
        <4> QED BY <4>1, <2>2, <3>2
      <3> QED BY <3>1, <3>2
    <2>4. Encodings(s, size, g, n + 1)
      BY <2>3 DEF Encodings
    <2> QED BY <2>4
  <1> HIDE DEF S
  <1>3. \A n \in Nat : n \in S
    BY <1>1, <1>2, CountUp
  <1> QED BY <1>3 DEF S

(* And the second. *)
LEMMA DecodingsExist ==
  ASSUME NEW s, NEW size
  PROVE  \A n \in Nat : \E f : Decodings(s, size, f, n)
  <1> DEFINE S == {n \in Nat : \E f : Decodings(s, size, f, n)}
  <1>1. 0 \in S
    <2> DEFINE g == [k \in 0 .. 0 |-> Begun]
    <2>1. Decodings(s, size, g, 0)
      BY DEF Decodings
    <2> QED BY <2>1
  <1>2. ASSUME NEW n \in Nat, n \in S PROVE n + 1 \in S
    <2>1. PICK f : Decodings(s, size, f, n)
      BY <1>2
    <2> DEFINE g == [k \in 0 .. n + 1 |-> IF k = 0 THEN Begun ELSE Decode(s, size, f[k - 1])]
    <2>2. \A k \in 0 .. n : g[k] = f[k]
      BY <2>1 DEF Decodings
    <2>3. ASSUME NEW k \in 0 .. n + 1 PROVE g[k] = IF k = 0 THEN Begun ELSE Decode(s, size, g[k - 1])
      <3>1. CASE k = 0
        BY <3>1
      <3>2. CASE k # 0
        <4>1. k - 1 \in 0 .. n
          BY <3>2
        <4> QED BY <4>1, <2>2, <3>2
      <3> QED BY <3>1, <3>2
    <2>4. Decodings(s, size, g, n + 1)
      BY <2>3 DEF Decodings
    <2> QED BY <2>4
  <1> HIDE DEF S
  <1>3. \A n \in Nat : n \in S
    BY <1>1, <1>2, CountUp
  <1> QED BY <1>3 DEF S

\* A scan, state by state.
EncodesAlong(s, size, f) == f[0] = Begun /\ \A i \in Nat : i + 1 <= Len(s) => f[i + 1] = Encode(s, size, f[i])
DecodesAlong(s, size, f) == f[0] = Begun /\ \A i \in Nat : i + 1 <= Len(s) => f[i + 1] = Decode(s, size, f[i])

(* The states of wchar_to_utf8, one from the other. *)
LEMMA EncodeScan ==
  ASSUME NEW s \in Seq(Int), NEW size
  PROVE  \E f : EncodesAlong(s, size, f) /\ WcharToUtf8(s, size) = f[Len(s)].out
  <1>1. PICK n \in Nat : n = Len(s)
    OBVIOUS
  <1>2. PICK f : f = (CHOOSE x : Encodings(s, size, x, n)) /\ Encodings(s, size, f, n)
    <2>1. \E x : Encodings(s, size, x, n)
      BY EncodingsExist
    <2> QED BY <2>1
  <1>3. f[0] = Begun /\ \A k \in 1 .. n : f[k] = Encode(s, size, f[k - 1])
    <2>1. 0 \in 0 .. n /\ \A k \in 1 .. n : k \in 0 .. n /\ k # 0
      OBVIOUS
    <2> QED BY <1>2, <2>1, Zenon DEF Encodings
  <1>4. ASSUME NEW i \in Nat, i + 1 <= n PROVE f[i + 1] = Encode(s, size, f[i])
    <2>1. i + 1 \in 1 .. n /\ i + 1 - 1 = i
      BY <1>4
    <2> QED BY <1>3, <2>1
  <1>5. WcharToUtf8(s, size) = LET g == CHOOSE x : Encodings(s, size, x, Len(s)) IN g[Len(s)].out
    BY DEF WcharToUtf8, Encodings, Begun
  <1>6. WcharToUtf8(s, size) = f[Len(s)].out
    BY <1>1, <1>2, <1>5, Zenon
  <1>7. EncodesAlong(s, size, f)
    BY <1>1, <1>3, <1>4 DEF EncodesAlong
  <1> QED BY <1>6, <1>7

(* Those of utf8_to_wchar. *)
LEMMA DecodeScan ==
  ASSUME NEW s \in Seq(Int), NEW size
  PROVE  \E f : DecodesAlong(s, size, f) /\ Utf8ToWchar(s, size) = f[Len(s)].out
  <1>1. PICK n \in Nat : n = Len(s)
    OBVIOUS
  <1>2. PICK f : f = (CHOOSE x : Decodings(s, size, x, n)) /\ Decodings(s, size, f, n)
    <2>1. \E x : Decodings(s, size, x, n)
      BY DecodingsExist
    <2> QED BY <2>1
  <1>3. f[0] = Begun /\ \A k \in 1 .. n : f[k] = Decode(s, size, f[k - 1])
    <2>1. 0 \in 0 .. n /\ \A k \in 1 .. n : k \in 0 .. n /\ k # 0
      OBVIOUS
    <2> QED BY <1>2, <2>1, Zenon DEF Decodings
  <1>4. ASSUME NEW i \in Nat, i + 1 <= n PROVE f[i + 1] = Decode(s, size, f[i])
    <2>1. i + 1 \in 1 .. n /\ i + 1 - 1 = i
      BY <1>4
    <2> QED BY <1>3, <2>1
  <1>5. Utf8ToWchar(s, size) = LET g == CHOOSE x : Decodings(s, size, x, Len(s)) IN g[Len(s)].out
    BY DEF Utf8ToWchar, Decodings, Begun
  <1>6. Utf8ToWchar(s, size) = f[Len(s)].out
    BY <1>1, <1>2, <1>5, Zenon
  <1>7. DecodesAlong(s, size, f)
    BY <1>1, <1>3, <1>4 DEF DecodesAlong
  <1> QED BY <1>6, <1>7

-----------------------------------------------------------------------------
(* Where strings stand in others. *)

(* The parts of a string. *)
LEMMA SitsParts ==
  ASSUME NEW s \in Seq(Int), NEW t \in Seq(Int)
  PROVE  s \o t \in Seq(Int) /\ Len(s \o t) = Len(s) + Len(t) /\ Sits(s \o t, 1, s) /\ Sits(s \o t, Len(s) + 1, t)
  <1>1. s \o t \in Seq(Int) /\ Len(s \o t) = Len(s) + Len(t)
    OBVIOUS
  <1>2. ASSUME NEW k \in 1 .. Len(s) PROVE 1 + k - 1 <= Len(s \o t) /\ (s \o t)[1 + k - 1] = s[k]
    <2>1. 1 + k - 1 = k /\ k <= Len(s) + Len(t)
      OBVIOUS
    <2>2. (s \o t)[k] = s[k]
      OBVIOUS
    <2> QED BY <1>1, <2>1, <2>2
  <1>3. ASSUME NEW k \in 1 .. Len(t) PROVE Len(s) + 1 + k - 1 <= Len(s \o t) /\ (s \o t)[Len(s) + 1 + k - 1] = t[k]
    <2>1. Len(s) + 1 + k - 1 = Len(s) + k /\ Len(s) + k <= Len(s) + Len(t)
      OBVIOUS
    <2>2. (s \o t)[Len(s) + k] = t[k]
      OBVIOUS
    <2> QED BY <1>1, <2>1, <2>2
  <1> QED BY <1>1, <1>2, <1>3, Zenon DEF Sits

(* A part of a beginning. *)
LEMMA SitsIn ==
  ASSUME NEW s \in Seq(Int), NEW t \in Seq(Int), NEW w \in Seq(Int), NEW p \in Nat, p >= 1,
         Sits(s, 1, t), Sits(t, p, w)
  PROVE  Sits(s, p, w)
  <1>1. ASSUME NEW k \in 1 .. Len(w) PROVE p + k - 1 <= Len(s) /\ s[p + k - 1] = w[k]
    <2>1. p + k - 1 \in 1 .. Len(t) /\ t[p + k - 1] = w[k]
      BY DEF Sits
    <2>2. \A j \in 1 .. Len(t) : j <= Len(s) /\ s[j] = t[j]
      BY DEF Sits
    <2> QED BY <2>1, <2>2
  <1> QED BY <1>1 DEF Sits

(* A beginning is no longer than the whole. *)
LEMMA SitsShort ==
  ASSUME NEW s \in Seq(Int), NEW t \in Seq(Int), Sits(s, 1, t)
  PROVE  Len(t) <= Len(s)
  <1>1. CASE Len(t) = 0
    BY <1>1
  <1>2. CASE Len(t) # 0
    <2>1. Len(t) \in Nat /\ Len(t) \in 1 .. Len(t)
      BY <1>2
    <2>2. 1 + Len(t) - 1 <= Len(s)
      BY <2>1, Zenon DEF Sits
    <2> QED BY <2>1, <2>2
  <1> QED BY <1>1, <1>2

(* A string is its own beginning. *)
LEMMA SitsSelf ==
  ASSUME NEW s \in Seq(Int)
  PROVE  Sits(s, 1, s)
  BY DEF Sits

(* A beginning as long as the whole is the whole. *)
LEMMA SitsWhole ==
  ASSUME NEW s \in Seq(Int), NEW t \in Seq(Int), Sits(s, 1, t), Len(t) = Len(s)
  PROVE  t = s
  <1>1. \A k \in 1 .. Len(s) : t[k] = s[k]
    BY DEF Sits
  <1> QED BY <1>1

-----------------------------------------------------------------------------
(* A scan that goes on until it halts. *)

\* c is added to what is in o.
Adds(o, c, x) == c \in Seq(Int) /\ Len(c) > 0 /\ x = o \o c

Goes(f, i, n) ==
  \/ f[i + 1] = f[i] /\ (i + 2 <= n => f[i + 2] = f[i + 1])
  \/ \E c : Adds(f[i].out, c, f[i + 1].out)

Grows(f, n) == \A i \in Nat : (i <= n => f[i].out \in Seq(Int)) /\ (i + 1 <= n => Goes(f, i, n))

(* What is added makes it longer. *)
LEMMA AddsLonger ==
  ASSUME NEW o \in Seq(Int), NEW c, NEW x, Adds(o, c, x)
  PROVE  x \in Seq(Int) /\ Len(x) > Len(o) /\ Sits(x, 1, o) /\ Sits(x, Len(o) + 1, c) /\ c \in Seq(Int) /\ Len(x) = Len(o) + Len(c)
  BY SitsParts DEF Adds

(* When it has halted, nothing changes any more. *)
LEMMA Halted ==
  ASSUME NEW f, NEW n \in Nat, Grows(f, n), NEW i \in Nat, i + 1 <= n, f[i + 1] = f[i]
  PROVE  \A m \in Nat : i <= m /\ m <= n => f[m] = f[i]
  <1> DEFINE S == {k \in Nat : i + k + 1 <= n => f[i + k + 1] = f[i] /\ f[i + k] = f[i]}
  <1>1. 0 \in S
    OBVIOUS
  <1>2. ASSUME NEW k \in Nat, k \in S PROVE k + 1 \in S
    <2> SUFFICES ASSUME i + (k + 1) + 1 <= n
                 PROVE  f[i + (k + 1) + 1] = f[i] /\ f[i + (k + 1)] = f[i]
      OBVIOUS
    <2> DEFINE j == i + k
    <2>1. j \in Nat /\ j + 1 <= n /\ j + 2 <= n /\ j + 1 = i + (k + 1) /\ j + 2 = i + (k + 1) + 1 /\ j <= n
      OBVIOUS
    <2>2. f[j + 1] = f[i] /\ f[j] = f[i]
      BY <1>2, <2>1
    <2> HIDE DEF j, S
    <2>3. Goes(f, j, n) /\ f[j].out \in Seq(Int)
      BY <2>1 DEF Grows
    <2>4. ~ \E c : Adds(f[j].out, c, f[j + 1].out)
      <3> SUFFICES ASSUME NEW c, Adds(f[j].out, c, f[j + 1].out) PROVE FALSE
        OBVIOUS
      <3>1. Len(f[j + 1].out) > Len(f[j].out)
        BY <2>3, AddsLonger
      <3> QED BY <3>1, <2>2, <2>3
    <2>5. f[j + 2] = f[j + 1]
      BY <2>1, <2>3, <2>4 DEF Goes
    <2> QED BY <2>1, <2>2, <2>5
  <1> HIDE DEF S
  <1>3. \A k \in Nat : k \in S
    BY <1>1, <1>2, CountUp
  <1>4. ASSUME NEW m \in Nat, i <= m, m <= n PROVE f[m] = f[i]
    <2>1. CASE m = i
      BY <2>1
    <2>2. CASE m # i
      <3>1. m - i - 1 \in Nat /\ i + (m - i - 1) + 1 = m
        BY <1>4, <2>2
      <3>2. m - i - 1 \in S
        BY <3>1, <1>3
      <3> QED BY <3>1, <3>2, <1>4 DEF S
    <2> QED BY <2>1, <2>2
  <1> QED BY <1>4

(* What is written stays. *)
LEMMA StaysWritten ==
  ASSUME NEW f, NEW n \in Nat, Grows(f, n), NEW i \in Nat
  PROVE  \A m \in Nat : i <= m /\ m <= n => Sits(f[m].out, 1, f[i].out)
  <1> DEFINE S == {k \in Nat : i + k <= n => Sits(f[i + k].out, 1, f[i].out)}
  <1>1. 0 \in S
    <2> SUFFICES ASSUME i <= n PROVE Sits(f[i].out, 1, f[i].out)
      OBVIOUS
    <2> QED BY SitsSelf DEF Grows
  <1>2. ASSUME NEW k \in Nat, k \in S PROVE k + 1 \in S
    <2> SUFFICES ASSUME i + (k + 1) <= n
                 PROVE  Sits(f[i + (k + 1)].out, 1, f[i].out)
      OBVIOUS
    <2> DEFINE j == i + k
    <2>1. j \in Nat /\ j + 1 <= n /\ j + 1 = i + (k + 1) /\ j <= n /\ i <= n
      OBVIOUS
    <2>2. Sits(f[j].out, 1, f[i].out)
      BY <1>2, <2>1
    <2> HIDE DEF j, S
    <2>3. Goes(f, j, n) /\ f[j].out \in Seq(Int) /\ f[i].out \in Seq(Int)
      BY <2>1 DEF Grows
    <2>4. CASE f[j + 1] = f[j]
      BY <2>1, <2>2, <2>4
    <2>5. CASE \E c : Adds(f[j].out, c, f[j + 1].out)
      <3>1. f[j + 1].out \in Seq(Int) /\ Sits(f[j + 1].out, 1, f[j].out)
        BY <2>3, <2>5, AddsLonger
      <3>2. Sits(f[j + 1].out, 1, f[i].out)
        BY <2>2, <2>3, <3>1, SitsIn
      <3> QED BY <2>1, <3>2
    <2> QED BY <2>3, <2>4, <2>5 DEF Goes
  <1> HIDE DEF S
  <1>3. \A k \in Nat : k \in S
    BY <1>1, <1>2, CountUp
  <1>4. ASSUME NEW m \in Nat, i <= m, m <= n PROVE Sits(f[m].out, 1, f[i].out)
    <2>1. m - i \in Nat /\ i + (m - i) = m
      BY <1>4
    <2>2. m - i \in S
      BY <2>1, <1>3
    <2> QED BY <2>1, <2>2, <1>4 DEF S
  <1> QED BY <1>4

(* As long as there is more to come, it goes on, and what it adds stands   *)
(* in the result.                                                          *)
LEMMA ScanOnward ==
  ASSUME NEW f, NEW n \in Nat, Grows(f, n), NEW i \in Nat, i <= n, Len(f[i].out) < Len(f[n].out)
  PROVE  i + 1 <= n /\ \E c : Adds(f[i].out, c, f[i + 1].out) /\ Sits(f[n].out, Len(f[i].out) + 1, c)
  <1>1. f[i].out \in Seq(Int) /\ f[n].out \in Seq(Int)
    BY DEF Grows
  <1>2. i + 1 <= n
    <2>1. i # n
      BY <1>1
    <2> QED BY <2>1
  <1>3. f[i + 1] # f[i]
    <2> SUFFICES ASSUME f[i + 1] = f[i] PROVE FALSE
      OBVIOUS
    <2>1. f[n] = f[i]
      BY <1>2, Halted
    <2> QED BY <2>1, <1>1
  <1>4. PICK c : Adds(f[i].out, c, f[i + 1].out)
    BY <1>2, <1>3 DEF Grows, Goes
  <1>5. f[i + 1].out \in Seq(Int) /\ Sits(f[i + 1].out, Len(f[i].out) + 1, c) /\ c \in Seq(Int)
    BY <1>1, <1>4, AddsLonger
  <1>6. Sits(f[n].out, 1, f[i + 1].out)
    BY <1>2, StaysWritten
  <1>7. Len(f[i].out) + 1 \in Nat /\ Len(f[i].out) + 1 >= 1
    BY <1>1
  <1>8. Sits(f[n].out, Len(f[i].out) + 1, c)
    <2>1. PICK y \in Seq(Int), z \in Seq(Int), p \in Nat :
            y = f[n].out /\ z = f[i + 1].out /\ p = Len(f[i].out) + 1 /\ p >= 1
      BY <1>1, <1>5, <1>7
    <2>2. Sits(y, 1, z) /\ Sits(z, p, c)
      BY <1>5, <1>6, <2>1
    <2>3. Sits(y, p, c)
      BY <1>5, <2>1, <2>2, SitsIn, SMTT(30)
    <2> QED BY <2>1, <2>3
  <1> QED BY <1>2, <1>4, <1>8

-----------------------------------------------------------------------------
(* wchar_to_utf8, step by step. *)

\* The code point of n units at p.
Taken(s, p, n, cp) ==
  \/ n = 2 /\ p + 1 <= Len(s) /\ High(s[p]) /\ Low(s[p + 1]) /\ cp = Pair(s[p], s[p + 1])
  \/ n = 1 /\ ~(High(s[p]) /\ Low(At(s, p + 1))) /\ cp = s[p]

\* No pair is split at p.
WholeAt(s, p) == ~(High(At(s, p - 1)) /\ Low(At(s, p)))

(* A unit is a number of sixteen bits. *)
LEMMA UnitIs ==
  ASSUME NEW u \in Units16
  PROVE  u \in Nat /\ u >= 1 /\ u < 65536
  <1>1. MaxUnit \in Nat /\ MaxUnit < 65536
    BY SMT DEF MaxUnit
  <1>2. u \in Nat /\ u >= 1 /\ u <= MaxUnit
    BY <1>1 DEF Units16
  <1> QED BY SMT, <1>1, <1>2

(* Units, and what is behind the end. *)
LEMMA UnitAt ==
  ASSUME NEW s \in Seq(Units16), NEW p \in Nat
  PROVE  /\ s \in Seq(Int)
         /\ p \in 1 .. Len(s) => At(s, p) = s[p] /\ s[p] \in Units16 /\ s[p] \in CodePoints
         /\ p \notin 1 .. Len(s) => At(s, p) = 0 /\ ~High(At(s, p)) /\ ~Low(At(s, p))
  <1>1. \A u \in Units16 : u \in Int /\ u \in CodePoints
    BY SMT, UnitIs DEF CodePoints
  <1>2. s \in Seq(Int)
    BY <1>1
  <1>3. p \in 1 .. Len(s) => At(s, p) = s[p] /\ s[p] \in Units16
    BY DEF At
  <1>4. ~High(0) /\ ~Low(0)
    BY NoEnd
  <1>5. p \notin 1 .. Len(s) => At(s, p) = 0
    BY DEF At
  <1> QED BY <1>1, <1>2, <1>3, <1>4, <1>5

(* Pairs are code points. *)
LEMMA PointsIn ==
  ASSUME NEW cp \in Points4
  PROVE  cp \in CodePoints
  BY SMT DEF Points4, CodePoints

(* What can be encoded of a unit or two. *)
LEMMA TakenPoint ==
  ASSUME NEW s \in Seq(Units16), NEW p \in 1 .. Len(s)
  PROVE  \E n \in 1 .. 2 : \E cp \in CodePoints :
           /\ Taken(s, p, n, cp) /\ p + n <= Len(s) + 1
           /\ n = (IF High(At(s, p)) /\ Low(At(s, p + 1)) THEN 2 ELSE 1)
           /\ cp = (IF High(At(s, p)) /\ Low(At(s, p + 1)) THEN Pair(s[p], s[p + 1]) ELSE At(s, p))
  <1>1. p \in Nat /\ p + 1 \in Nat /\ At(s, p) = s[p] /\ s[p] \in Units16 /\ s[p] \in CodePoints
    BY UnitAt
  <1>2. CASE High(At(s, p)) /\ Low(At(s, p + 1))
    <2>1. p + 1 \in 1 .. Len(s) /\ At(s, p + 1) = s[p + 1] /\ s[p + 1] \in Units16
      BY <1>1, <1>2, UnitAt
    <2>2. Pair(s[p], s[p + 1]) \in CodePoints
      BY <1>1, <1>2, <2>1, PairIs, PointsIn
    <2>3. Taken(s, p, 2, Pair(s[p], s[p + 1]))
      BY <1>1, <1>2, <2>1 DEF Taken
    <2>4. 2 \in 1 .. 2 /\ p + 2 <= Len(s) + 1
      BY <2>1
    <2> QED BY <1>2, <2>2, <2>3, <2>4, Zenon
  <1>3. CASE ~(High(At(s, p)) /\ Low(At(s, p + 1)))
    <2>1. Taken(s, p, 1, s[p])
      BY <1>1, <1>3 DEF Taken
    <2>2. 1 \in 1 .. 2 /\ p + 1 <= Len(s) + 1
      OBVIOUS
    <2> QED BY <1>1, <1>3, <2>1, <2>2, Zenon
  <1> QED BY <1>2, <1>3

\* A step that encodes one more code point, and one that does not.
EncodesOne(s, size, p, o, st) ==
  \E n \in 1 .. 2 : \E cp \in CodePoints :
    /\ p <= Len(s) /\ Len(o) + 4 < size /\ Taken(s, p, n, cp) /\ p + n <= Len(s) + 1
    /\ st = [at |-> p + n, out |-> o \o Utf8(cp)]

EncodesNone(s, size, p, o, st) == (p > Len(s) \/ Len(o) + 4 >= size) /\ st = [at |-> p, out |-> o]

(* There are no others. *)
LEMMA EncodeIs ==
  ASSUME NEW s \in Seq(Units16), NEW p \in Nat, p >= 1, NEW o \in Seq(Int), NEW size \in Nat
  PROVE  \/ EncodesOne(s, size, p, o, Encode(s, size, [at |-> p, out |-> o]))
         \/ EncodesNone(s, size, p, o, Encode(s, size, [at |-> p, out |-> o]))
  <1> DEFINE st == [at |-> p, out |-> o]
             pair == High(At(s, p)) /\ Low(At(s, p + 1))
  <1>1. Encode(s, size, st) =
          IF p > Len(s) \/ Len(o) + 4 >= size THEN st
          ELSE [at |-> p + (IF pair THEN 2 ELSE 1),
                out |-> o \o Utf8(IF pair THEN Pair(s[p], s[p + 1]) ELSE At(s, p))]
    BY DEF Encode
  <1>2. CASE p > Len(s) \/ Len(o) + 4 >= size
    <2>1. Encode(s, size, st) = st
      BY <1>1, <1>2
    <2> QED BY <1>2, <2>1 DEF EncodesNone
  <1>3. CASE ~(p > Len(s) \/ Len(o) + 4 >= size)
    <2>1. p \in 1 .. Len(s) /\ p <= Len(s) /\ Len(o) + 4 < size
      BY <1>3
    <2>2. PICK n \in 1 .. 2 : \E cp \in CodePoints :
           /\ Taken(s, p, n, cp) /\ p + n <= Len(s) + 1
           /\ n = (IF pair THEN 2 ELSE 1)
           /\ cp = (IF pair THEN Pair(s[p], s[p + 1]) ELSE At(s, p))
      BY <2>1, TakenPoint
    <2>3. PICK cp \in CodePoints :
           /\ Taken(s, p, n, cp) /\ p + n <= Len(s) + 1
           /\ n = (IF pair THEN 2 ELSE 1)
           /\ cp = (IF pair THEN Pair(s[p], s[p + 1]) ELSE At(s, p))
      BY <2>2
    <2>4. Encode(s, size, st) = [at |-> p + n, out |-> o \o Utf8(cp)]
      <3> HIDE DEF pair, st
      <3> QED BY <1>1, <1>3, <2>3, Zenon
    <2> QED BY <2>1, <2>3, <2>4, Zenon DEF EncodesOne
  <1> QED BY <1>2, <1>3

(* A step takes whole characters. *)
LEMMA TakenWhole ==
  ASSUME NEW s \in Seq(Units16), NEW p \in 1 .. Len(s), NEW n \in 1 .. 2, NEW cp, Taken(s, p, n, cp)
  PROVE  WholeAt(s, p + n)
  <1>1. p \in Nat /\ p + 1 \in Nat /\ At(s, p) = s[p]
    BY UnitAt
  <1>2. CASE n = 2
    <2>1. p + 1 \in 1 .. Len(s) /\ Low(s[p + 1]) /\ p + n - 1 = p + 1 /\ At(s, p + 1) = s[p + 1]
      BY <1>1, <1>2, UnitAt DEF Taken
    <2>2. \A u \in Units16 : Low(u) => ~High(u)
      BY SMT DEF Low, High
    <2>3. s[p + 1] \in Units16
      BY <2>1
    <2> QED BY <2>1, <2>2, <2>3 DEF WholeAt
  <1>3. CASE n = 1
    <2>1. ~(High(s[p]) /\ Low(At(s, p + 1))) /\ p + n - 1 = p /\ p + n = p + 1
      BY <1>3 DEF Taken
    <2> QED BY <1>1, <2>1 DEF WholeAt
  <1> QED BY <1>2, <1>3

(* What is encoded in a step comes back as it was, or replaced.            *)
LEMMA TakenSound ==
  ASSUME NEW s \in Seq(Units16), NEW p \in 1 .. Len(s), NEW n \in 1 .. 2, NEW cp \in CodePoints,
         Taken(s, p, n, cp), WholeAt(s, p), p + n <= Len(s) + 1
  PROVE  SubSeq(Sound(s), 1, p - 1) \o Utf16(IF Surrogate(cp) THEN Replacement ELSE cp) = SubSeq(Sound(s), 1, p + n - 1)
  <1>1. p \in Nat /\ p + 1 \in Nat /\ At(s, p) = s[p] /\ s[p] \in Units16 /\ s[p] \in CodePoints
    BY UnitAt
  <1>2. \A u \in Units16 : Low(u) => ~High(u)
    BY LowNotHigh
  <1>a. Replacement \in Units16 /\ Utf16(Replacement) = <<Replacement>>
    BY ReplacementIs
  <1>b. \A u \in Units16 : u \notin Points4
    BY SMT, UnitIs DEF Points4
  <1>3. Sound(s) \in Seq(Units16) /\ Len(Sound(s)) = Len(s) /\ \A i \in 1 .. Len(s) : Sound(s)[i] = IF Alone(s, i) THEN Replacement ELSE s[i]
    BY <1>a DEF Sound
  <1>4. CASE n = 2
    <2>1. p + 1 \in 1 .. Len(s) /\ High(s[p]) /\ Low(s[p + 1]) /\ At(s, p + 1) = s[p + 1] /\ s[p + 1] \in Units16
          /\ cp = Pair(s[p], s[p + 1])
      BY <1>1, <1>4, UnitAt DEF Taken
    <2>2. cp \in Points4 /\ Utf16(cp) = <<s[p], s[p + 1]>>
      BY <1>1, <2>1, PairIs
    <2>3. ~Surrogate(cp)
      BY <2>2, SurrogateAre, PointIs
    <2>4. ~Alone(s, p) /\ ~Alone(s, p + 1)
      <3>1. p + 1 - 1 = p
        BY <1>1
      <3> QED BY <1>1, <1>2, <2>1, <3>1 DEF Alone
    <2>5. Sound(s)[p] = s[p] /\ Sound(s)[p + 1] = s[p + 1]
      BY <1>3, <2>1, <2>4
    <2>6. SubSeq(Sound(s), 1, p - 1) \o <<Sound(s)[p], Sound(s)[p + 1]>> = SubSeq(Sound(s), 1, p + 1)
      <3> DEFINE x == Sound(s)
      <3>1. x \in Seq(Units16) /\ p + 1 \in 1 .. Len(x) /\ p \in 1 .. Len(x)
        BY <1>3, <2>1
      <3> HIDE DEF x
      <3> QED BY <3>1
    <2>7. p + n - 1 = p + 1
      BY <1>4
    <2> QED BY <2>2, <2>3, <2>5, <2>6, <2>7
  <1>5. CASE n = 1
    <2>1. ~(High(s[p]) /\ Low(At(s, p + 1))) /\ cp = s[p]
      BY <1>5 DEF Taken
    <2>2. Alone(s, p) <=> Surrogate(cp)
      BY <1>1, <2>1 DEF Alone, Surrogate, WholeAt
    <2>3. Utf16(IF Surrogate(cp) THEN Replacement ELSE cp) = <<Sound(s)[p]>>
      <3>1. CASE Surrogate(cp)
        BY <3>1, <1>3, <2>2, <1>a
      <3>2. CASE ~Surrogate(cp)
        <4>1. Utf16(cp) = <<cp>>
          BY <1>1, <1>b, <2>1, Utf16One
        <4> QED BY <3>2, <4>1, <1>3, <2>1, <2>2
      <3> QED BY <3>1, <3>2
    <2>4. SubSeq(Sound(s), 1, p - 1) \o <<Sound(s)[p]>> = SubSeq(Sound(s), 1, p)
      <3> DEFINE x == Sound(s)
      <3>1. x \in Seq(Units16) /\ p \in 1 .. Len(x)
        BY <1>3
      <3> HIDE DEF x
      <3> QED BY <3>1
    <2>5. p + n - 1 = p
      BY <1>5
    <2> QED BY <2>3, <2>4, <2>5
  <1> QED BY <1>4, <1>5

-----------------------------------------------------------------------------
(* The states of wchar_to_utf8. *)

\* What has been encoded ends between characters and fits the buffer.
Encoded(s, size, st) ==
  \E p \in 1 .. Len(s) + 1 : \E o \in Seq(Bytes8) :
    st = [at |-> p, out |-> o] /\ WholeAt(s, p) /\ Len(o) < size

(* Bytes are numbers. *)
LEMMA BytesInt ==
  ASSUME NEW o \in Seq(Bytes8)
  PROVE  o \in Seq(Int)
  <1>1. \A b \in Bytes8 : b \in Int
    BY DEF Bytes8
  <1> QED BY <1>1

(* A code point is encoded in four bytes at most, which there is room for. *)
LEMMA EncodesFits ==
  ASSUME NEW s \in Seq(Units16), NEW size \in Nat, NEW p \in 1 .. Len(s) + 1, NEW o \in Seq(Bytes8), NEW st,
         EncodesOne(s, size, p, o, st)
  PROVE  Encoded(s, size, st)
  <1>1. PICK n \in 1 .. 2, cp \in CodePoints :
          /\ p <= Len(s) /\ Len(o) + 4 < size /\ Taken(s, p, n, cp) /\ p + n <= Len(s) + 1
          /\ st = [at |-> p + n, out |-> o \o Utf8(cp)]
    BY DEF EncodesOne
  <1>2. Utf8(cp) \in Seq(Bytes8) /\ Len(Utf8(cp)) \in 1 .. 4
    BY Utf8Bytes
  <1>3. o \o Utf8(cp) \in Seq(Bytes8) /\ Len(o \o Utf8(cp)) < size
    <2>1. \A w \in Seq(Bytes8) : o \o w \in Seq(Bytes8) /\ Len(o \o w) = Len(o) + Len(w) /\ Len(o) \in Nat
      OBVIOUS
    <2>2. Len(o \o Utf8(cp)) = Len(o) + Len(Utf8(cp)) /\ Len(o) \in Nat
      BY <1>2, <2>1
    <2>3. PICK m \in 1 .. 4 : m = Len(Utf8(cp))
      BY <1>2
    <2>4. Len(o \o Utf8(cp)) = Len(o) + m
      BY <2>2, <2>3
    <2>5. Len(o) + m < size
      BY <1>1, <2>2
    <2>6. o \o Utf8(cp) \in Seq(Bytes8)
      BY <1>2, <2>1
    <2> QED BY <2>4, <2>5, <2>6
  <1>4. WholeAt(s, p + n) /\ p + n \in 1 .. Len(s) + 1
    <2>1. p \in 1 .. Len(s)
      BY <1>1
    <2> QED BY <1>1, <2>1, TakenWhole
  <1> QED BY <1>1, <1>3, <1>4 DEF Encoded

(* Every state is such a one. *)
LEMMA EncodedAll ==
  ASSUME NEW s \in Seq(Units16), NEW size \in Nat, size > 0, NEW f, EncodesAlong(s, size, f)
  PROVE  \A i \in Nat : i <= Len(s) => Encoded(s, size, f[i])
  <1> DEFINE S == {i \in Nat : i <= Len(s) => Encoded(s, size, f[i])}
  <1>1. 0 \in S
    <2>1. <<>> \in Seq(Bytes8) /\ Len(<<>>) < size /\ 1 \in 1 .. Len(s) + 1
      OBVIOUS
    <2>2. WholeAt(s, 1)
      <3>1. 1 - 1 = 0 /\ 0 \notin 1 .. Len(s) /\ 0 \in Nat
        OBVIOUS
      <3> QED BY <3>1, UnitAt DEF WholeAt
    <2>3. f[0] = [at |-> 1, out |-> <<>>]
      BY DEF EncodesAlong, Begun
    <2>4. Encoded(s, size, f[0])
      BY <2>1, <2>2, <2>3 DEF Encoded
    <2> QED BY <2>4
  <1>2. ASSUME NEW i \in Nat, i \in S PROVE i + 1 \in S
    <2> SUFFICES ASSUME i + 1 <= Len(s) PROVE Encoded(s, size, f[i + 1])
      OBVIOUS
    <2>1. Encoded(s, size, f[i])
      BY <1>2
    <2> HIDE DEF S
    <2>2. PICK p \in 1 .. Len(s) + 1, o \in Seq(Bytes8) : f[i] = [at |-> p, out |-> o] /\ WholeAt(s, p) /\ Len(o) < size
      BY <2>1 DEF Encoded
    <2>3. f[i + 1] = Encode(s, size, [at |-> p, out |-> o])
      BY <2>2 DEF EncodesAlong
    <2>4. EncodesOne(s, size, p, o, f[i + 1]) \/ EncodesNone(s, size, p, o, f[i + 1])
      <3>1. p \in Nat /\ p >= 1 /\ o \in Seq(Int)
        BY BytesInt
      <3> QED BY <2>3, <3>1, EncodeIs
    <2>5. CASE EncodesOne(s, size, p, o, f[i + 1])
      BY <2>5, EncodesFits
    <2>6. CASE EncodesNone(s, size, p, o, f[i + 1])
      BY <2>1, <2>2, <2>6 DEF EncodesNone
    <2> QED BY <2>4, <2>5, <2>6
  <1> HIDE DEF S
  <1>3. \A i \in Nat : i \in S
    BY <1>1, <1>2, CountUp
  <1> QED BY <1>3 DEF S

(* A step from a state. *)
LEMMA EncodeStep ==
  ASSUME NEW s \in Seq(Units16), NEW size \in Nat, size > 0, NEW f, EncodesAlong(s, size, f),
         NEW i \in Nat, i + 1 <= Len(s)
  PROVE  \E p \in 1 .. Len(s) + 1 : \E o \in Seq(Bytes8) :
           /\ f[i] = [at |-> p, out |-> o] /\ WholeAt(s, p)
           /\ EncodesOne(s, size, p, o, f[i + 1]) \/ EncodesNone(s, size, p, o, f[i + 1])
  <1>1. PICK p \in 1 .. Len(s) + 1, o \in Seq(Bytes8) : f[i] = [at |-> p, out |-> o] /\ WholeAt(s, p)
    <2>1. Encoded(s, size, f[i])
      BY EncodedAll
    <2> QED BY <2>1 DEF Encoded
  <1>2. f[i + 1] = Encode(s, size, [at |-> p, out |-> o])
    BY <1>1 DEF EncodesAlong
  <1>3. p \in Nat /\ p >= 1 /\ o \in Seq(Int)
    BY BytesInt
  <1>4. EncodesOne(s, size, p, o, f[i + 1]) \/ EncodesNone(s, size, p, o, f[i + 1])
    BY <1>2, <1>3, EncodeIs
  <1> QED BY <1>1, <1>4

(* A code point adds its bytes. *)
LEMMA EncodesAdds ==
  ASSUME NEW o \in Seq(Bytes8), NEW cp \in CodePoints
  PROVE  Adds(o, Utf8(cp), o \o Utf8(cp))
  BY Utf8Bytes DEF Adds

(* The scan goes on until it halts. *)
LEMMA EncodesGrow ==
  ASSUME NEW s \in Seq(Units16), NEW size \in Nat, size > 0, NEW f, EncodesAlong(s, size, f)
  PROVE  Grows(f, Len(s))
  <1>1. ASSUME NEW i \in Nat, i <= Len(s) PROVE f[i].out \in Seq(Int)
    <2>1. Encoded(s, size, f[i])
      BY <1>1, EncodedAll
    <2> QED BY <2>1, BytesInt DEF Encoded
  <1>2. ASSUME NEW i \in Nat, i + 1 <= Len(s) PROVE Goes(f, i, Len(s))
    <2>1. PICK p \in 1 .. Len(s) + 1, o \in Seq(Bytes8) :
           /\ f[i] = [at |-> p, out |-> o]
           /\ EncodesOne(s, size, p, o, f[i + 1]) \/ EncodesNone(s, size, p, o, f[i + 1])
      BY <1>2, EncodeStep
    <2>2. CASE EncodesOne(s, size, p, o, f[i + 1])
      <3>1. PICK n \in 1 .. 2, cp \in CodePoints : f[i + 1] = [at |-> p + n, out |-> o \o Utf8(cp)]
        BY <2>2 DEF EncodesOne
      <3>2. f[i].out = o /\ f[i + 1].out = o \o Utf8(cp)
        BY <2>1, <3>1
      <3>3. Adds(f[i].out, Utf8(cp), f[i + 1].out)
        BY <3>2, EncodesAdds
      <3> QED BY <3>3 DEF Goes
    <2>3. CASE EncodesNone(s, size, p, o, f[i + 1])
      <3>1. f[i + 1] = f[i]
        BY <2>1, <2>3 DEF EncodesNone
      <3>2. i + 2 <= Len(s) => f[i + 2] = f[i + 1]
        <4> SUFFICES ASSUME i + 2 <= Len(s) PROVE f[i + 2] = f[i + 1]
          OBVIOUS
        <4>1. i + 1 \in Nat /\ (i + 1) + 1 = i + 2
          OBVIOUS
        <4>2. f[i + 2] = Encode(s, size, f[i + 1]) /\ f[i + 1] = Encode(s, size, f[i])
          BY <4>1, <1>2 DEF EncodesAlong
        <4> QED BY <3>1, <4>2
      <3> QED BY <3>1, <3>2 DEF Goes
    <2> QED BY <2>1, <2>2, <2>3
  <1> QED BY <1>1, <1>2 DEF Grows

-----------------------------------------------------------------------------
(* utf8_to_wchar, step by step. *)

DecodesOne(s, size, p, o, st) ==
  /\ p <= Len(s) /\ Len(o) + Len(Utf16(Utf8Next(s, p).cp)) < size
  /\ st = [at |-> p + Utf8Next(s, p).len, out |-> o \o Utf16(Utf8Next(s, p).cp)]

DecodesNone(s, size, p, o, st) ==
  /\ p > Len(s) \/ Len(o) + 1 >= size \/ Len(o) + Len(Utf16(Utf8Next(s, p).cp)) >= size
  /\ st = [at |-> p, out |-> o]

(* What a scalar becomes in UTF-16. *)
LEMMA Utf16Units ==
  ASSUME NEW cp, Scalar(cp)
  PROVE  /\ Utf16(cp) \in Seq(Units16) /\ Utf16(cp) \in Seq(Int) /\ Len(Utf16(cp)) \in 1 .. 2
         /\ WellFormed(Utf16(cp)) /\ ~Low(Utf16(cp)[1])
  <1>1. cp \in CodePoints /\ ~Surrogate(cp)
    BY DEF Scalar
  <1>a. ~High(0) /\ ~Low(0)
    BY NoEnd
  <1>2. CASE cp \in Points4
    <2>1. PICK u \in Units16, v \in Units16 : Utf16(cp) = <<u, v>> /\ High(u) /\ Low(v)
      BY <1>2, Utf16Two
    <2>2. ~Low(u) /\ ~High(v)
      <3>1. \A x \in Nat : High(x) => ~Low(x)
        BY LowNotHigh
      <3>2. u \in Nat /\ v \in Nat
        BY UnitIs
      <3> QED BY <2>1, <3>1, <3>2, Zenon
    <2>3. <<u, v>> \in Seq(Units16) /\ <<u, v>> \in Seq(Int) /\ Len(<<u, v>>) = 2 /\ <<u, v>>[1] = u /\ <<u, v>>[2] = v
      BY UnitIs
    <2>4. At(<<u, v>>, 2) = v /\ At(<<u, v>>, 3) = 0
      BY <2>3 DEF At
    <2>5. WellFormed(<<u, v>>)
      <3>1. \A i \in 1 .. 2 : i = 1 \/ i = 2
        OBVIOUS
      <3>2. 1 + 1 = 2 /\ 2 + 1 = 3
        OBVIOUS
      <3> DEFINE x == <<u, v>>
      <3>3. High(x[1]) = Low(At(x, 1 + 1)) /\ High(x[2]) = Low(At(x, 2 + 1)) /\ ~Low(x[1])
        <4> HIDE DEF High, Low, At
        <4>1. High(x[1]) /\ Low(At(x, 1 + 1)) /\ ~Low(x[1])
          BY <2>1, <2>2, <2>3, <2>4, <3>2
        <4>2. ~High(x[2]) /\ ~Low(At(x, 2 + 1))
          BY <1>a, <2>2, <2>3, <2>4, <3>2
        <4> QED BY <4>1, <4>2 DEF High, Low
      <3>4. Len(x) = 2
        BY <2>3
      <3> HIDE DEF x
      <3>5. ASSUME NEW i \in 1 .. Len(x) PROVE High(x[i]) = Low(At(x, i + 1)) /\ (i = 1 => ~Low(x[1]))
        <4>1. i = 1 \/ i = 2
          BY <3>1, <3>4
        <4> QED BY <4>1, <3>3, Zenon
      <3>6. WellFormed(x)
        BY <3>5, Zenon DEF WellFormed
      <3> QED BY <3>6 DEF x
    <2> QED BY <2>1, <2>2, <2>3, <2>5
  <1>3. CASE cp \notin Points4
    <2>1. Utf16(cp) = <<cp>> /\ cp \in Units16
      BY <1>1, <1>3, Utf16One
    <2>2. <<cp>> \in Seq(Units16) /\ <<cp>> \in Seq(Int) /\ Len(<<cp>>) = 1 /\ <<cp>>[1] = cp
      BY <2>1, UnitIs
    <2>3. At(<<cp>>, 2) = 0
      BY <2>2 DEF At
    <2>4. ~High(cp) /\ ~Low(cp)
      BY <1>1 DEF Surrogate
    <2>5. WellFormed(<<cp>>)
      <3>1. \A i \in 1 .. 1 : i = 1
        OBVIOUS
      <3>2. 1 + 1 = 2
        OBVIOUS
      <3> DEFINE x == <<cp>>
      <3>3. High(x[1]) = Low(At(x, 1 + 1)) /\ ~Low(x[1])
        <4>1. ~High(x[1]) /\ ~Low(x[1]) /\ ~Low(At(x, 1 + 1))
          BY <1>a, <2>2, <2>3, <2>4, <3>2
        <4> QED BY <4>1 DEF High, Low
      <3>4. Len(x) = 1
        BY <2>2
      <3> HIDE DEF x
      <3>5. ASSUME NEW i \in 1 .. Len(x) PROVE High(x[i]) = Low(At(x, i + 1)) /\ (i = 1 => ~Low(x[1]))
        <4>1. i = 1
          BY <3>1, <3>4
        <4> QED BY <4>1, <3>3, Zenon
      <3>6. WellFormed(x)
        BY <3>5, Zenon DEF WellFormed
      <3> QED BY <3>6 DEF x
    <2> QED BY <2>1, <2>2, <2>4, <2>5
  <1> QED BY <1>2, <1>3

(* Those are the steps. *)
LEMMA DecodeIs ==
  ASSUME NEW s \in Seq(Bytes8), NEW p \in Nat, p >= 1, NEW o \in Seq(Int), NEW size \in Nat
  PROVE  \/ DecodesOne(s, size, p, o, Decode(s, size, [at |-> p, out |-> o]))
         \/ DecodesNone(s, size, p, o, Decode(s, size, [at |-> p, out |-> o]))
  <1> DEFINE st == [at |-> p, out |-> o]
             c  == Utf8Next(s, p)
             u  == Utf16(c.cp)
  <1>1. Decode(s, size, st) =
          IF p > Len(s) \/ Len(o) + 1 >= size \/ ~(Len(o) + Len(u) < size) THEN st
          ELSE [at |-> p + c.len, out |-> o \o u]
    BY DEF Decode, Fits
  <1>2. CASE p > Len(s)
    BY <1>1, <1>2 DEF DecodesNone
  <1>3. CASE p <= Len(s)
    <2>1. Scalar(c.cp)
      BY <1>3, NextScalar
    <2>2. Len(u) \in 1 .. 2
      BY <2>1, Utf16Units
    <2> HIDE DEF u, c, st
    <2>3. CASE Len(o) + 1 >= size \/ ~(Len(o) + Len(u) < size)
      <3>1. Decode(s, size, st) = st
        BY <1>1, <2>3
      <3>2. Len(o) + 1 >= size \/ Len(o) + Len(u) >= size
        BY <2>2, <2>3
      <3> QED BY <3>1, <3>2 DEF DecodesNone, u, c, st
    <2>4. CASE ~(Len(o) + 1 >= size \/ ~(Len(o) + Len(u) < size))
      <3>1. Decode(s, size, st) = [at |-> p + c.len, out |-> o \o u]
        BY <1>1, <1>3, <2>4
      <3> QED BY <1>3, <2>4, <3>1 DEF DecodesOne, u, c, st
    <2> QED BY <2>3, <2>4
  <1> QED BY <1>2, <1>3

-----------------------------------------------------------------------------
(* The states of utf8_to_wchar. *)

(* Two that are not are equal. *)
LEMMA NotEither ==
  ASSUME NEW u, NEW v, ~High(u), ~Low(v)
  PROVE  High(u) = Low(v)
  BY SMT DEF High, Low

(* Well-formed strings one behind the other. *)
LEMMA WellJoined ==
  ASSUME NEW x \in Seq(Units16), NEW y \in Seq(Units16), WellFormed(x), WellFormed(y), Len(y) > 0, ~Low(y[1])
  PROVE  WellFormed(x \o y)
  <1> DEFINE z == x \o y
  <1>1. /\ Len(z) = Len(x) + Len(y)
        /\ \A i \in 1 .. Len(x) : z[i] = x[i]
        /\ \A i \in Len(x) + 1 .. Len(x) + Len(y) : z[i] = y[i - Len(x)]
    OBVIOUS
  <1>2. ~High(0) /\ ~Low(0)
    BY NoEnd
  <1>3. \A i \in 1 .. Len(x) : High(x[i]) = Low(At(x, i + 1)) /\ (i = 1 => ~Low(x[1]))
    BY DEF WellFormed
  <1>4. \A i \in 1 .. Len(y) : High(y[i]) = Low(At(y, i + 1)) /\ (i = 1 => ~Low(y[1]))
    BY DEF WellFormed
  <1>5. ASSUME NEW i \in 1 .. Len(z) PROVE High(z[i]) = Low(At(z, i + 1)) /\ (i = 1 => ~Low(z[1]))
    <2>1. CASE i \in 1 .. Len(x) /\ i + 1 \in 1 .. Len(x)
      <3>1. z[i] = x[i] /\ At(z, i + 1) = At(x, i + 1) /\ z[1] = x[1]
        BY <1>1, <2>1 DEF At
      <3> QED BY <1>3, <2>1, <3>1, Zenon
    <2>2. CASE i = Len(x)
      <3>1. z[i] = x[i] /\ At(x, i + 1) = 0 /\ At(z, i + 1) = y[1] /\ z[1] = x[1] /\ i \in 1 .. Len(x)
        BY <1>1, <2>2 DEF At
      <3>2. High(x[i]) = Low(At(x, i + 1))
        BY <1>3, <3>1
      <3>3. ~High(x[i])
        BY <1>2, <3>1, <3>2
      <3>4. i = 1 => ~Low(x[1])
        BY <1>3, <3>1
      <3>5. ~High(z[i]) /\ ~Low(At(z, i + 1))
        BY <3>1, <3>3, Zenon
      <3>6. High(z[i]) = Low(At(z, i + 1))
        <4> HIDE DEF z
        <4> QED BY <3>5, NotEither, Zenon
      <3> QED BY <3>1, <3>4, <3>6, Zenon
    <2>3. CASE i > Len(x)
      <3> DEFINE j == i - Len(x)
      <3>1. j \in 1 .. Len(y) /\ z[i] = y[j]
        BY <1>1, <2>3
      <3>2. At(z, i + 1) = At(y, j + 1)
        BY <1>1, <2>3 DEF At
      <3>3. i = 1 => j = 1 /\ z[1] = y[1]
        BY <1>1, <2>3
      <3> HIDE DEF j, z
      <3> QED BY <1>4, <3>1, <3>2, <3>3, Zenon
    <2>4. (i \in 1 .. Len(x) /\ i + 1 \in 1 .. Len(x)) \/ i = Len(x) \/ i > Len(x)
      BY <1>1
    <2> QED BY <2>1, <2>2, <2>3, <2>4
  <1>6. WellFormed(z)
    <2> HIDE DEF z
    <2> QED BY <1>5, Zenon DEF WellFormed
  <1> QED BY <1>6

\* What has been decoded is valid UTF-16 and fits the buffer.
Decoded(s, size, st) ==
  \E p \in Nat : \E o \in Seq(Units16) :
    st = [at |-> p, out |-> o] /\ p >= 1 /\ WellFormed(o) /\ Len(o) < size

(* Units are numbers. *)
LEMMA UnitsInt ==
  ASSUME NEW o \in Seq(Units16)
  PROVE  o \in Seq(Int)
  <1>1. \A u \in Units16 : u \in Int
    BY UnitIs
  <1> QED BY <1>1

(* A step decodes one code point. *)
LEMMA DecodesFits ==
  ASSUME NEW s \in Seq(Bytes8), NEW size \in Nat, NEW p \in Nat, p >= 1, NEW o \in Seq(Units16), WellFormed(o), NEW st,
         DecodesOne(s, size, p, o, st)
  PROVE  Decoded(s, size, st) /\ Adds(o, Utf16(Utf8Next(s, p).cp), st.out)
  <1> DEFINE c == Utf8Next(s, p)
             u == Utf16(c.cp)
  <1>1. p <= Len(s) /\ Len(o) + Len(u) < size /\ st = [at |-> p + c.len, out |-> o \o u]
    BY DEF DecodesOne
  <1>2. Scalar(c.cp) /\ c.len \in 1 .. 4
    <2>1. p \in 1 .. Len(s)
      BY <1>1
    <2> QED BY <2>1, NextScalar
  <1>3. u \in Seq(Units16) /\ u \in Seq(Int) /\ Len(u) \in 1 .. 2 /\ WellFormed(u) /\ ~Low(u[1])
    BY <1>2, Utf16Units
  <1> HIDE DEF c, u
  <1>4. o \o u \in Seq(Units16) /\ Len(o \o u) < size /\ Len(u) > 0
    BY <1>1, <1>3
  <1>5. WellFormed(o \o u)
    BY <1>3, <1>4, WellJoined
  <1>6. p + c.len \in Nat /\ p + c.len >= 1
    <2>1. \A l \in 1 .. 4 : p + l \in Nat /\ p + l >= 1
      OBVIOUS
    <2> QED BY <1>2, <2>1
  <1>7. Decoded(s, size, st)
    BY <1>1, <1>4, <1>5, <1>6 DEF Decoded
  <1>8. Adds(o, u, st.out)
    BY <1>1, <1>3, <1>4 DEF Adds
  <1> QED BY <1>7, <1>8 DEF c, u

(* Every state is such a one. *)
LEMMA DecodedAll ==
  ASSUME NEW s \in Seq(Bytes8), NEW size \in Nat, size > 0, NEW f, DecodesAlong(s, size, f)
  PROVE  \A i \in Nat : i <= Len(s) => Decoded(s, size, f[i])
  <1> DEFINE S == {i \in Nat : i <= Len(s) => Decoded(s, size, f[i])}
  <1>1. 0 \in S
    <2>1. <<>> \in Seq(Units16) /\ Len(<<>>) < size /\ 1 \in Nat /\ 1 >= 1
      OBVIOUS
    <2>4. WellFormed(<<>>)
      BY DEF WellFormed
    <2>2. f[0] = [at |-> 1, out |-> <<>>]
      BY DEF DecodesAlong, Begun
    <2>3. Decoded(s, size, f[0])
      BY <2>1, <2>2, <2>4, Zenon DEF Decoded
    <2> QED BY <2>3
  <1>2. ASSUME NEW i \in Nat, i \in S PROVE i + 1 \in S
    <2> SUFFICES ASSUME i + 1 <= Len(s) PROVE Decoded(s, size, f[i + 1])
      OBVIOUS
    <2>1. Decoded(s, size, f[i])
      BY <1>2
    <2> HIDE DEF S
    <2>2. PICK p \in Nat, o \in Seq(Units16) : f[i] = [at |-> p, out |-> o] /\ p >= 1 /\ WellFormed(o) /\ Len(o) < size
      BY <2>1 DEF Decoded
    <2>3. f[i + 1] = Decode(s, size, [at |-> p, out |-> o])
      BY <2>2 DEF DecodesAlong
    <2>4. DecodesOne(s, size, p, o, f[i + 1]) \/ DecodesNone(s, size, p, o, f[i + 1])
      BY <2>2, <2>3, UnitsInt, DecodeIs
    <2>5. CASE DecodesOne(s, size, p, o, f[i + 1])
      BY <2>2, <2>5, DecodesFits
    <2>6. CASE DecodesNone(s, size, p, o, f[i + 1])
      BY <2>1, <2>2, <2>6 DEF DecodesNone
    <2> QED BY <2>4, <2>5, <2>6
  <1> HIDE DEF S
  <1>3. \A i \in Nat : i \in S
    BY <1>1, <1>2, CountUp
  <1> QED BY <1>3 DEF S

(* A step from a state. *)
LEMMA DecodeStep ==
  ASSUME NEW s \in Seq(Bytes8), NEW size \in Nat, size > 0, NEW f, DecodesAlong(s, size, f),
         NEW i \in Nat, i + 1 <= Len(s)
  PROVE  \E p \in Nat : \E o \in Seq(Units16) :
           /\ f[i] = [at |-> p, out |-> o] /\ p >= 1 /\ WellFormed(o) /\ Len(o) < size
           /\ DecodesOne(s, size, p, o, f[i + 1]) \/ DecodesNone(s, size, p, o, f[i + 1])
  <1>1. PICK p \in Nat, o \in Seq(Units16) : f[i] = [at |-> p, out |-> o] /\ p >= 1 /\ WellFormed(o) /\ Len(o) < size
    <2>1. Decoded(s, size, f[i])
      BY DecodedAll
    <2> QED BY <2>1 DEF Decoded
  <1>2. f[i + 1] = Decode(s, size, [at |-> p, out |-> o])
    BY <1>1 DEF DecodesAlong
  <1>3. DecodesOne(s, size, p, o, f[i + 1]) \/ DecodesNone(s, size, p, o, f[i + 1])
    BY <1>1, <1>2, UnitsInt, DecodeIs
  <1> QED BY <1>1, <1>3

(* The scan goes on until it halts. *)
LEMMA DecodesGrow ==
  ASSUME NEW s \in Seq(Bytes8), NEW size \in Nat, size > 0, NEW f, DecodesAlong(s, size, f)
  PROVE  Grows(f, Len(s))
  <1>1. ASSUME NEW i \in Nat, i <= Len(s) PROVE f[i].out \in Seq(Int)
    <2>1. Decoded(s, size, f[i])
      BY <1>1, DecodedAll
    <2> QED BY <2>1, UnitsInt DEF Decoded
  <1>2. ASSUME NEW i \in Nat, i + 1 <= Len(s) PROVE Goes(f, i, Len(s))
    <2>1. PICK p \in Nat, o \in Seq(Units16) :
           /\ f[i] = [at |-> p, out |-> o] /\ p >= 1 /\ WellFormed(o)
           /\ DecodesOne(s, size, p, o, f[i + 1]) \/ DecodesNone(s, size, p, o, f[i + 1])
      BY <1>2, DecodeStep
    <2>2. CASE DecodesOne(s, size, p, o, f[i + 1])
      <3>1. Adds(f[i].out, Utf16(Utf8Next(s, p).cp), f[i + 1].out)
        BY <2>1, <2>2, DecodesFits
      <3> QED BY <3>1 DEF Goes
    <2>3. CASE DecodesNone(s, size, p, o, f[i + 1])
      <3>1. f[i + 1] = f[i]
        BY <2>1, <2>3 DEF DecodesNone
      <3>2. i + 2 <= Len(s) => f[i + 2] = f[i + 1]
        <4> SUFFICES ASSUME i + 2 <= Len(s) PROVE f[i + 2] = f[i + 1]
          OBVIOUS
        <4>1. i + 1 \in Nat /\ (i + 1) + 1 = i + 2
          OBVIOUS
        <4>2. f[i + 2] = Decode(s, size, f[i + 1]) /\ f[i + 1] = Decode(s, size, f[i])
          BY <4>1, <1>2 DEF DecodesAlong
        <4> QED BY <3>1, <4>2
      <3> QED BY <3>1, <3>2 DEF Goes
    <2> QED BY <2>1, <2>2, <2>3
  <1> QED BY <1>1, <1>2 DEF Grows

-----------------------------------------------------------------------------
(* What the conversions give, whatever they are given. *)

(* Bytes, which fit the buffer. *)
LEMMA EncodeGives ==
  ASSUME NEW s \in Seq(Units16), NEW size \in Nat, size > 0
  PROVE  WcharToUtf8(s, size) \in Seq(Bytes8) /\ Len(WcharToUtf8(s, size)) < size
  <1>1. PICK f : EncodesAlong(s, size, f) /\ WcharToUtf8(s, size) = f[Len(s)].out
    BY UnitsInt, EncodeScan
  <1>2. Encoded(s, size, f[Len(s)])
    BY <1>1, EncodedAll
  <1>3. PICK p \in 1 .. Len(s) + 1, o \in Seq(Bytes8) : f[Len(s)] = [at |-> p, out |-> o] /\ Len(o) < size
    BY <1>2 DEF Encoded
  <1> QED BY <1>1, <1>3

(* Valid UTF-16, which fits the buffer. *)
LEMMA DecodeGives ==
  ASSUME NEW s \in Seq(Bytes8), NEW size \in Nat, size > 0
  PROVE  /\ Utf8ToWchar(s, size) \in Seq(Units16) /\ Len(Utf8ToWchar(s, size)) < size
         /\ WellFormed(Utf8ToWchar(s, size))
  <1>1. PICK f : DecodesAlong(s, size, f) /\ Utf8ToWchar(s, size) = f[Len(s)].out
    BY BytesInt, DecodeScan
  <1>2. Decoded(s, size, f[Len(s)])
    BY <1>1, DecodedAll
  <1>3. PICK p \in Nat, o \in Seq(Units16) : f[Len(s)] = [at |-> p, out |-> o] /\ WellFormed(o) /\ Len(o) < size
    BY <1>2 DEF Decoded
  <1> QED BY <1>1, <1>3

-----------------------------------------------------------------------------
(* There and back: the decoder follows the encoder. *)

\* A state of the decoder at which it has read what the encoder had written at
\* one of its own.
Follows(s, f, st) ==
  \E j \in Nat : j <= Len(s) /\ st = [at |-> Len(f[j].out) + 1, out |-> SubSeq(Sound(s), 1, f[j].at - 1)]

(* What stands behind the same is the same. *)
LEMMA SameRest ==
  ASSUME NEW b \in Seq(Int), NEW y \in Seq(Int), NEW z \in Seq(Int), b \o y = b \o z
  PROVE  y = z
  <1>1. Len(b) + Len(y) = Len(b) + Len(z)
    OBVIOUS
  <1>2. Len(y) = Len(z)
    BY <1>1
  <1>3. \A i \in 1 .. Len(y) : y[i] = (b \o y)[Len(b) + i] /\ z[i] = (b \o z)[Len(b) + i]
    BY <1>2
  <1>4. \A i \in 1 .. Len(y) : y[i] = z[i]
    BY <1>3
  <1> QED BY <1>2, <1>4, SeqEqual

(* It reads a code point where one was written. *)
LEMMA FollowsOne ==
  ASSUME NEW s \in Seq(Units16), NEW size \in Nat, size > 0, NEW f, EncodesAlong(s, size, f),
         NEW w \in Seq(Bytes8), w = f[Len(s)].out, NEW st, NEW p, NEW o, NEW x,
         Follows(s, f, st), st = [at |-> p, out |-> o], DecodesOne(w, size, p, o, x)
  PROVE  Follows(s, f, x)
  <1>1. PICK j \in Nat : j <= Len(s) /\ st = [at |-> Len(f[j].out) + 1, out |-> SubSeq(Sound(s), 1, f[j].at - 1)]
    BY DEF Follows
  <1>2. p = Len(f[j].out) + 1 /\ o = SubSeq(Sound(s), 1, f[j].at - 1)
    BY <1>1
  <1>3. p <= Len(w) /\ x = [at |-> p + Utf8Next(w, p).len, out |-> o \o Utf16(Utf8Next(w, p).cp)]
    BY DEF DecodesOne
  <1>4. Grows(f, Len(s)) /\ Len(s) \in Nat
    BY EncodesGrow
  <1>5. f[j].out \in Seq(Int)
    BY <1>1, <1>4 DEF Grows
  <1>6. Len(f[j].out) < Len(f[Len(s)].out)
    <2>1. Len(f[j].out) + 1 <= Len(w)
      BY <1>2, <1>3, Zenon
    <2>2. Len(f[j].out) \in Nat /\ Len(w) \in Nat
      BY <1>5
    <2>3. Len(f[j].out) < Len(w)
      BY <2>1, <2>2
    <2> QED BY <2>3
  <1>7. j + 1 <= Len(s) /\ \E c : Adds(f[j].out, c, f[j + 1].out) /\ Sits(w, Len(f[j].out) + 1, c)
    BY <1>1, <1>4, <1>6, ScanOnward
  <1>8. PICK q \in 1 .. Len(s) + 1, b \in Seq(Bytes8) :
          /\ f[j] = [at |-> q, out |-> b] /\ WholeAt(s, q)
          /\ EncodesOne(s, size, q, b, f[j + 1]) \/ EncodesNone(s, size, q, b, f[j + 1])
    BY <1>7, EncodeStep
  <1>9. PICK c : Adds(b, c, f[j + 1].out) /\ Sits(w, Len(b) + 1, c)
    BY <1>7, <1>8
  <1>10. b \in Seq(Int)
    BY BytesInt
  <1>11. Len(f[j + 1].out) > Len(b) /\ Len(f[j + 1].out) = Len(b) + Len(c) /\ c \in Seq(Int)
    BY <1>9, <1>10, AddsLonger
  <1>12. EncodesOne(s, size, q, b, f[j + 1])
    <2> SUFFICES ASSUME EncodesNone(s, size, q, b, f[j + 1]) PROVE FALSE
      BY <1>8
    <2>1. f[j + 1].out = b
      BY DEF EncodesNone
    <2> QED BY <2>1, <1>10, <1>11
  <1>13. PICK n \in 1 .. 2, cp \in CodePoints :
          /\ q <= Len(s) /\ Taken(s, q, n, cp) /\ q + n <= Len(s) + 1
          /\ f[j + 1] = [at |-> q + n, out |-> b \o Utf8(cp)]
    BY <1>12 DEF EncodesOne
  <1>14. c = Utf8(cp)
    <2>1. Utf8(cp) \in Seq(Int)
      BY Utf8Bytes
    <2>2. f[j + 1].out = b \o c /\ f[j + 1].out = b \o Utf8(cp)
      <3>1. f[j + 1].out = b \o Utf8(cp)
        BY <1>13
      <3> QED BY <3>1, <1>9, Zenon DEF Adds
    <2>3. b \o c = b \o Utf8(cp)
      BY <2>2, Zenon
    <2> QED BY <1>10, <1>11, <2>1, <2>3, SameRest
  <1>15. p = Len(b) + 1 /\ p \in Nat /\ p >= 1
    BY <1>2, <1>8, <1>10
  <1>16. Utf8Next(w, p) = [cp |-> IF Surrogate(cp) THEN Replacement ELSE cp, len |-> Len(Utf8(cp))]
    BY <1>9, <1>14, <1>15, BytesInt, NextReads
  <1>17. p + Utf8Next(w, p).len = Len(f[j + 1].out) + 1
    <2>1. Utf8Next(w, p).len = Len(c)
      BY <1>14, <1>16
    <2> QED BY <2>1, <1>10, <1>11, <1>15
  <1>18. o \o Utf16(Utf8Next(w, p).cp) = SubSeq(Sound(s), 1, f[j + 1].at - 1)
    <2>1. q \in 1 .. Len(s)
      BY <1>13
    <2>2. SubSeq(Sound(s), 1, q - 1) \o Utf16(IF Surrogate(cp) THEN Replacement ELSE cp) = SubSeq(Sound(s), 1, q + n - 1)
      BY <1>8, <1>13, <2>1, TakenSound
    <2>3. o = SubSeq(Sound(s), 1, q - 1) /\ f[j + 1].at = q + n
      BY <1>2, <1>8, <1>13
    <2>4. Utf8Next(w, p).cp = IF Surrogate(cp) THEN Replacement ELSE cp
      BY <1>16
    <2>5. f[j + 1].at - 1 = q + n - 1
      BY <2>3
    <2>6. o \o Utf16(Utf8Next(w, p).cp) = SubSeq(Sound(s), 1, q - 1) \o Utf16(IF Surrogate(cp) THEN Replacement ELSE cp)
      BY <2>3, <2>4, Zenon
    <2> QED BY <2>2, <2>5, <2>6, Zenon
  <1>19. x = [at |-> Len(f[j + 1].out) + 1, out |-> SubSeq(Sound(s), 1, f[j + 1].at - 1)]
    BY <1>3, <1>17, <1>18, Zenon
  <1>20. j + 1 \in Nat
    OBVIOUS
  <1> QED BY <1>7, <1>19, <1>20, Zenon DEF Follows

(* So it does until it halts. *)
LEMMA FollowsAll ==
  ASSUME NEW s \in Seq(Units16), NEW size \in Nat, size > 0, NEW f, EncodesAlong(s, size, f),
         NEW w \in Seq(Bytes8), w = f[Len(s)].out, NEW g, DecodesAlong(w, size, g)
  PROVE  \A k \in Nat : k <= Len(w) => Follows(s, f, g[k])
  <1> DEFINE S == {k \in Nat : k <= Len(w) => Follows(s, f, g[k])}
  <1>1. 0 \in S
    <2>1. f[0] = [at |-> 1, out |-> <<>>] /\ g[0] = [at |-> 1, out |-> <<>>]
      BY DEF EncodesAlong, DecodesAlong, Begun
    <2>2. Len(f[0].out) + 1 = 1 /\ f[0].at - 1 = 0
      BY <2>1
    <2>3. SubSeq(Sound(s), 1, 0) = <<>>
      <3>1. \A t : SubSeq(t, 1, 0) = <<>>
        OBVIOUS
      <3> QED BY <3>1
    <2>4. g[0] = [at |-> Len(f[0].out) + 1, out |-> SubSeq(Sound(s), 1, f[0].at - 1)]
      BY <2>1, <2>2, <2>3
    <2>5. 0 <= Len(s)
      OBVIOUS
    <2> QED BY <2>4, <2>5 DEF Follows
  <1>2. ASSUME NEW k \in Nat, k \in S PROVE k + 1 \in S
    <2> SUFFICES ASSUME k + 1 <= Len(w) PROVE Follows(s, f, g[k + 1])
      OBVIOUS
    <2>1. Follows(s, f, g[k])
      BY <1>2
    <2> HIDE DEF S
    <2>2. PICK p \in Nat, o \in Seq(Units16) :
           /\ g[k] = [at |-> p, out |-> o]
           /\ DecodesOne(w, size, p, o, g[k + 1]) \/ DecodesNone(w, size, p, o, g[k + 1])
      BY DecodeStep
    <2>3. CASE DecodesOne(w, size, p, o, g[k + 1])
      BY <2>1, <2>2, <2>3, FollowsOne
    <2>4. CASE DecodesNone(w, size, p, o, g[k + 1])
      BY <2>1, <2>2, <2>4 DEF DecodesNone
    <2> QED BY <2>2, <2>3, <2>4
  <1> HIDE DEF S
  <1>3. \A k \in Nat : k \in S
    BY <1>1, <1>2, CountUp
  <1> QED BY <1>3 DEF S

(* A string comes back unchanged up to the cut, surrogates alone replaced. *)
LEMMA RoundTrip ==
  ASSUME NEW s \in Seq(Units16), NEW size \in Nat, size > 0
  PROVE  LET t == Utf8ToWchar(WcharToUtf8(s, size), size) IN t = Cut(Sound(s), Len(t))
  <1> DEFINE w == WcharToUtf8(s, size)
             t == Utf8ToWchar(w, size)
  <1>1. w \in Seq(Bytes8)
    BY EncodeGives
  <1>2. PICK f : EncodesAlong(s, size, f) /\ w = f[Len(s)].out
    BY UnitsInt, EncodeScan
  <1> HIDE DEF w
  <1>3. PICK g : DecodesAlong(w, size, g) /\ t = g[Len(w)].out
    BY <1>1, BytesInt, DecodeScan
  <1>4. Follows(s, f, g[Len(w)])
    <2>1. Len(w) \in Nat
      BY <1>1
    <2> QED BY <1>1, <1>2, <1>3, <2>1, FollowsAll
  <1>5. PICK j \in Nat : j <= Len(s) /\ g[Len(w)] = [at |-> Len(f[j].out) + 1, out |-> SubSeq(Sound(s), 1, f[j].at - 1)]
    BY <1>4 DEF Follows
  <1>6. Encoded(s, size, f[j])
    BY <1>2, <1>5, EncodedAll
  <1>7. PICK p \in 1 .. Len(s) + 1 : f[j].at = p
    BY <1>6 DEF Encoded
  <1>8. t = SubSeq(Sound(s), 1, p - 1)
    BY <1>3, <1>5, <1>7
  <1>9. Sound(s) \in Seq(Units16) /\ Len(Sound(s)) = Len(s)
    <2>1. Replacement \in Units16
      BY ReplacementIs
    <2> QED BY <2>1 DEF Sound
  <1>10. SubSeq(Sound(s), 1, p - 1) = Cut(Sound(s), p - 1) /\ Len(SubSeq(Sound(s), 1, p - 1)) = p - 1
    <2> DEFINE y == Sound(s)
    <2>1. y \in Seq(Units16) /\ p - 1 \in 0 .. Len(y)
      BY <1>9
    <2> HIDE DEF y
    <2>2. Len(SubSeq(y, 1, p - 1)) = p - 1
      BY <2>1
    <2>3. (IF Len(y) < p - 1 THEN Len(y) ELSE p - 1) = p - 1
      BY <2>1
    <2> QED BY <2>2, <2>3 DEF Cut, y
  <1>11. t = Cut(Sound(s), Len(t))
    BY <1>8, <1>10
  <1> QED BY <1>11 DEF w

-----------------------------------------------------------------------------
(* From UTF-8 and back: the encoder follows the decoder. *)

\* A character begins at p.
Begins8(w, p) ==
  \E cp : Scalar(cp) /\ Sits(w, p, Utf8(cp)) /\ At(w, p + Len(Utf8(cp))) \notin Cont

\* Valid UTF-8: a character begins at the first byte and behind every other.
Characters(w) ==
  /\ At(w, 1) \notin Cont
  /\ \A p \in 1 .. Len(w) : w[p] \notin Cont => Begins8(w, p)

(* No character is longer in UTF-16. *)
LEMMA UnitsShort ==
  ASSUME NEW cp, Scalar(cp)
  PROVE  Len(Utf16(cp)) <= Len(Utf8(cp)) /\ Len(Utf16(cp)) \in 1 .. 2 /\ Len(Utf8(cp)) \in 1 .. 4
  <1>1. cp \in CodePoints
    BY DEF Scalar
  <1>2. Len(Utf8(cp)) \in 1 .. 4 /\ Len(Utf16(cp)) \in 1 .. 2
    BY <1>1, Utf8Bytes, Utf16Units
  <1>3. CASE cp \in Points4
    <2>1. PICK x \in Lead4, y \in Cont, z \in Cont, v \in Cont : Utf8(cp) = <<x, y, z, v>>
      BY <1>3, Utf8Four
    <2>2. Len(Utf8(cp)) = 4
      BY <2>1
    <2>3. \A n \in 1 .. 2 : n <= 4
      OBVIOUS
    <2> QED BY <1>2, <2>2, <2>3, Zenon
  <1>4. CASE cp \notin Points4
    <2>1. Utf16(cp) = <<cp>>
      BY <1>1, <1>4, Utf16One
    <2>2. Len(Utf16(cp)) = 1
      BY <2>1
    <2> QED BY <1>2, <2>2
  <1> QED BY <1>3, <1>4

\* A state between two characters.
Between(w, i, st) ==
  \E p \in 1 .. Len(w) + 1 : \E o \in Seq(Units16) :
    /\ st = [at |-> p, out |-> o] /\ At(w, p) \notin Cont /\ Len(o) <= p - 1
    /\ p > i \/ p = Len(w) + 1

\* The next character.
OneMore(w, p, o, cp, st) ==
  /\ Scalar(cp) /\ Sits(w, p, Utf8(cp)) /\ At(w, p + Len(Utf8(cp))) \notin Cont /\ p + Len(Utf8(cp)) <= Len(w) + 1
  /\ st = [at |-> p + Len(Utf8(cp)), out |-> o \o Utf16(cp)]

(* If there is room, every step but the last takes one. *)
LEMMA CharacterStep ==
  ASSUME NEW w \in Seq(Bytes8), Characters(w), NEW size \in Nat, Len(w) < size,
         NEW p \in 1 .. Len(w), NEW o \in Seq(Units16), At(w, p) \notin Cont, Len(o) <= p - 1, NEW st,
         DecodesOne(w, size, p, o, st) \/ DecodesNone(w, size, p, o, st)
  PROVE  \E cp : OneMore(w, p, o, cp, st)
  <1>1. w[p] \notin Cont
    BY DEF At
  <1>2. PICK cp : Scalar(cp) /\ Sits(w, p, Utf8(cp)) /\ At(w, p + Len(Utf8(cp))) \notin Cont
    BY <1>1 DEF Characters, Begins8
  <1>3. cp \in CodePoints /\ ~Surrogate(cp)
    BY <1>2 DEF Scalar
  <1>4. Utf8Next(w, p) = [cp |-> cp, len |-> Len(Utf8(cp))]
    <2>1. p \in Nat /\ p >= 1 /\ w \in Seq(Int)
      BY BytesInt
    <2> QED BY <1>2, <1>3, <2>1, NextReads
  <1>5. PICK m \in 1 .. 4, n \in 1 .. 2 : m = Len(Utf8(cp)) /\ n = Len(Utf16(cp)) /\ n <= m
    BY <1>2, UnitsShort
  <1>6. p + m - 1 <= Len(w)
    <2>1. m \in 1 .. Len(Utf8(cp))
      BY <1>5
    <2> QED BY <1>2, <2>1 DEF Sits
  <1>7. Utf8Next(w, p).cp = cp /\ Utf8Next(w, p).len = m
    BY <1>4, <1>5
  <1>8. ~DecodesNone(w, size, p, o, st)
    <2>1. Len(o) \in Nat /\ Len(w) \in Nat /\ Len(o) + n < size /\ Len(o) + 1 < size /\ p <= Len(w)
      BY <1>5, <1>6
    <2>2. Len(Utf16(Utf8Next(w, p).cp)) = n
      BY <1>5, <1>7
    <2> QED BY <2>1, <2>2 DEF DecodesNone
  <1>9. st = [at |-> p + Len(Utf8(cp)), out |-> o \o Utf16(cp)]
    BY <1>5, <1>7, <1>8, Zenon DEF DecodesOne
  <1>10. p + Len(Utf8(cp)) <= Len(w) + 1
    BY <1>5, <1>6
  <1> QED BY <1>2, <1>9, <1>10 DEF OneMore

(* After which the state is again between two. *)
LEMMA OneMoreBetween ==
  ASSUME NEW w \in Seq(Bytes8), NEW i \in Nat, NEW p \in 1 .. Len(w), p > i, NEW o \in Seq(Units16), Len(o) <= p - 1,
         NEW cp, NEW st, OneMore(w, p, o, cp, st)
  PROVE  Between(w, i + 1, st)
  <1>1. Scalar(cp) /\ At(w, p + Len(Utf8(cp))) \notin Cont /\ p + Len(Utf8(cp)) <= Len(w) + 1
        /\ st = [at |-> p + Len(Utf8(cp)), out |-> o \o Utf16(cp)]
    BY DEF OneMore
  <1>2. PICK m \in 1 .. 4, n \in 1 .. 2 : m = Len(Utf8(cp)) /\ n = Len(Utf16(cp)) /\ n <= m
    BY <1>1, UnitsShort
  <1>3. Utf16(cp) \in Seq(Units16)
    BY <1>1, Utf16Units
  <1>4. o \o Utf16(cp) \in Seq(Units16) /\ Len(o \o Utf16(cp)) = Len(o) + n
    <2>1. \A u \in Seq(Units16) : o \o u \in Seq(Units16) /\ Len(o \o u) = Len(o) + Len(u)
      OBVIOUS
    <2>2. Len(o \o Utf16(cp)) = Len(o) + Len(Utf16(cp))
      BY <1>3, <2>1
    <2> QED BY <1>2, <1>3, <2>1, <2>2
  <1>5. p + m \in 1 .. Len(w) + 1 /\ Len(o) + n <= p + m - 1 /\ p + m > i + 1
    <2>1. p + m <= Len(w) + 1 /\ Len(o) \in Nat
      BY <1>1, <1>2
    <2> QED BY <2>1, <1>2
  <1>6. st = [at |-> p + m, out |-> o \o Utf16(cp)] /\ At(w, p + m) \notin Cont /\ Len(o \o Utf16(cp)) <= p + m - 1
    BY <1>1, <1>2, <1>4, <1>5
  <1>7. PICK P \in 1 .. Len(w) + 1, O \in Seq(Units16) : P = p + m /\ O = o \o Utf16(cp)
    BY <1>4, <1>5
  <1>8. st = [at |-> P, out |-> O] /\ At(w, P) \notin Cont /\ Len(O) <= P - 1 /\ P > i + 1
    <2>1. P \in Nat /\ Len(o \o Utf16(cp)) <= P - 1 /\ P > i + 1
      BY <1>5, <1>6, <1>7
    <2> QED BY <1>6, <1>7, <2>1, Zenon
  <1> QED BY <1>8, Zenon DEF Between

(* All states are between characters, and the last is behind all of them. *)
LEMMA BetweenAll ==
  ASSUME NEW w \in Seq(Bytes8), Characters(w), NEW size \in Nat, Len(w) < size, NEW g, DecodesAlong(w, size, g)
  PROVE  \A i \in Nat : i <= Len(w) => Between(w, i, g[i])
  <1> DEFINE S == {i \in Nat : i <= Len(w) => Between(w, i, g[i])}
  <1>1. 0 \in S
    <2>1. g[0] = [at |-> 1, out |-> <<>>]
      BY DEF DecodesAlong, Begun
    <2>2. <<>> \in Seq(Units16) /\ Len(<<>>) <= 1 - 1 /\ 1 \in 1 .. Len(w) + 1 /\ 1 > 0
      OBVIOUS
    <2>3. At(w, 1) \notin Cont
      BY DEF Characters
    <2>4. Between(w, 0, g[0])
      BY <2>1, <2>2, <2>3, Zenon DEF Between
    <2> QED BY <2>4
  <1>2. ASSUME NEW i \in Nat, i \in S PROVE i + 1 \in S
    <2> SUFFICES ASSUME i + 1 <= Len(w) PROVE Between(w, i + 1, g[i + 1])
      OBVIOUS
    <2>1. Between(w, i, g[i])
      BY <1>2
    <2> HIDE DEF S
    <2>2. PICK p \in 1 .. Len(w) + 1, o \in Seq(Units16) :
            /\ g[i] = [at |-> p, out |-> o] /\ At(w, p) \notin Cont /\ Len(o) <= p - 1
            /\ p > i \/ p = Len(w) + 1
      BY <2>1 DEF Between
    <2>3. g[i + 1] = Decode(w, size, [at |-> p, out |-> o])
      BY <2>2 DEF DecodesAlong
    <2>4. DecodesOne(w, size, p, o, g[i + 1]) \/ DecodesNone(w, size, p, o, g[i + 1])
      <3>1. p \in Nat /\ p >= 1
        OBVIOUS
      <3> QED BY <2>3, <3>1, UnitsInt, DecodeIs
    <2>5. CASE p = Len(w) + 1
      <3>1. g[i + 1] = [at |-> p, out |-> o]
        <4>1. ~(p <= Len(w))
          BY <2>5
        <4> QED BY <2>4, <4>1 DEF DecodesOne, DecodesNone
      <3> QED BY <2>2, <2>5, <3>1, Zenon DEF Between
    <2>6. CASE p # Len(w) + 1
      <3>1. p \in 1 .. Len(w) /\ p > i
        BY <2>2, <2>6
      <3>2. PICK cp : OneMore(w, p, o, cp, g[i + 1])
        BY <2>2, <2>4, <3>1, CharacterStep
      <3> QED BY <2>2, <3>1, <3>2, OneMoreBetween
    <2> QED BY <2>5, <2>6
  <1> HIDE DEF S
  <1>3. \A i \in Nat : i \in S
    BY <1>1, <1>2, CountUp
  <1> QED BY <1>3 DEF S

(* The units of one character are encoded as it was. *)
LEMMA TakenBack ==
  ASSUME NEW x \in Seq(Units16), NEW q \in 1 .. Len(x), NEW cp, Scalar(cp), Sits(x, q, Utf16(cp)),
         NEW n \in 1 .. 2, NEW cq, Taken(x, q, n, cq)
  PROVE  n = Len(Utf16(cp)) /\ cq = cp
  <1>1. cp \in CodePoints /\ ~High(cp) /\ ~Low(cp)
    BY DEF Scalar, Surrogate
  <1>2. CASE cp \in Points4
    <2>1. PICK u \in Units16, v \in Units16 : Utf16(cp) = <<u, v>> /\ High(u) /\ Low(v) /\ Pair(u, v) = cp
      BY <1>2, Utf16Two
    <2>2. Len(<<u, v>>) = 2 /\ <<u, v>>[1] = u /\ <<u, v>>[2] = v /\ 1 \in 1 .. 2 /\ 2 \in 1 .. 2
      OBVIOUS
    <2>3. x[q + 1 - 1] = u /\ x[q + 2 - 1] = v /\ q + 2 - 1 <= Len(x)
      BY <2>1, <2>2, Zenon DEF Sits
    <2>4. x[q] = u /\ x[q + 1] = v /\ q + 1 \in 1 .. Len(x)
      BY <2>3
    <2>5. At(x, q + 1) = v
      BY <2>4 DEF At
    <2> HIDE DEF High, Low, Pair
    <2>6. n = 2 /\ cq = Pair(u, v)
      BY <2>1, <2>4, <2>5 DEF Taken
    <2> QED BY <2>1, <2>2, <2>6
  <1>3. CASE cp \notin Points4
    <2>1. Utf16(cp) = <<cp>>
      BY <1>1, <1>3, Utf16One
    <2>2. Len(<<cp>>) = 1 /\ <<cp>>[1] = cp /\ 1 \in 1 .. 1
      OBVIOUS
    <2>3. x[q + 1 - 1] = cp
      BY <2>1, <2>2, Zenon DEF Sits
    <2>4. x[q] = cp
      BY <2>3
    <2> HIDE DEF High, Low, Pair
    <2>5. n = 1 /\ cq = cp
      BY <1>1, <2>4 DEF Taken
    <2> QED BY <2>1, <2>2, <2>5
  <1> QED BY <1>2, <1>3

(* A beginning and what stands behind it. *)
LEMMA SitsJoin ==
  ASSUME NEW w \in Seq(Int), NEW u \in Seq(Int), NEW p \in 1 .. Len(w), Sits(w, p, u), p + Len(u) <= Len(w) + 1
  PROVE  SubSeq(w, 1, p - 1) \o u = SubSeq(w, 1, p + Len(u) - 1)
  <1> DEFINE h == SubSeq(w, 1, p - 1)
             c == SubSeq(w, 1, p + Len(u) - 1)
  <1>1. h \in Seq(Int) /\ Len(h) = p - 1 /\ \A i \in 1 .. p - 1 : h[i] = w[i]
    OBVIOUS
  <1>2. c \in Seq(Int) /\ Len(c) = p + Len(u) - 1 /\ \A i \in 1 .. p + Len(u) - 1 : c[i] = w[i]
    <2>1. Len(u) \in Nat /\ p + Len(u) - 1 \in 0 .. Len(w)
      OBVIOUS
    <2> QED BY <2>1
  <1> HIDE DEF h, c
  <1>3. h \o u \in Seq(Int) /\ Len(h \o u) = p + Len(u) - 1
    <2>1. h \o u \in Seq(Int) /\ Len(h \o u) = Len(h) + Len(u)
      BY <1>1, SitsParts
    <2>2. Len(u) \in Nat
      OBVIOUS
    <2> QED BY <1>1, <2>1, <2>2
  <1>4. ASSUME NEW i \in 1 .. Len(c) PROVE (h \o u)[i] = c[i]
    <2>1. i \in 1 .. p + Len(u) - 1
      BY <1>2
    <2>2. CASE i <= p - 1
      <3>1. (h \o u)[i] = h[i]
        BY <1>1, <2>1, <2>2
      <3>2. h[i] = w[i]
        BY <1>1, <2>1, <2>2
      <3> QED BY <1>2, <2>1, <3>1, <3>2
    <2>3. CASE i > p - 1
      <3>1. i - (p - 1) \in 1 .. Len(u)
        BY <2>1, <2>3
      <3>2. (h \o u)[i] = u[i - (p - 1)]
        <4>1. Sits(h \o u, Len(h) + 1, u)
          BY <1>1, SitsParts
        <4>2. (h \o u)[Len(h) + 1 + (i - (p - 1)) - 1] = u[i - (p - 1)]
          BY <3>1, <4>1, Zenon DEF Sits
        <4>3. Len(h) + 1 + (i - (p - 1)) - 1 = i
          BY <1>1, <2>1
        <4> QED BY <4>2, <4>3
      <3>3. w[p + (i - (p - 1)) - 1] = u[i - (p - 1)]
        BY <3>1 DEF Sits
      <3>4. p + (i - (p - 1)) - 1 = i
        BY <2>1
      <3> QED BY <1>2, <2>1, <3>2, <3>3, <3>4
    <2>4. i <= p - 1 \/ i > p - 1
      BY <2>1
    <2> QED BY <2>2, <2>3, <2>4
  <1>5. h \o u = c
    BY <1>2, <1>3, <1>4, SeqEqual
  <1> QED BY <1>5 DEF h, c

\* A state of the encoder at which it has read what the decoder had written at
\* one of its own.
Remade(w, g, st) ==
  \E k \in Nat : k <= Len(w) /\ st = [at |-> Len(g[k].out) + 1, out |-> SubSeq(w, 1, g[k].at - 1)]

(* It encodes the character that was decoded. *)
LEMMA RemadeOne ==
  ASSUME NEW w \in Seq(Bytes8), Characters(w), NEW size \in Nat, Len(w) < size, NEW g, DecodesAlong(w, size, g),
         NEW x \in Seq(Units16), x = g[Len(w)].out, NEW st, NEW q, NEW o, NEW y,
         Remade(w, g, st), st = [at |-> q, out |-> o], EncodesOne(x, size, q, o, y)
  PROVE  Remade(w, g, y)
  <1>1. PICK k \in Nat : k <= Len(w) /\ st = [at |-> Len(g[k].out) + 1, out |-> SubSeq(w, 1, g[k].at - 1)]
    BY DEF Remade
  <1>2. q = Len(g[k].out) + 1 /\ o = SubSeq(w, 1, g[k].at - 1)
    BY <1>1
  <1>3. PICK n \in 1 .. 2, cq \in CodePoints :
          q <= Len(x) /\ Taken(x, q, n, cq) /\ y = [at |-> q + n, out |-> o \o Utf8(cq)]
    BY DEF EncodesOne
  <1>4. size > 0 /\ Grows(g, Len(w)) /\ Len(w) \in Nat
    <2>1. Len(w) \in Nat
      OBVIOUS
    <2>2. size > 0
      BY <2>1
    <2> QED BY <2>1, <2>2, DecodesGrow
  <1>5. PICK p \in 1 .. Len(w) + 1, b \in Seq(Units16) :
          g[k] = [at |-> p, out |-> b] /\ At(w, p) \notin Cont /\ Len(b) <= p - 1
    <2>1. Between(w, k, g[k])
      BY <1>1, BetweenAll
    <2> QED BY <2>1, Zenon DEF Between
  <1>6. b \in Seq(Int) /\ q = Len(b) + 1 /\ o = SubSeq(w, 1, p - 1) /\ q \in 1 .. Len(x)
    <2>1. b \in Seq(Int)
      BY UnitsInt
    <2>2. q = Len(b) + 1 /\ o = SubSeq(w, 1, p - 1)
      BY <1>2, <1>5
    <2> QED BY <1>3, <2>1, <2>2
  <1>7. Len(g[k].out) < Len(g[Len(w)].out)
    <2>1. Len(b) < Len(x)
      BY <1>6
    <2> QED BY <1>5, <2>1
  <1>8. k + 1 <= Len(w) /\ \E c : Adds(g[k].out, c, g[k + 1].out) /\ Sits(x, Len(g[k].out) + 1, c)
    BY <1>1, <1>4, <1>7, ScanOnward
  <1>9. PICK c : Adds(b, c, g[k + 1].out) /\ Sits(x, q, c)
    <2>1. PICK c : Adds(g[k].out, c, g[k + 1].out) /\ Sits(x, Len(g[k].out) + 1, c)
      BY <1>8
    <2>2. g[k].out = b
      BY <1>5
    <2> QED BY <2>1, <2>2, <1>6, Zenon
  <1>10. Len(g[k + 1].out) > Len(b) /\ Len(g[k + 1].out) = Len(b) + Len(c) /\ c \in Seq(Int)
    BY <1>6, <1>9, AddsLonger
  <1>11. DecodesOne(w, size, p, b, g[k + 1]) \/ DecodesNone(w, size, p, b, g[k + 1])
    <2>1. g[k + 1] = Decode(w, size, [at |-> p, out |-> b])
      BY <1>5, <1>8 DEF DecodesAlong
    <2>2. p \in Nat /\ p >= 1
      OBVIOUS
    <2> QED BY <1>6, <2>1, <2>2, DecodeIs
  <1>12. DecodesOne(w, size, p, b, g[k + 1])
    <2> SUFFICES ASSUME DecodesNone(w, size, p, b, g[k + 1]) PROVE FALSE
      BY <1>11
    <2>1. g[k + 1].out = b
      BY DEF DecodesNone
    <2> QED BY <2>1, <1>6, <1>10
  <1>13. p \in 1 .. Len(w)
    <2>1. p <= Len(w)
      BY <1>12 DEF DecodesOne
    <2> QED BY <2>1
  <1>14. PICK cp : OneMore(w, p, b, cp, g[k + 1])
    BY <1>5, <1>11, <1>13, CharacterStep
  <1>15. /\ Scalar(cp) /\ Sits(w, p, Utf8(cp)) /\ p + Len(Utf8(cp)) <= Len(w) + 1
         /\ g[k + 1] = [at |-> p + Len(Utf8(cp)), out |-> b \o Utf16(cp)]
    BY <1>14 DEF OneMore
  <1>16. c = Utf16(cp)
    <2>1. Utf16(cp) \in Seq(Int)
      BY <1>15, Utf16Units
    <2>2. g[k + 1].out = b \o Utf16(cp)
      BY <1>15
    <2>3. b \o c = b \o Utf16(cp)
      BY <1>9, <2>2, Zenon DEF Adds
    <2> QED BY <1>6, <1>10, <2>1, <2>3, SameRest
  <1>17. n = Len(c) /\ cq = cp
    BY <1>3, <1>6, <1>9, <1>15, <1>16, TakenBack
  <1>18. q + n = Len(g[k + 1].out) + 1
    BY <1>6, <1>10, <1>17
  <1>19. o \o Utf8(cq) = SubSeq(w, 1, g[k + 1].at - 1)
    <2>1. Utf8(cp) \in Seq(Int) /\ w \in Seq(Int)
      BY <1>15, Utf8Bytes, BytesInt DEF Scalar
    <2>2. SubSeq(w, 1, p - 1) \o Utf8(cp) = SubSeq(w, 1, p + Len(Utf8(cp)) - 1)
      BY <1>13, <1>15, <2>1, SitsJoin
    <2>3. g[k + 1].at - 1 = p + Len(Utf8(cp)) - 1
      BY <1>15
    <2>4. o \o Utf8(cq) = SubSeq(w, 1, p - 1) \o Utf8(cp)
      BY <1>6, <1>17, Zenon
    <2> QED BY <2>2, <2>3, <2>4, Zenon
  <1>20. y = [at |-> Len(g[k + 1].out) + 1, out |-> SubSeq(w, 1, g[k + 1].at - 1)]
    BY <1>3, <1>18, <1>19
  <1>21. k + 1 \in Nat
    OBVIOUS
  <1> QED BY <1>8, <1>20, <1>21, Zenon DEF Remade

(* So it does until all is encoded. *)
LEMMA RemadeAll ==
  ASSUME NEW w \in Seq(Bytes8), Characters(w), NEW size \in Nat, Len(w) + 4 < size, NEW g, DecodesAlong(w, size, g),
         NEW x \in Seq(Units16), x = g[Len(w)].out, NEW f, EncodesAlong(x, size, f)
  PROVE  \A i \in Nat : i <= Len(x) => Remade(w, g, f[i]) /\ (f[i].at > i \/ f[i].at = Len(x) + 1)
  <1> DEFINE S == {i \in Nat : i <= Len(x) => Remade(w, g, f[i]) /\ (f[i].at > i \/ f[i].at = Len(x) + 1)}
  <1>0. size > 0 /\ Len(w) < size /\ Len(w) \in Nat
    OBVIOUS
  <1>1. 0 \in S
    <2>1. f[0] = [at |-> 1, out |-> <<>>] /\ g[0] = [at |-> 1, out |-> <<>>]
      BY DEF EncodesAlong, DecodesAlong, Begun
    <2>2. Len(g[0].out) + 1 = 1 /\ g[0].at - 1 = 0 /\ f[0].at > 0
      BY <2>1
    <2>3. SubSeq(w, 1, 0) = <<>>
      OBVIOUS
    <2>4. f[0] = [at |-> Len(g[0].out) + 1, out |-> SubSeq(w, 1, g[0].at - 1)]
      BY <2>1, <2>2, <2>3
    <2>5. 0 <= Len(w)
      OBVIOUS
    <2>6. Remade(w, g, f[0])
      BY <2>4, <2>5 DEF Remade
    <2> QED BY <2>2, <2>6
  <1>2. ASSUME NEW i \in Nat, i \in S PROVE i + 1 \in S
    <2> SUFFICES ASSUME i + 1 <= Len(x)
                 PROVE  Remade(w, g, f[i + 1]) /\ (f[i + 1].at > i + 1 \/ f[i + 1].at = Len(x) + 1)
      OBVIOUS
    <2>1. Remade(w, g, f[i]) /\ (f[i].at > i \/ f[i].at = Len(x) + 1)
      BY <1>2
    <2> HIDE DEF S
    <2>2. PICK q \in 1 .. Len(x) + 1, o \in Seq(Bytes8) :
            /\ f[i] = [at |-> q, out |-> o]
            /\ EncodesOne(x, size, q, o, f[i + 1]) \/ EncodesNone(x, size, q, o, f[i + 1])
      BY <1>0, EncodeStep
    <2>3. q > i \/ q = Len(x) + 1
      BY <2>1, <2>2
    <2>4. CASE EncodesOne(x, size, q, o, f[i + 1])
      <3>1. Remade(w, g, f[i + 1])
        BY <1>0, <2>1, <2>2, <2>4, RemadeOne
      <3>2. PICK n \in 1 .. 2 : q <= Len(x) /\ f[i + 1].at = q + n
        BY <2>4 DEF EncodesOne
      <3>3. q + n > i + 1
        BY <2>3, <3>2
      <3> QED BY <3>1, <3>2, <3>3
    <2>5. CASE EncodesNone(x, size, q, o, f[i + 1])
      <3>1. f[i + 1] = f[i] /\ (q > Len(x) \/ Len(o) + 4 >= size)
        BY <2>2, <2>5 DEF EncodesNone
      <3>2. Len(o) <= Len(w)
        <4>1. PICK k \in Nat : k <= Len(w) /\ f[i] = [at |-> Len(g[k].out) + 1, out |-> SubSeq(w, 1, g[k].at - 1)]
          BY <2>1 DEF Remade
        <4>2. PICK p \in 1 .. Len(w) + 1 : g[k].at = p
          <5>1. Between(w, k, g[k])
            BY <1>0, <4>1, BetweenAll
          <5> QED BY <5>1 DEF Between
        <4>3. o = SubSeq(w, 1, p - 1)
          BY <2>2, <4>1, <4>2
        <4> QED BY <4>3
      <3>3. q = Len(x) + 1
        <4>1. Len(o) \in Nat /\ Len(w) \in Nat /\ Len(x) \in Nat
          OBVIOUS
        <4>2. ~(Len(o) + 4 >= size)
          BY <3>2, <4>1
        <4>3. q > Len(x)
          BY <3>1, <4>2
        <4>4. \A l \in Nat : \A r \in 1 .. l + 1 : r > l => r = l + 1
          OBVIOUS
        <4> QED BY <4>1, <4>3, <4>4
      <3> QED BY <2>1, <2>2, <3>1, <3>3
    <2> QED BY <2>2, <2>4, <2>5
  <1> HIDE DEF S
  <1>3. \A i \in Nat : i \in S
    BY <1>1, <1>2, CountUp
  <1> QED BY <1>3 DEF S

(* A string of whole characters comes back as it was. *)
LEMMA CharactersSurvive ==
  ASSUME NEW w \in Seq(Bytes8), Characters(w), NEW size \in Nat, Len(w) + 4 < size
  PROVE  WcharToUtf8(Utf8ToWchar(w, size), size) = w
  <1> DEFINE x == Utf8ToWchar(w, size)
  <1>0. size > 0 /\ Len(w) < size /\ Len(w) \in Nat
    OBVIOUS
  <1>1. x \in Seq(Units16)
    BY <1>0, DecodeGives
  <1>2. PICK g : DecodesAlong(w, size, g) /\ x = g[Len(w)].out
    BY BytesInt, DecodeScan
  <1> HIDE DEF x
  <1>3. PICK f : EncodesAlong(x, size, f) /\ WcharToUtf8(x, size) = f[Len(x)].out
    BY <1>1, UnitsInt, EncodeScan
  <1>4. Len(x) \in Nat
    BY <1>1
  <1>5. Remade(w, g, f[Len(x)]) /\ (f[Len(x)].at > Len(x) \/ f[Len(x)].at = Len(x) + 1)
    BY <1>1, <1>2, <1>3, <1>4, RemadeAll
  <1>6. PICK k \in Nat : k <= Len(w) /\ f[Len(x)] = [at |-> Len(g[k].out) + 1, out |-> SubSeq(w, 1, g[k].at - 1)]
    BY <1>5 DEF Remade
  <1>7. PICK p \in 1 .. Len(w) + 1, b \in Seq(Units16) :
          /\ g[k] = [at |-> p, out |-> b] /\ At(w, p) \notin Cont /\ Len(b) <= p - 1
          /\ p > k \/ p = Len(w) + 1
    <2>1. Between(w, k, g[k])
      BY <1>0, <1>2, <1>6, BetweenAll
    <2> QED BY <2>1, Zenon DEF Between
  <1>8. f[Len(x)] = [at |-> Len(b) + 1, out |-> SubSeq(w, 1, p - 1)]
    BY <1>6, <1>7
  <1>9. Len(b) >= Len(x)
    <2>1. f[Len(x)].at = Len(b) + 1
      BY <1>8
    <2> QED BY <2>1, <1>4, <1>5
  <1>10. p = Len(w) + 1
    <2> SUFFICES ASSUME p # Len(w) + 1 PROVE FALSE
      OBVIOUS
    <2>1. p \in 1 .. Len(w) /\ k + 1 <= Len(w)
      BY <1>7
    <2>2. g[k + 1] = Decode(w, size, [at |-> p, out |-> b])
      BY <1>2, <1>7, <2>1 DEF DecodesAlong
    <2>3. DecodesOne(w, size, p, b, g[k + 1]) \/ DecodesNone(w, size, p, b, g[k + 1])
      <3>1. p \in Nat /\ p >= 1
        OBVIOUS
      <3> QED BY <2>2, <3>1, UnitsInt, DecodeIs
    <2>4. PICK cp : OneMore(w, p, b, cp, g[k + 1])
      BY <1>0, <1>7, <2>1, <2>3, CharacterStep
    <2>5. Scalar(cp) /\ g[k + 1].out = b \o Utf16(cp)
      BY <2>4 DEF OneMore
    <2>6. Utf16(cp) \in Seq(Int) /\ Len(Utf16(cp)) \in 1 .. 2 /\ b \in Seq(Int)
      BY <2>5, Utf16Units, UnitsInt
    <2>7. Len(g[k + 1].out) > Len(b) /\ g[k + 1].out \in Seq(Int)
      <3> DEFINE u == Utf16(cp)
      <3>1. u \in Seq(Int) /\ Len(u) \in 1 .. 2
        BY <2>6
      <3> HIDE DEF u
      <3>2. Len(b \o u) > Len(b) /\ b \o u \in Seq(Int)
        <4>1. Len(b \o u) = Len(b) + Len(u) /\ b \o u \in Seq(Int)
          BY <2>6, <3>1, SitsParts
        <4>2. PICK m \in 1 .. 2 : Len(u) = m
          BY <3>1
        <4>3. Len(b) \in Nat
          BY <2>6
        <4>4. Len(b) + m > Len(b)
          BY <4>3
        <4> QED BY <4>1, <4>2, <4>4
      <3> QED BY <2>5, <3>2 DEF u
    <2>8. Grows(g, Len(w))
      BY <1>0, <1>2, DecodesGrow
    <2>9. Sits(g[Len(w)].out, 1, g[k + 1].out)
      <3>1. k + 1 \in Nat /\ Len(w) \in Nat
        OBVIOUS
      <3> QED BY <2>1, <2>8, <3>1, StaysWritten
    <2>10. Len(g[k + 1].out) <= Len(x)
      <3>1. x \in Seq(Int)
        BY <1>1, UnitsInt
      <3> QED BY <1>2, <2>7, <2>9, <3>1, SitsShort
    <2> QED BY <1>4, <1>9, <2>7, <2>10
  <1>11. SubSeq(w, 1, p - 1) = w
    <2>1. p - 1 = Len(w)
      BY <1>10
    <2>2. SubSeq(w, 1, Len(w)) = w
      OBVIOUS
    <2> QED BY <2>1, <2>2
  <1>12. f[Len(x)].out = w
    BY <1>8, <1>11
  <1> QED BY <1>3, <1>12 DEF x

-----------------------------------------------------------------------------
(* Paths. *)

\* w is what posix_to_win_path makes of p.
Written(p, w) ==
  /\ w \in Seq(Bytes8) /\ Len(w) = Len(p) + 2 /\ w[1] = 67 /\ w[2] = Colon
  /\ \A i \in 1 .. Len(p) : w[i + 2] = IF p[i] = SlashCh THEN Backslash ELSE p[i]

(* One string behind another. *)
LEMMA Joined ==
  ASSUME NEW y \in Seq(Bytes8), NEW z \in Seq(Bytes8)
  PROVE  /\ y \o z \in Seq(Bytes8) /\ Len(y \o z) = Len(y) + Len(z)
         /\ \A i \in 1 .. Len(y) : (y \o z)[i] = y[i]
         /\ \A i \in 1 .. Len(z) : (y \o z)[i + Len(y)] = z[i]
  OBVIOUS

(* If there is room for it. *)
LEMMA PathWritten ==
  ASSUME NEW p \in Seq(Bytes8), At(p, 1) = SlashCh, NEW size \in Nat, Len(p) + 2 < size
  PROVE  Written(p, PosixToWinPath(p, size))
  <1> DEFINE m == Mapped(p, SlashCh, Backslash)
             d == <<67, Colon>>
             w == d \o m
  <1>1. m \in Seq(Bytes8) /\ Len(m) = Len(p) /\ \A i \in 1 .. Len(p) : m[i] = IF p[i] = SlashCh THEN Backslash ELSE p[i]
    <2>1. Backslash \in Bytes8
      BY SMT DEF Backslash, Bytes8
    <2>2. \A i \in 1 .. Len(p) : p[i] \in Bytes8
      OBVIOUS
    <2> QED BY <2>1, <2>2 DEF Mapped
  <1>2. d \in Seq(Bytes8) /\ Len(d) = 2 /\ d[1] = 67 /\ d[2] = Colon
    <2>1. 67 \in Bytes8 /\ Colon \in Bytes8
      BY SMT DEF Colon, Bytes8
    <2> QED BY <2>1
  <1> HIDE DEF m, d
  <1>0. /\ w \in Seq(Bytes8) /\ Len(w) = Len(d) + Len(m)
        /\ \A i \in 1 .. Len(d) : w[i] = d[i]
        /\ \A i \in 1 .. Len(m) : w[i + Len(d)] = m[i]
    BY <1>1, <1>2, Joined
  <1> HIDE DEF w
  <1>3. w \in Seq(Bytes8) /\ Len(w) = Len(p) + 2
    BY <1>0, <1>1, <1>2
  <1>4. w[1] = 67 /\ w[2] = Colon
    BY <1>0, <1>2
  <1>5. \A i \in 1 .. Len(p) : w[i + 2] = m[i]
    BY <1>0, <1>1, <1>2
  <1>6. Cut(w, size - 1) = w
    <2>1. ~(Len(w) >= size)
      BY <1>3
    <2>2. (IF Len(w) < size - 1 THEN Len(w) ELSE size - 1) = Len(w)
      BY <1>3
    <2>3. SubSeq(w, 1, Len(w)) = w
      BY <1>3
    <2> QED BY <2>2, <2>3 DEF Cut
  <1>7. PosixToWinPath(p, size) = w
    BY <1>6 DEF PosixToWinPath, w, d, m
  <1> QED BY <1>1, <1>3, <1>4, <1>5, <1>7 DEF Written

(* win_path_to_posix takes it back, if no backslash was in it. *)
LEMMA PathRead ==
  ASSUME NEW p \in Seq(Bytes8), At(p, 1) = SlashCh, \A i \in 1 .. Len(p) : p[i] # Backslash,
         NEW w, Written(p, w), NEW size \in Nat, Len(p) + 2 < size
  PROVE  WinPathToPosix(w, size) = p
  <1> DEFINE r == Skip(w, 2)
             m == Mapped(r, Backslash, SlashCh)
  <1>1. w \in Seq(Bytes8) /\ Len(w) = Len(p) + 2 /\ Len(p) \in Nat
    BY DEF Written
  <1>2. At(w, 1) = 67 /\ At(w, 2) = Colon
    BY <1>1 DEF Written, At
  <1>3. ~Device(w) /\ Drive(w)
    BY <1>2, SMT DEF Device, Drive, LetterCh, Backslash
  <1>4. r \in Seq(Bytes8) /\ Len(r) = Len(p) /\ \A i \in 1 .. Len(p) : r[i] = w[i + 2]
    <2>1. r = SubSeq(w, 3, Len(w))
      BY DEF Skip
    <2>2. SubSeq(w, 3, Len(w)) \in Seq(Bytes8) /\ Len(SubSeq(w, 3, Len(w))) = Len(w) - 2
      BY <1>1
    <2>3. \A i \in 1 .. Len(w) - 2 : SubSeq(w, 3, Len(w))[i] = w[i + 2]
      BY <1>1
    <2> HIDE DEF r
    <2>4. Len(w) - 2 = Len(p)
      BY <1>1
    <2>5. r \in Seq(Bytes8) /\ Len(r) = Len(p)
      BY <2>1, <2>2, <2>4
    <2>6. \A i \in 1 .. Len(p) : r[i] = w[i + 2]
      BY <2>1, <2>3, <2>4
    <2> QED BY <2>5, <2>6
  <1>5. m = p
    <2>1. \A i \in 1 .. Len(p) : r[i] = IF p[i] = SlashCh THEN Backslash ELSE p[i]
      BY <1>4 DEF Written
    <2>2. \A i \in 1 .. Len(p) : (IF r[i] = Backslash THEN SlashCh ELSE r[i]) = p[i]
      BY <2>1
    <2> HIDE DEF r
    <2>3. Len(m) = Len(p) /\ \A i \in 1 .. Len(p) : m[i] = p[i]
      BY <1>4, <2>2 DEF Mapped
    <2>4. m \in Seq(Bytes8)
      <3>1. SlashCh \in Bytes8
        BY SMT DEF SlashCh, Bytes8
      <3> QED BY <1>4, <3>1 DEF Mapped
    <2> HIDE DEF m
    <2> QED BY <2>3, <2>4, SeqEqual
  <1>6. Cut(p, size - 1) = p
    <2>1. (IF Len(p) < size - 1 THEN Len(p) ELSE size - 1) = Len(p)
      BY <1>1
    <2>2. SubSeq(p, 1, Len(p)) = p
      OBVIOUS
    <2> QED BY <2>1, <2>2 DEF Cut
  <1>7. p # <<>>
    <2>1. 0 # SlashCh
      BY DEF SlashCh
    <2> QED BY <2>1 DEF At
  <1> HIDE DEF r, m
  <1>8. WinPathToPosix(w, size) = IF Cut(m, size - 1) = <<>> THEN <<SlashCh>> ELSE Cut(m, size - 1)
    BY <1>3, Zenon DEF WinPathToPosix, r, m
  <1> QED BY <1>5, <1>6, <1>7, <1>8

(* No byte of a character of several is a slash. *)
LEMMA NoSlash ==
  ASSUME NEW cp \in CodePoints, cp \notin Points1, NEW k \in 1 .. Len(Utf8(cp))
  PROVE  Utf8(cp)[k] # SlashCh
  <1>1. CASE cp \in Points2
    <2>1. PICK x \in Lead2, y \in Cont : Utf8(cp) = <<x, y>>
      BY <1>1, Utf8Two
    <2>2. x # SlashCh /\ y # SlashCh
      BY SMT DEF Lead2, Cont, SlashCh
    <2>3. <<x, y>>[1] = x /\ <<x, y>>[2] = y /\ (k = 1 \/ k = 2)
      BY <2>1
    <2> QED BY <2>1, <2>2, <2>3
  <1>2. CASE cp \in Points3
    <2>1. PICK x \in Lead3, y \in Cont, z \in Cont : Utf8(cp) = <<x, y, z>>
      BY <1>2, Utf8Three
    <2>2. x # SlashCh /\ y # SlashCh /\ z # SlashCh
      BY SMT DEF Lead3, Cont, SlashCh
    <2>3. <<x, y, z>>[1] = x /\ <<x, y, z>>[2] = y /\ <<x, y, z>>[3] = z /\ (k = 1 \/ k = 2 \/ k = 3)
      BY <2>1
    <2> QED BY <2>1, <2>2, <2>3
  <1>3. CASE cp \in Points4
    <2>1. PICK x \in Lead4, y \in Cont, z \in Cont, u \in Cont : Utf8(cp) = <<x, y, z, u>>
      BY <1>3, Utf8Four
    <2>2. x # SlashCh /\ y # SlashCh /\ z # SlashCh /\ u # SlashCh
      BY SMT DEF Lead4, Cont, SlashCh
    <2>3. /\ <<x, y, z, u>>[1] = x /\ <<x, y, z, u>>[2] = y /\ <<x, y, z, u>>[3] = z /\ <<x, y, z, u>>[4] = u
          /\ k = 1 \/ k = 2 \/ k = 3 \/ k = 4
      BY <2>1
    <2> QED BY <2>1, <2>2, <2>3
  <1> QED BY <1>1, <1>2, <1>3, PointIs

(* A character of valid UTF-8. *)
LEMMA ValidCharacter ==
  ASSUME NEW p \in Seq(Bytes8), ValidUtf8(p), NEW j \in 1 .. Len(p), p[j] \notin Cont
  PROVE  \E cp : /\ Scalar(cp) /\ j + Len(Utf8(cp)) <= Len(p) + 1 /\ At(p, j + Len(Utf8(cp))) \notin Cont
                 /\ \A k \in 1 .. Len(Utf8(cp)) : p[j + k - 1] = Utf8(cp)[k]
  <1> DEFINE c == Utf8Next(p, j)
  <1>1. Scalar(c.cp) /\ c.len \in 1 .. 4
    BY NextScalar
  <1>2. j + c.len <= Len(p) + 1 /\ SubSeq(p, j, j + c.len - 1) = Utf8(c.cp) /\ At(p, j + c.len) \notin Cont
    BY DEF ValidUtf8, Cont
  <1> HIDE DEF c
  <1>3. PICK n \in 1 .. 4 : n = c.len
    BY <1>1
  <1>4. j + n - 1 \in 0 .. Len(p) /\ j + n <= Len(p) + 1
    <2>1. j + n <= Len(p) + 1 /\ Len(p) \in Nat
      BY <1>2, <1>3
    <2> QED BY <2>1
  <1>5. Len(SubSeq(p, j, j + n - 1)) = n
    BY <1>4
  <1>6. \A k \in 1 .. n : SubSeq(p, j, j + n - 1)[k] = p[j + k - 1]
    BY <1>4
  <1>7. Len(Utf8(c.cp)) = n /\ \A k \in 1 .. n : p[j + k - 1] = Utf8(c.cp)[k]
    BY <1>2, <1>3, <1>5, <1>6
  <1>8. At(p, j + n) \notin Cont
    BY <1>2, <1>3
  <1> QED BY <1>1, <1>4, <1>7, <1>8

(* A byte of the path, seen in what is written. *)
LEMMA WrittenByte ==
  ASSUME NEW p \in Seq(Bytes8), NEW w, Written(p, w), NEW i \in Nat, i >= 1, At(p, i) \notin Cont
  PROVE  At(w, i + 2) \notin Cont
  <1>1. w \in Seq(Bytes8) /\ Len(w) = Len(p) + 2
    BY DEF Written
  <1>2. CASE i <= Len(p)
    <2>1. At(w, i + 2) = w[i + 2] /\ At(p, i) = p[i] /\ i \in 1 .. Len(p)
      BY <1>1, <1>2 DEF At
    <2>2. w[i + 2] = IF p[i] = SlashCh THEN Backslash ELSE p[i]
      BY <2>1 DEF Written
    <2>3. Backslash \notin Cont
      BY SMT DEF Backslash, Cont
    <2> QED BY <2>1, <2>2, <2>3
  <1>3. CASE i > Len(p)
    <2>1. At(w, i + 2) = 0
      BY <1>1, <1>3 DEF At
    <2>2. 0 \notin Cont
      BY SMT DEF Cont
    <2> QED BY <2>1, <2>2
  <1>4. Len(p) \in Nat
    OBVIOUS
  <1> QED BY <1>2, <1>3, <1>4

(* Bytes below 128 are characters. *)
LEMMA OneByte ==
  ASSUME NEW w \in Seq(Bytes8), NEW i \in 1 .. Len(w), w[i] \in Points1, At(w, i + 1) \notin Cont
  PROVE  Begins8(w, i)
  <1> DEFINE cp == w[i]
  <1>1. Utf8(cp) = <<cp>>
    BY Utf8One
  <1>2. Scalar(cp)
    <2>0. \A u \in Points1 : u \in Nat
      BY SMT DEF Points1
    <2>1. cp \in Nat /\ cp \in Points1
      BY <2>0
    <2> HIDE DEF cp
    <2>2. cp \in CodePoints /\ ~Surrogate(cp)
      BY <2>1, PointsAre, SurrogateAre
    <2> QED BY <2>2 DEF Scalar
  <1>3. Len(<<cp>>) = 1 /\ <<cp>>[1] = cp
    OBVIOUS
  <1>4. Sits(w, i, <<cp>>)
    BY <1>3 DEF Sits
  <1> HIDE DEF cp
  <1>5. At(w, i + Len(<<cp>>)) \notin Cont
    BY <1>3
  <1> QED BY <1>1, <1>2, <1>4, <1>5 DEF Begins8

(* What is written of valid UTF-8 is whole characters. *)
LEMMA PathCharacters ==
  ASSUME NEW p \in Seq(Bytes8), At(p, 1) = SlashCh, ValidUtf8(p), NEW w, Written(p, w)
  PROVE  Characters(w)
  <1>1. w \in Seq(Bytes8) /\ Len(w) = Len(p) + 2 /\ Len(p) \in Nat /\ w[1] = 67 /\ w[2] = Colon
    BY DEF Written
  <1>2. 67 \in Points1 /\ Colon \in Points1 /\ 67 \notin Cont /\ Colon \notin Cont /\ SlashCh \notin Cont
        /\ Backslash \in Points1 /\ \A u \in Points1 : u \notin Cont
    BY SMT DEF Points1, Colon, Cont, SlashCh, Backslash
  <1>3. At(w, 1) = 67 /\ At(w, 2) = Colon
    BY <1>1 DEF At
  <1>4. ASSUME NEW i \in 1 .. Len(w), w[i] \notin Cont PROVE Begins8(w, i)
    <2>1. CASE i = 1
      <3>1. At(w, i + 1) \notin Cont
        BY <1>2, <1>3, <2>1
      <3> QED BY <1>1, <1>2, <2>1, <3>1, OneByte
    <2>2. CASE i = 2
      <3>1. At(w, i + 1) \notin Cont
        <4>1. At(w, 1 + 2) \notin Cont
          BY <1>2, WrittenByte
        <4> QED BY <4>1, <2>2
      <3> QED BY <1>1, <1>2, <2>2, <3>1, OneByte
    <2>3. CASE i > 2
      <3>1. PICK j \in 1 .. Len(p) : i = j + 2
        <4>1. i - 2 \in 1 .. Len(p) /\ i = (i - 2) + 2
          BY <1>1, <2>3
        <4> QED BY <4>1
      <3>2. w[i] = IF p[j] = SlashCh THEN Backslash ELSE p[j]
        BY <3>1 DEF Written
      <3>3. p[j] \notin Cont
        BY <1>2, <1>4, <3>2
      <3>4. PICK cp : /\ Scalar(cp) /\ j + Len(Utf8(cp)) <= Len(p) + 1 /\ At(p, j + Len(Utf8(cp))) \notin Cont
                      /\ \A k \in 1 .. Len(Utf8(cp)) : p[j + k - 1] = Utf8(cp)[k]
        BY <3>3, ValidCharacter
      <3>5. cp \in CodePoints
        BY <3>4 DEF Scalar
      <3>6. PICK n \in 1 .. 4 : n = Len(Utf8(cp))
        BY <3>5, Utf8Bytes
      <3>7. At(w, i + n) \notin Cont
        <4>1. j + n \in Nat /\ j + n >= 1 /\ At(p, j + n) \notin Cont
          BY <3>4, <3>6
        <4>2. At(w, j + n + 2) \notin Cont
          BY <4>1, WrittenByte
        <4>3. j + n + 2 = i + n
          BY <3>1
        <4> QED BY <4>2, <4>3
      <3>8. CASE cp \in Points1
        <4>1. Utf8(cp) = <<cp>> /\ n = 1
          <5>1. Utf8(cp) = <<cp>>
            BY <3>8, Utf8One
          <5>2. Len(<<cp>>) = 1
            OBVIOUS
          <5> QED BY <3>6, <5>1, <5>2
        <4>2. p[j] = cp
          <5>1. 1 \in 1 .. Len(Utf8(cp)) /\ <<cp>>[1] = cp
            BY <3>6
          <5>2. p[j + 1 - 1] = cp
            BY <3>4, <4>1, <5>1
          <5> QED BY <5>2
        <4>3. w[i] \in Points1
          BY <1>2, <3>2, <3>8, <4>2
        <4> QED BY <1>1, <3>7, <4>1, <4>3, OneByte
      <3>9. CASE cp \notin Points1
        <4>1. ASSUME NEW k \in 1 .. n PROVE i + k - 1 <= Len(w) /\ w[i + k - 1] = Utf8(cp)[k]
          <5>1. j + k - 1 \in 1 .. Len(p) /\ (j + k - 1) + 2 = i + k - 1
            <6>1. j + n <= Len(p) + 1 /\ Len(p) \in Nat /\ j \in Nat /\ j >= 1 /\ k \in Nat /\ k >= 1 /\ k <= n
              BY <1>1, <3>4, <3>6
            <6> QED BY <3>1, <6>1
          <5>2. p[j + k - 1] = Utf8(cp)[k] /\ Utf8(cp)[k] # SlashCh
            BY <3>4, <3>5, <3>6, <3>9, NoSlash
          <5>3. w[(j + k - 1) + 2] = p[j + k - 1]
            BY <5>1, <5>2 DEF Written
          <5>4. i + k - 1 <= Len(w)
            BY <1>1, <5>1
          <5> QED BY <5>1, <5>2, <5>3, <5>4
        <4>2. Sits(w, i, Utf8(cp))
          BY <3>6, <4>1 DEF Sits
        <4> QED BY <3>4, <3>6, <3>7, <4>2 DEF Begins8
      <3> QED BY <3>8, <3>9
    <2>4. i = 1 \/ i = 2 \/ i > 2
      OBVIOUS
    <2> QED BY <2>1, <2>2, <2>3, <2>4
  <1> QED BY <1>2, <1>3, <1>4 DEF Characters

(* A path comes back to the system as it was. *)
LEMMA PathReturns ==
  ASSUME NEW p \in Seq(Bytes8), At(p, 1) = SlashCh, ValidUtf8(p), \A i \in 1 .. Len(p) : p[i] # Backslash,
         NEW size \in Nat, Len(p) + 6 < size
  PROVE  WinPathToPosix(WcharToUtf8(Utf8ToWchar(PosixToWinPath(p, size), size), size), size) = p
  <1> DEFINE w == PosixToWinPath(p, size)
  <1>1. Len(p) \in Nat /\ Len(p) + 2 < size
    OBVIOUS
  <1>2. Written(p, w)
    BY <1>1, PathWritten
  <1> HIDE DEF w
  <1>3. w \in Seq(Bytes8) /\ Len(w) + 4 < size
    <2>1. w \in Seq(Bytes8) /\ Len(w) = Len(p) + 2
      BY <1>2 DEF Written
    <2> QED BY <1>1, <2>1
  <1>4. WcharToUtf8(Utf8ToWchar(w, size), size) = w
    BY <1>2, <1>3, PathCharacters, CharactersSurvive
  <1>5. WinPathToPosix(w, size) = p
    BY <1>1, <1>2, PathRead
  <1> QED BY <1>4, <1>5 DEF w

(* What win_path_to_posix gives fits the buffer, which is never empty. *)
LEMMA PosixGives ==
  ASSUME NEW s \in Seq(Bytes8), NEW size \in Nat, size >= 4
  PROVE  WinPathToPosix(s, size) \in Seq(Bytes8) /\ Len(WinPathToPosix(s, size)) < size
  <1> DEFINE bare == IF Device(s) THEN Skip(s, 4) ELSE s
             cut  == IF Drive(bare) THEN Skip(bare, 2) ELSE bare
             m    == Mapped(cut, Backslash, SlashCh)
             path == Cut(m, size - 1)
  <1>1. \A t \in Seq(Bytes8) : \A n \in Nat : Skip(t, n) \in Seq(Bytes8)
    BY DEF Skip
  <1>2. bare \in Seq(Bytes8)
    BY <1>1
  <1> HIDE DEF bare
  <1>3. cut \in Seq(Bytes8)
    BY <1>1, <1>2
  <1> HIDE DEF cut
  <1>4. SlashCh \in Bytes8
    BY SMT DEF SlashCh, Bytes8
  <1>5. m \in Seq(Bytes8)
    BY <1>3, <1>4 DEF Mapped
  <1> HIDE DEF m
  <1>6. path \in Seq(Bytes8) /\ Len(path) < size
    <2>1. PICK n \in 0 .. Len(m) : n = (IF Len(m) < size - 1 THEN Len(m) ELSE size - 1) /\ n < size
      BY <1>5
    <2>2. SubSeq(m, 1, n) \in Seq(Bytes8) /\ Len(SubSeq(m, 1, n)) = n
      BY <1>5
    <2>3. path = SubSeq(m, 1, n)
      BY <2>1 DEF Cut
    <2> QED BY <2>1, <2>2, <2>3
  <1> HIDE DEF path
  <1>7. <<SlashCh>> \in Seq(Bytes8) /\ Len(<<SlashCh>>) < size
    BY <1>4
  <1>8. WinPathToPosix(s, size) = IF path = <<>> THEN <<SlashCh>> ELSE path
    BY DEF WinPathToPosix, path, m, cut, bare
  <1> QED BY <1>6, <1>7, <1>8

(* So does what posix_to_win_path gives. *)
LEMMA WinGives ==
  ASSUME NEW s \in Seq(Bytes8), NEW size \in Nat, size >= 4
  PROVE  PosixToWinPath(s, size) \in Seq(Bytes8) /\ Len(PosixToWinPath(s, size)) < size
  <1> DEFINE d == IF At(s, 1) = SlashCh THEN <<67, Colon>> ELSE <<>>
             m == d \o Mapped(s, SlashCh, Backslash)
  <1>1. 67 \in Bytes8 /\ Colon \in Bytes8 /\ Backslash \in Bytes8
    BY SMT DEF Bytes8, Colon, Backslash
  <1>2. d \in Seq(Bytes8)
    BY <1>1
  <1> HIDE DEF d
  <1>3. Mapped(s, SlashCh, Backslash) \in Seq(Bytes8)
    BY <1>1 DEF Mapped
  <1>4. m \in Seq(Bytes8)
    BY <1>2, <1>3
  <1> HIDE DEF m
  <1>5. PICK n \in 0 .. Len(m) : n = (IF Len(m) < size - 1 THEN Len(m) ELSE size - 1) /\ n < size
    BY <1>4
  <1>6. SubSeq(m, 1, n) \in Seq(Bytes8) /\ Len(SubSeq(m, 1, n)) = n
    BY <1>4
  <1>7. PosixToWinPath(s, size) = SubSeq(m, 1, n)
    BY <1>5 DEF PosixToWinPath, Cut, m, d
  <1> QED BY <1>5, <1>6, <1>7

-----------------------------------------------------------------------------
(* The properties. *)

\* What has become of a path on its way.
PathWay(p, size) ==
  LET w == PosixToWinPath(p, size)
      x == Utf8ToWchar(w, size)
      v == WcharToUtf8(x, size)
  IN  \/ stage = "posix" /\ str = p
      \/ stage = "win"   /\ str = w
      \/ stage = "wide"  /\ str = x
      \/ stage = "utf8"  /\ str = v
      \/ stage = "there" /\ str = WinPathToPosix(v, size)

\* Of a string of the program.
StringWay(s, size) ==
  LET v == WcharToUtf8(s, size)
  IN  \/ stage = "wide" /\ str = s
      \/ stage = "utf8" /\ str = v
      \/ stage = "back" /\ str = Utf8ToWchar(v, size)

\* Of a name the program never made.
BytesWay(s, size) ==
  LET x == Utf8ToWchar(s, size)
      v == WcharToUtf8(x, size)
  IN  \/ stage = "win"  /\ str = s
      \/ stage = "wide" /\ str = x
      \/ stage = "utf8" /\ str = v
      \/ stage = "back" /\ str = Utf8ToWchar(v, size)

TextInv ==
  /\ room \in Rooms
  /\ \/ kind = "path"   /\ origin \in PosixPaths  /\ PathWay(origin, room)
     \/ kind = "string" /\ origin \in WideStrings /\ StringWay(origin, room)
     \/ kind = "bytes"  /\ origin \in ByteStrings /\ BytesWay(origin, room)

(* The initial states satisfy it. *)
LEMMA TextInvInit == TextInit => TextInv
  BY Zenon DEF TextInit, TextInv, PathWay, StringWay, BytesWay

(* A conversion takes the string one step further. *)
LEMMA TextInvNext == TextInv /\ [TextNext]_textVars => TextInv'
  <1> SUFFICES ASSUME TextInv, [TextNext]_textVars PROVE TextInv'
    OBVIOUS
  <1>1. CASE TextNext
    <2>1. UNCHANGED <<kind, origin, room>>
      BY <1>1 DEF TextNext, Convert
    <2>2. CASE kind = "path"
      <3>1. PathWay(origin, room) /\ origin \in PosixPaths /\ room \in Rooms
        BY <2>2 DEF TextInv
      <3>2. PathWay(origin, room)'
        BY <1>1, <2>1, <2>2, <3>1 DEF TextNext, Convert, PathWay
      <3> QED BY <2>1, <2>2, <3>1, <3>2 DEF TextInv
    <2>3. CASE kind = "string"
      <3>1. StringWay(origin, room) /\ origin \in WideStrings /\ room \in Rooms
        BY <2>3 DEF TextInv
      <3>2. StringWay(origin, room)'
        BY <1>1, <2>1, <2>3, <3>1 DEF TextNext, Convert, StringWay
      <3> QED BY <2>1, <2>3, <3>1, <3>2 DEF TextInv
    <2>4. CASE kind = "bytes"
      <3>1. BytesWay(origin, room) /\ origin \in ByteStrings /\ room \in Rooms
        BY <2>4 DEF TextInv
      <3>2. BytesWay(origin, room)'
        BY <1>1, <2>1, <2>4, <3>1 DEF TextNext, Convert, BytesWay
      <3> QED BY <2>1, <2>4, <3>1, <3>2 DEF TextInv
    <2> QED BY <2>2, <2>3, <2>4 DEF TextInv
  <1>2. CASE UNCHANGED textVars
    BY <1>2 DEF textVars, TextInv, PathWay, StringWay, BytesWay
  <1> QED BY <1>1, <1>2

(* The services leave the text alone or convert it. *)
LEMMA TextHolds == ServicesSpec => []TextInv
  <1>1. ServicesInit => TextInv
    BY TextInvInit DEF ServicesInit
  <1>2. [ServicesNext]_servicesVars => [TextNext]_textVars
    BY DEF ServicesNext, servicesVars
  <1>3. TextInv /\ [ServicesNext]_servicesVars => TextInv'
    BY <1>2, TextInvNext
  <1> QED BY <1>1, <1>3, PTL DEF ServicesSpec

(* What the instance is made of. *)
LEMMA Instance ==
  /\ \A p \in PosixPaths : p \in Seq(Bytes8) /\ At(p, 1) = SlashCh /\ ValidUtf8(p)
  /\ \A s \in WideStrings : s \in Seq(Units16)
  /\ \A s \in ByteStrings : s \in Seq(Bytes8)
  /\ \A r \in Rooms : r \in Nat /\ r >= 4
  BY TextAssumption DEF Bytes8, Units16

(* A path on its way fits its buffer and is valid UTF-16 where it is wide. *)
LEMMA PathWhole ==
  ASSUME NEW p \in Seq(Bytes8), NEW size \in Nat, size >= 4, PathWay(p, size)
  PROVE  /\ stage # "posix" => Len(str) < size
         /\ stage = "wide" => WellFormed(str)
         /\ stage # "back"
  <1> DEFINE w == PosixToWinPath(p, size)
             x == Utf8ToWchar(w, size)
             v == WcharToUtf8(x, size)
             u == WinPathToPosix(v, size)
  <1>0. size > 0
    OBVIOUS
  <1>1. w \in Seq(Bytes8) /\ Len(w) < size
    BY WinGives
  <1>2. \/ stage = "posix" /\ str = p
        \/ stage = "win"   /\ str = w
        \/ stage = "wide"  /\ str = x
        \/ stage = "utf8"  /\ str = v
        \/ stage = "there" /\ str = u
    BY DEF PathWay
  <1> HIDE DEF w
  <1>3. x \in Seq(Units16) /\ Len(x) < size /\ WellFormed(x)
    BY <1>0, <1>1, DecodeGives
  <1> HIDE DEF x
  <1>4. v \in Seq(Bytes8) /\ Len(v) < size
    BY <1>0, <1>3, EncodeGives
  <1> HIDE DEF v
  <1>5. u \in Seq(Bytes8) /\ Len(u) < size
    BY <1>4, PosixGives
  <1> HIDE DEF u
  <1> QED BY <1>1, <1>2, <1>3, <1>4, <1>5

(* So does a string, which comes back. *)
LEMMA StringWhole ==
  ASSUME NEW s \in Seq(Units16), NEW size \in Nat, size >= 4, StringWay(s, size)
  PROVE  /\ stage # "wide" => Len(str) < size
         /\ stage = "back" => WellFormed(str) /\ str = Cut(Sound(s), Len(str))
  <1> DEFINE v == WcharToUtf8(s, size)
             t == Utf8ToWchar(v, size)
  <1>0. size > 0
    OBVIOUS
  <1>1. v \in Seq(Bytes8) /\ Len(v) < size
    BY <1>0, EncodeGives
  <1>2. t = Cut(Sound(s), Len(t))
    BY <1>0, RoundTrip
  <1>3. \/ stage = "wide" /\ str = s
        \/ stage = "utf8" /\ str = v
        \/ stage = "back" /\ str = t
    BY DEF StringWay
  <1> HIDE DEF v
  <1>4. t \in Seq(Units16) /\ Len(t) < size /\ WellFormed(t)
    BY <1>0, <1>1, DecodeGives
  <1> HIDE DEF t
  <1> QED BY <1>1, <1>2, <1>3, <1>4

(* And a name. *)
LEMMA BytesWhole ==
  ASSUME NEW s \in Seq(Bytes8), NEW size \in Nat, size >= 4, BytesWay(s, size)
  PROVE  /\ stage # "win" => Len(str) < size
         /\ stage \in {"wide", "back"} => WellFormed(str)
  <1> DEFINE x == Utf8ToWchar(s, size)
             v == WcharToUtf8(x, size)
             t == Utf8ToWchar(v, size)
  <1>0. size > 0
    OBVIOUS
  <1>1. x \in Seq(Units16) /\ Len(x) < size /\ WellFormed(x)
    BY <1>0, DecodeGives
  <1>2. \/ stage = "win"  /\ str = s
        \/ stage = "wide" /\ str = x
        \/ stage = "utf8" /\ str = v
        \/ stage = "back" /\ str = t
    BY DEF BytesWay
  <1> HIDE DEF x
  <1>3. v \in Seq(Bytes8) /\ Len(v) < size
    BY <1>0, <1>1, EncodeGives
  <1> HIDE DEF v
  <1>4. t \in Seq(Units16) /\ Len(t) < size /\ WellFormed(t)
    BY <1>0, <1>3, DecodeGives
  <1> HIDE DEF t
  <1> QED BY <1>1, <1>2, <1>3, <1>4

(* Whatever the strings and however short the buffers, wchar_to_utf8,      *)
(* utf8_to_wchar and the two conversions of paths overrun none, what the   *)
(* program gets is valid UTF-16, and what it passed comes back unchanged   *)
(* up to a cut between two characters, surrogates alone replaced.          *)
THEOREM WholeCharactersHolds == ServicesSpec => []WholeCharacters
  <1>1. TextInv => WholeCharacters
    <2> SUFFICES ASSUME TextInv PROVE WholeCharacters
      OBVIOUS
    <2>1. room \in Nat /\ room >= 4
      BY Instance DEF TextInv
    <2>2. CASE kind = "path"
      <3>1. origin \in Seq(Bytes8) /\ PathWay(origin, room)
        BY <2>2, Instance DEF TextInv
      <3>2. /\ stage # "posix" => Len(str) < room
            /\ stage = "wide" => WellFormed(str)
            /\ stage # "back"
        BY <2>1, <3>1, PathWhole
      <3> QED BY <2>2, <3>2 DEF WholeCharacters
    <2>3. CASE kind = "string"
      <3>1. origin \in Seq(Units16) /\ StringWay(origin, room)
        BY <2>3, Instance DEF TextInv
      <3>2. /\ stage # "wide" => Len(str) < room
            /\ stage = "back" => WellFormed(str) /\ str = Cut(Sound(origin), Len(str))
        BY <2>1, <3>1, StringWhole
      <3> QED BY <2>3, <3>2 DEF WholeCharacters
    <2>4. CASE kind = "bytes"
      <3>1. origin \in Seq(Bytes8) /\ BytesWay(origin, room)
        BY <2>4, Instance DEF TextInv
      <3>2. /\ stage # "win" => Len(str) < room
            /\ stage \in {"wide", "back"} => WellFormed(str)
        BY <2>1, <3>1, BytesWhole
      <3> QED BY <2>4, <3>2 DEF WholeCharacters
    <2> QED BY <2>2, <2>3, <2>4 DEF TextInv
  <1> QED BY <1>1, TextHolds, PTL

(* A path of the system in valid UTF-8 and without backslashes comes back  *)
(* to it as it was from posix_to_win_path, utf8_to_wchar, wchar_to_utf8    *)
(* and win_path_to_posix, if there is room for it.                         *)
THEOREM PathSurvivesHolds == ServicesSpec => []PathSurvives
  <1>1. TextInv => PathSurvives
    <2> SUFFICES ASSUME TextInv, stage = "there", Len(origin) + 6 < room, \A i \in 1 .. Len(origin) : origin[i] # Backslash
                 PROVE  str = origin
      BY DEF PathSurvives
    <2>1. kind = "path" /\ origin \in PosixPaths /\ PathWay(origin, room) /\ room \in Rooms
      BY DEF TextInv, StringWay, BytesWay
    <2>2. str = WinPathToPosix(WcharToUtf8(Utf8ToWchar(PosixToWinPath(origin, room), room), room), room)
      BY <2>1, Zenon DEF PathWay
    <2>3. origin \in Seq(Bytes8) /\ At(origin, 1) = SlashCh /\ ValidUtf8(origin) /\ room \in Nat
      BY <2>1, Instance
    <2> QED BY <2>2, <2>3, PathReturns
  <1> QED BY <1>1, TextHolds, PTL
=============================================================================
