------------------------------- MODULE Qsort --------------------------------
(***************************************************************************)
(* msvcrt_qsort: quicksort that keeps the larger part of every split on a  *)
(* stack of fixed size, with a selection sort for short segments.  The     *)
(* comparison orders the elements by their values.                         *)
(***************************************************************************)
EXTENDS Integers, Sequences, FiniteSetsExt

CONSTANTS
  Arrays,    \* bound: what is sorted, functions from 0 .. n - 1
  CUTOFF,    \* the longest segment for the selection sort; 8 in the code
  STKSIZ     \* entries of the stack; 62 in the code

Size(f) == Cardinality(DOMAIN f)

Power2[k \in 0 .. STKSIZ] == IF k = 0 THEN 1 ELSE 2 * Power2[k - 1]

\* An array is numbered from 0.  With 62 entries its size is no restriction:
\* no array of 2^63 elements fits the address space.
ASSUME QsortAssumption ==
  /\ CUTOFF \in Nat \ {0, 1} /\ STKSIZ \in Nat \ {0}
  /\ \A f \in Arrays : Size(f) \in Nat /\ f \in [0 .. Size(f) - 1 -> Int] /\ Size(f) < 2 * Power2[STKSIZ]

VARIABLES
  given, a,       \* the array, as it was and as it is
  step,           \* "recurse", "partition" or "done"
  lo, hi,         \* the segment
  mid, loguy, higuy,
  stack           \* lostk and histk, up to stkptr

qsortVars == <<given, a, step, lo, hi, mid, loguy, higuy, stack>>

QsortInit ==
  /\ given \in Arrays /\ a = given
  /\ lo = 0 /\ hi = Size(given) - 1 /\ mid = 0 /\ loguy = 0 /\ higuy = 0 /\ stack = <<>>
  /\ step = IF Size(given) <= 1 THEN "done" ELSE "recurse"

Least(S)    == CHOOSE i \in S : \A j \in S : i <= j
Greatest(S) == CHOOSE i \in S : \A j \in S : i >= j

Swapped(f, i, j) == [f EXCEPT ![i] = f[j], ![j] = f[i]]
Ordered(f, i, j) == IF f[i] > f[j] THEN Swapped(f, i, j) ELSE f

\* The end of the loop: the last segment on the stack, if there is one.
Pop(st) ==
  IF st = <<>> THEN step' = "done" /\ UNCHANGED <<lo, hi>> /\ stack' = st
  ELSE step' = "recurse" /\ lo' = st[Len(st)][1] /\ hi' = st[Len(st)][2] /\ stack' = SubSeq(st, 1, Len(st) - 1)

\* Selection sort: the first greatest element goes to the end.
SelectionSorted ==
  LET after[k \in 0 .. hi - lo] ==
        IF k = 0 THEN a
        ELSE LET f   == after[k - 1]
                 shi == hi - k + 1
             IN  Swapped(f, Least({p \in lo .. shi : \A q \in lo .. shi : f[q] <= f[p]}), shi)
  IN  after[hi - lo]

SortShort ==
  /\ step = "recurse" /\ hi - lo + 1 <= CUTOFF
  /\ a' = SelectionSorted
  /\ Pop(stack)
  /\ UNCHANGED <<given, mid, loguy, higuy>>

\* The median of three goes to the middle.
ChoosePivot ==
  /\ step = "recurse" /\ hi - lo + 1 > CUTOFF
  /\ LET m == lo + (hi - lo + 1) \div 2 IN
     /\ a' = Ordered(Ordered(Ordered(a, lo, m), lo, hi), m, hi)
     /\ mid' = m
  /\ loguy' = lo /\ higuy' = hi
  /\ step' = "partition"
  /\ UNCHANGED <<given, lo, hi, stack>>

\* Where the two scans stop.
Up ==
  LET l == IF mid > loguy THEN Least({i \in loguy + 1 .. mid : i = mid \/ a[i] > a[mid]}) ELSE loguy
  IN  IF mid <= l THEN Least({i \in l + 1 .. hi + 1 : i = hi + 1 \/ a[i] > a[mid]}) ELSE l

Down == Greatest({i \in mid .. higuy - 1 : i = mid \/ a[i] <= a[mid]} \cup ({higuy - 1} \ mid .. hi))

\* Mutant of PivotAfter: the pivot is not followed when it is swapped.
PivotStays(l, h) == mid

PivotAfter(l, h) == IF mid = h THEN l ELSE mid

SwapPair ==
  /\ step = "partition" /\ Down >= Up
  /\ a' = Swapped(a, Up, Down)
  /\ mid' = PivotAfter(Up, Down)
  /\ loguy' = Up /\ higuy' = Down
  /\ UNCHANGED <<given, step, lo, hi, stack>>

\* The end of the lower part: elements equal to the pivot are left out.
LowerEnd(h) ==
  LET d == IF mid < h THEN Greatest({i \in mid .. h - 1 : i = mid \/ a[i] # a[mid]}) ELSE h
  IN  IF mid >= d THEN Greatest({i \in lo .. d - 1 : i = lo \/ a[i] # a[mid]} \cup ({d - 1} \ lo .. hi)) ELSE d

\* Mutant of LowerFirst: the larger part is sorted first.
LowerSecond(l, h) == h - lo >= hi - l

\* The lower part is sorted before the other: it is the smaller one.
LowerFirst(l, h) == h - lo < hi - l

Split ==
  /\ step = "partition" /\ Down < Up
  /\ LET l     == Up
         h     == LowerEnd(Down + 1)
         lower == IF lo < h THEN <<<<lo, h>>>> ELSE <<>>
         upper == IF l < hi THEN <<<<l, hi>>>> ELSE <<>>
     IN  Pop(stack \o (IF LowerFirst(l, h) THEN upper \o lower ELSE lower \o upper))
  /\ UNCHANGED <<given, a, mid, loguy, higuy>>

QsortNext == SortShort \/ ChoosePivot \/ SwapPair \/ Split

-----------------------------------------------------------------------------
(* Properties.                                                             *)

\* In the end the array is sorted and has the elements it had.
Sorts ==
  step = "done" =>
    /\ \A i, j \in DOMAIN a : i < j => a[i] <= a[j]
    /\ \A v \in {given[i] : i \in DOMAIN given} :
         Cardinality({i \in DOMAIN a : a[i] = v}) = Cardinality({i \in DOMAIN given : given[i] = v})

\* Every segment on the stack is at least as long as all that is above it, so
\* that with k of them the segment at work has at most n / 2^k elements: the
\* stack of 62 is enough for every array that fits the address space.
StackBounded ==
  step # "done" => Len(stack) < STKSIZ /\ (hi - lo + 1) * Power2[Len(stack)] <= Size(a)
=============================================================================
