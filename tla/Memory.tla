------------------------------- MODULE Memory -------------------------------
(***************************************************************************)
(* VirtualAlloc and VirtualFree over mmap and munmap, with the table of    *)
(* bases and sizes that VirtualFree takes the size of a region from        *)
(* (mmap_track_add, mmap_track_remove).  The mapping and the table change  *)
(* in two steps, so calls of several threads interleave between them.      *)
(*                                                                         *)
(* Memory is a run of pages.  A page that is mapped belongs to a region,   *)
(* named by its base, or to libc (0), which maps memory of its own.        *)
(***************************************************************************)
EXTENDS Integers, FiniteSets

CONSTANTS
  Callers,       \* threads
  MaxPage,       \* bound: pages 1 .. MaxPage
  MaxRegion,     \* bound: pages of a region
  MaxMixed,      \* bound: addresses in use are asked for while so many pages at most are mixed
  Unmapped

ASSUME MemoryAssumption ==
  /\ MaxPage \in Nat /\ MaxRegion \in Nat /\ MaxMixed \in Nat
  /\ Unmapped \notin 0 .. MaxPage

Pages == 1 .. MaxPage
Libc  == 0

Span(base, n) == base .. base + n - 1

VARIABLES
  owner,     \* of every page: Unmapped, Libc or a region's base
  table,     \* mmap_table: size by base, 0 if there is no entry
  call,      \* of every thread: what it is doing to which pages
  regions,   \* history: the size of the region the program has at a base, or 0
  libc,      \* history: the pages libc has
  mixed      \* history: pages of whatever had pages that VirtualAlloc replaced

memVars == <<owner, table, call, regions, libc, mixed>>

NoCall == [at |-> "idle", base |-> 0, size |-> 0]

MemInit ==
  /\ owner = [p \in Pages |-> Unmapped] /\ table = [p \in Pages |-> 0]
  /\ call = [t \in Callers |-> NoCall]
  /\ regions = [p \in Pages |-> 0] /\ libc = {} /\ mixed = {}

Enter(t, at, base, size) ==
  /\ call[t].at = "idle"
  /\ call' = [call EXCEPT ![t] = [at |-> at, base |-> base, size |-> size]]

Leave(t) == call' = [call EXCEPT ![t] = NoCall]

\* mmap at an address and munmap.
Maps(base, n) == owner' = [p \in Pages |-> IF p \in Span(base, n) THEN base ELSE owner[p]]
Unmaps(base, n) == owner' = [p \in Pages |-> IF p \in Span(base, n) THEN Unmapped ELSE owner[p]]

-----------------------------------------------------------------------------
\* The pages of a base: of the region the program has there, or of those that
\* calls are making and taking away.
Extent(base) ==
  {p \in Pages : \/ p \in Span(base, regions[base])
                 \/ \E t \in Callers : call[t].base = base /\ p \in Span(base, call[t].size)}

\* The address is nobody's, or that of a region of the program, which may grow.
NobodyElses(base, n) ==
  /\ Span(base, n) \cap mixed = {}
  /\ \/ \A p \in Span(base, n) : owner[p] = Unmapped
     \/ regions[base] > 0 /\ \A p \in Span(base, n) : owner[p] \in {Unmapped, base}

Involved(pages) == pages \cup UNION {Extent(b) : b \in {c \in Pages : Extent(c) \cap pages # {}}}

\* mmap where the kernel or the program wants the pages.  What is there already is
\* replaced: without MAP_FIXED_NOREPLACE mmap is tried again with MAP_FIXED.
VirtualAlloc(t, base, n) ==
  /\ Enter(t, "add", base, n)
  /\ Span(base, n) \subseteq Pages /\ (NobodyElses(base, n) \/ Cardinality(mixed) <= MaxMixed)
  /\ Maps(base, n)
  /\ mixed' = IF NobodyElses(base, n) THEN mixed ELSE mixed \cup Involved(Span(base, n))
  /\ UNCHANGED <<table, regions, libc>>

\* Mutant of Tracked: the size that was given last.
TrackedLast(base, n) == n

Tracked(base, n) == IF n > table[base] THEN n ELSE table[base]

\* mmap_track_add; a new entry may find no memory, and the pages are unmapped again.
TrackAdd(t) ==
  LET c == call[t] IN
  /\ c.at = "add"
  /\ \/ /\ table' = [table EXCEPT ![c.base] = Tracked(c.base, c.size)]
        /\ regions' = [regions EXCEPT ![c.base] = IF c.size > @ THEN c.size ELSE @]
        /\ owner' = owner
     \/ /\ table[c.base] = 0
        /\ Unmaps(c.base, c.size)
        /\ UNCHANGED <<table, regions>>
  /\ Leave(t)
  /\ UNCHANGED <<libc, mixed>>

\* Mutant of Erased: the entry stays behind.
ErasedNot(base) == table

Erased(base) == [table EXCEPT ![base] = 0]

\* VirtualFree with MEM_RELEASE of a region the program has and no other call is
\* at work on: mmap_track_remove.
VirtualFree(t, base) ==
  /\ regions[base] > 0 /\ \A u \in Callers : call[u].base # base
  /\ Enter(t, "unmap", base, table[base])
  /\ regions' = [regions EXCEPT ![base] = 0]
  /\ table' = Erased(base)
  /\ UNCHANGED <<owner, libc, mixed>>

\* ... and munmap, of whatever is there.
Unmap(t) ==
  /\ call[t].at = "unmap"
  /\ Unmaps(call[t].base, call[t].size)
  /\ Leave(t)
  /\ UNCHANGED <<table, regions, libc, mixed>>

\* libc maps a page and unmaps one of its own.
LibcMaps(p) ==
  /\ owner[p] = Unmapped /\ owner' = [owner EXCEPT ![p] = Libc]
  /\ libc' = libc \cup {p}
  /\ UNCHANGED <<table, call, regions, mixed>>

LibcUnmaps(p) ==
  /\ p \in libc /\ owner' = [owner EXCEPT ![p] = Unmapped]
  /\ libc' = libc \ {p}
  /\ UNCHANGED <<table, call, regions, mixed>>

MemNext ==
  \/ \E t \in Callers :
       \/ \E base \in Pages, n \in 1 .. MaxRegion : VirtualAlloc(t, base, n)
       \/ \E base \in Pages : VirtualFree(t, base)
       \/ TrackAdd(t) \/ Unmap(t)
  \/ \E p \in Pages : LibcMaps(p) \/ LibcUnmaps(p)

-----------------------------------------------------------------------------
(* Properties.                                                             *)

\* Where VirtualAlloc has not replaced what there was, every page of a region is
\* its own for as long as the region lasts, no page stays behind when it is gone,
\* and libc keeps its pages: VirtualFree unmaps the region it is given, whole, and
\* never memory of another region or of libc, whatever had been at that address
\* before.  An address in use spoils nothing but what it was taken from.
RegionsIntact ==
  /\ \A base \in Pages \ mixed : {p \in Pages : owner[p] = base} = Extent(base)
  /\ \A p \in Pages \ mixed : owner[p] = Libc <=> p \in libc

=============================================================================
