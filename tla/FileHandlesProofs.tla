-------------------------- MODULE FileHandlesProofs --------------------------
(***************************************************************************)
(* Proofs about FileHandles, for any finite set of threads and any sizes   *)
(* of the table, of the descriptor table and of the heap: searches and     *)
(* libraries are counted exactly, whatever SetStdHandle is given; every    *)
(* descriptor has one owner, calls reach the file their handle stands for  *)
(* and standard handles agree with their descriptors, if SetStdHandle is   *)
(* given no standard handle.                                               *)
(*                                                                         *)
(* Two invariants share the types and Reserved, which says that a handle   *)
(* some call still needs stays open: CountInv adds who holds each search   *)
(* and library, FileInv adds who owns each descriptor, what is used        *)
(* without being owned, and which file it leads to.                        *)
(***************************************************************************)
EXTENDS FileHandles, FiniteSetTheorems, WellFoundedInduction, TLAPS
-----------------------------------------------------------------------------
(* The parts of the inductive invariants. *)

FileCalls == {"io", "dup", "dup_close"}   \* calls on the descriptor of a handle
SetCalls  == {"set_slot", "set_fd"}       \* SetStdHandle
Owners    == {"alloc", "close"}           \* calls that own a descriptor
CtxCalls  == {"alloc_find", "next", "release", "free_ctx"}
LibCalls  == {"alloc_module", "dlclose", "dlsym"}
CallNames == {"none", "close_source"} \cup FileCalls \cup SetCalls \cup Owners \cup CtxCalls \cup LibCalls

(* What each kind of slot leads to. *)
SlotOf(s) == \/ s = Free
             \/ s.kind = "H_FILE" /\ s.ptr \in Fds
             \/ s.kind = "H_FIND" /\ s.ptr \in Ctxs
             \/ s.kind = "H_MODULE" /\ s.ptr \in Libs

Ptrs == Fds \cup Ctxs \cup Libs \cup {None}

SlotType ==
  /\ table \in [Handles -> [kind : {"H_FREE", "H_FILE", "H_FIND", "H_MODULE"}, ptr : Ptrs]]
  /\ \A h \in Handles : SlotOf(table[h])
  /\ \A n \in Std : table[n].kind = "H_FILE"

HeapType ==
  /\ fds \in [Fds -> 0 .. MaxFiles]
  /\ means \in [Handles -> 0 .. MaxFiles]
  /\ ctxs \in [Ctxs -> [live : BOOLEAN, refcount : Int, next : Nat]]
  /\ libs \in [Libs -> Int]

(* What a call holds between two of its steps. *)
CallOf(c) ==
  /\ c \in [fn : CallNames, h : Handles \cup {None}, x : Ptrs, m : SUBSET (0 .. MaxFiles)]
  /\ c.fn = "none" => c = Idle
  /\ c.fn \in FileCalls => c.h \in Handles /\ c.x \in Fds
  /\ c.fn \in SetCalls => c.h \in Std /\ c.x \in Fds
  /\ c.fn \in Owners => c.x \in Fds
  /\ c.fn = "close_source" => c.h \in Handles
  /\ c.fn \in CtxCalls => c.x \in Ctxs
  /\ c.fn \in LibCalls => c.x \in Libs
  /\ c.fn = "dlsym" => c.h \in Handles
  /\ c.fn \in SetCalls => c.m # {}

CallType == op = [t \in Threads |-> op[t]] /\ \A t \in Threads : CallOf(op[t])

TypeInv == SlotType /\ HeapType /\ CallType

(* A handle a call still needs stays open: a file or library handle in use *)
(* is not closed, and one that DuplicateHandle will close is used by       *)
(* nobody else.                                                            *)
HandleKept(t) ==
  /\ op[t].fn \in FileCalls /\ op[t].h \in Slots => table[op[t].h] = [kind |-> "H_FILE", ptr |-> op[t].x]
  /\ op[t].fn = "dlsym" => op[t].h \in Slots /\ table[op[t].h] = [kind |-> "H_MODULE", ptr |-> op[t].x]

ClosesAlone(t, h) ==
  /\ table[h].kind = "H_FILE"
  /\ \A s \in Threads \ {t} : ~WillClose(s, h) /\ ~(op[s].fn \in FileCalls /\ op[s].h = h)

Reserved == /\ \A t \in Threads : HandleKept(t)
            /\ \A t \in Threads, h \in Slots : WillClose(t, h) => ClosesAlone(t, h)

(* Descriptors above the standard ones: the slot or the call that owns one *)
(* is its only owner, and an open one has an owner.                        *)
SlotOwns(h, n) == table[h].kind = "H_FILE" /\ table[h].ptr = n
CallOwns(t, n) == op[t].fn \in Owners /\ op[t].x = n

Owned ==
  /\ \A h \in Slots, n \in Fds : SlotOwns(h, n) =>
       /\ n \notin Std /\ fds[n] # Closed /\ fds[n] = means[h]
       /\ \A g \in Slots : SlotOwns(g, n) => g = h
       /\ \A t \in Threads : ~CallOwns(t, n)
  /\ \A t \in Threads, n \in Fds : CallOwns(t, n) =>
       /\ n \notin Std /\ fds[n] # Closed
       /\ \A s \in Threads : CallOwns(s, n) => s = t
  /\ \A n \in Fds \ Std : fds[n] # Closed =>
       (\E h \in Slots : SlotOwns(h, n)) \/ (\E t \in Threads : CallOwns(t, n))

(* What calls in flight and standard handles use without owning it is in   *)
(* a slot, which is not about to be closed by another call.                *)
Borrowed(n) == \E h \in Slots : SlotOwns(h, n)

UseKept(t) ==
  op[t].fn \in FdCalls => \/ Borrowed(op[t].x)
                          \/ op[t].fn \in FileCalls /\ op[t].h \in Std /\ op[t].x = op[t].h

StdKept(n) == table[n].ptr = n \/ Borrowed(table[n].ptr)

CloseKept(t, h) ==
  WillClose(t, h) => /\ \A n \in Std : table[n].ptr # table[h].ptr
                     /\ \A s \in Threads \ {t} : op[s].fn \in FdCalls => op[s].x # table[h].ptr

Kept == /\ \A t \in Threads : UseKept(t)
        /\ \A n \in Std : StdKept(n)
        /\ \A t \in Threads, h \in Slots : CloseKept(t, h)

(* Which file a call and a standard handle lead to. *)
CallRight(t) ==
  /\ op[t].fn \in FdCalls \cup {"alloc"} => fds[op[t].x] \in op[t].m
  /\ op[t].fn \in FileCalls => means[op[t].h] \in op[t].m
  /\ op[t].fn \in SetCalls => op[t].m = {fds[op[t].x]}
  /\ op[t].fn = "set_fd" => table[op[t].h].ptr = op[t].x

SetsStd(t, n) == op[t].fn \in SetCalls /\ op[t].h = n

StdRight(n) ==
  /\ fds[n] # Closed /\ means[n] # Closed /\ fds[table[n].ptr] = means[n]
  /\ fds[n] = means[n] \/ \E t \in Threads : op[t].fn = "set_fd" /\ op[t].h = n
  /\ \A s, t \in Threads : SetsStd(s, n) /\ SetsStd(t, n) => s = t

RightFile == (\A t \in Threads : CallRight(t)) /\ (\A n \in Std : StdRight(n))

FilesInv == Owned /\ Kept /\ RightFile

(* The slots and calls that hold a search, the calls that free it, and the *)
(* slots and calls that hold a library.                                    *)
FindSlots(c) == SlotsWith("H_FIND", c)
FindCalls(c) == CallsWith({"alloc_find", "next", "release"}, c)
Freers(c)    == CallsWith({"free_ctx"}, c)
LibSlots(l)  == SlotsWith("H_MODULE", l)
LibHolds(l)  == CallsWith({"alloc_module", "dlclose"}, l)

(* A search is counted by its holders, or being freed by one call that is  *)
(* alone with it, or not allocated and unknown to everybody.               *)
CtxSound(c) ==
  \/ /\ ctxs[c].live /\ Freers(c) = {} /\ FindSlots(c) \cup FindCalls(c) # {}
     /\ ctxs[c].refcount = Cardinality(FindSlots(c)) + Cardinality(FindCalls(c))
  \/ /\ ctxs[c].live /\ \E t \in Threads : Freers(c) = {t}
     /\ FindSlots(c) = {} /\ FindCalls(c) = {}
  \/ ~ctxs[c].live /\ Freers(c) = {} /\ FindSlots(c) = {} /\ FindCalls(c) = {}

(* A search whose handle is not allocated yet is known to one call only. *)
Unshared(t) ==
  op[t].fn = "alloc_find" => FindSlots(op[t].x) = {} /\ FindCalls(op[t].x) = {t}

Searches == (\A c \in Ctxs : CtxSound(c)) /\ (\A t \in Threads : Unshared(t))

Libraries == \A l \in Libs : libs[l] = Cardinality(LibSlots(l)) + Cardinality(LibHolds(l))

(* A set of natural numbers that is not empty has a least member. *)
LEMMA LeastNumber ==
  ASSUME NEW T \in SUBSET Nat, T # {}
  PROVE  \E x \in T : \A y \in T : x <= y
  <1> DEFINE R == {ss \in Nat \X Nat : ss[1] < ss[2]}
  <1>1. IsWellFoundedOn(R, Nat)
    BY NatLessThanWellFounded DEF OpToRel
  <1>2. PICK x \in T : \A y \in T : ~(<<y, x>> \in R)
    <2> HIDE DEF R
    <2> QED BY <1>1, WFMin
  <1>3. \A y \in T : ~(y < x)
    BY <1>2
  <1> QED BY <1>3

(* The descriptor open and dup return, the slot handle_alloc finds and the *)
(* file behind a new descriptor are free ones.                             *)
LEMMA LowestIn ==
  /\ FreeFds # {} => Lowest(FreeFds) \in Fds /\ fds[Lowest(FreeFds)] = Closed
  /\ FreeSlots # {} => Lowest(FreeSlots) \in Slots /\ table[Lowest(FreeSlots)].kind = "H_FREE"
  /\ NewFiles # {} => Lowest(NewFiles) \in Files
  <1>1. ASSUME NEW S \in SUBSET Nat, S # {} PROVE Lowest(S) \in S
    BY <1>1, LeastNumber DEF Lowest
  <1>2. FreeFds \in SUBSET Nat /\ FreeSlots \in SUBSET Nat /\ NewFiles \in SUBSET Nat
    BY FileAssumption DEF FreeFds, FreeSlots, NewFiles, Fds, Slots, Files
  <1>3. FreeFds # {} => Lowest(FreeFds) \in FreeFds
    BY <1>1, <1>2
  <1>4. FreeSlots # {} => Lowest(FreeSlots) \in FreeSlots
    BY <1>1, <1>2
  <1>5. NewFiles # {} => Lowest(NewFiles) \in NewFiles
    BY <1>1, <1>2
  <1>6. FreeFds # {} => Lowest(FreeFds) \in Fds /\ fds[Lowest(FreeFds)] = Closed
    BY <1>3 DEF FreeFds
  <1>7. FreeSlots # {} => Lowest(FreeSlots) \in Slots /\ table[Lowest(FreeSlots)].kind = "H_FREE"
    BY <1>4 DEF FreeSlots
  <1>8. NewFiles # {} => Lowest(NewFiles) \in Files
    BY <1>5 DEF NewFiles
  <1> QED BY <1>6, <1>7, <1>8

(* The ranges. *)
LEMMA Ranges ==
  /\ Std \subseteq Handles /\ Slots \subseteq Handles /\ Std \subseteq Fds
  /\ Handles = Std \cup Slots /\ Std \cap Slots = {}
  /\ None \notin Handles /\ Closed \in 0 .. MaxFiles /\ Closed \notin Files /\ Files \subseteq 0 .. MaxFiles
  BY FileAssumption DEF Std, Slots, Handles, Fds, Files, Closed, None

(* The actions of Next, one by one. *)
LEMMA NextCases ==
  ASSUME Next
  PROVE
     \/ \E t \in Threads : CreateFile(t)
     \/ \E t \in Threads, n \in Std : CreateFileConsole(t, n)
     \/ \E t \in Threads : AllocFile(t)
     \/ \E t \in Threads, h \in Handles : CloseHandle(t, h)
     \/ \E t \in Threads : CloseSource(t)
     \/ \E t \in Threads : CloseFd(t)
     \/ \E t \in Threads, h \in Handles : StartIo(t, h)
     \/ \E t \in Threads : Io(t)
     \/ \E t \in Threads, n \in Std, h \in Handles : SetStdHandle(t, n, h)
     \/ \E t \in Threads : SetSlot(t)
     \/ \E t \in Threads : SetFd(t)
     \/ \E t \in Threads, h \in Handles, b \in BOOLEAN : DuplicateHandle(t, h, b)
     \/ \E t \in Threads : Dup(t)
     \/ \E t \in Threads : FindFirstFile(t)
     \/ \E t \in Threads : AllocFind(t)
     \/ \E t \in Threads, h \in Handles : FindNextFile(t, h)
     \/ \E t \in Threads : NextEntry(t)
     \/ \E t \in Threads : ReleaseFindCtx(t)
     \/ \E t \in Threads : FindCtxFree(t)
     \/ \E t \in Threads, l \in Libs : LoadLibrary(t, l)
     \/ \E t \in Threads : AllocModule(t)
     \/ \E t \in Threads : DlClose(t)
     \/ \E t \in Threads, h \in Handles : GetProcAddress(t, h)
     \/ \E t \in Threads : DlSym(t)
  BY DEF Next, Begin, Continue

(* A call that goes on as a call keeps the types of the calls. *)
LEMMA GoTyped ==
  ASSUME CallType, NEW t \in Threads, NEW c, CallOf(c), Go(t, c)
  PROVE  CallType'
  BY DEF CallType, Go

(* A call that ends leaves a well formed record.                           *)
LEMMA IdleTyped == CallOf(Idle)
  BY Ranges DEF CallOf, Idle, Ptrs, CallNames, FileCalls, SetCalls, Owners, CtxCalls, LibCalls

(* A slot that is filled or emptied keeps the types of the slots. *)
LEMMA PutTyped ==
  ASSUME SlotType, NEW i \in Slots, NEW s, SlotOf(s),
         s \in [kind : {"H_FREE", "H_FILE", "H_FIND", "H_MODULE"}, ptr : Ptrs],
         table' = [table EXCEPT ![i] = s]
  PROVE  SlotType'
  BY Ranges DEF SlotType

(* Every step keeps the types of the slots.                                *)
LEMMA SlotStep ==
  ASSUME SlotType, CallType, [Next]_vars
  PROVE  SlotType'
<1>0. CASE UNCHANGED vars
  BY <1>0 DEF SlotType, vars
<1>1. ASSUME NEW t \in Threads, CreateFile(t) PROVE SlotType'
  BY <1>1 DEF CreateFile, SlotType
<1>2. ASSUME NEW t \in Threads, NEW n \in Std, CreateFileConsole(t, n) PROVE SlotType'
  BY <1>2 DEF CreateFileConsole, SlotType
<1>3. ASSUME NEW t \in Threads, AllocFile(t) PROVE SlotType'
  <2>1. CASE FreeSlots # {}
    <3> DEFINE s == [kind |-> "H_FILE", ptr |-> op[t].x]
    <3>1. SlotOf(s) /\ s \in [kind : {"H_FREE", "H_FILE", "H_FIND", "H_MODULE"}, ptr : Ptrs]
      BY <1>3 DEF AllocFile, CallType, CallOf, SlotOf, Ptrs, Owners
    <3>2. table' = [table EXCEPT ![Lowest(FreeSlots)] = s]
      BY <1>3, <2>1 DEF AllocFile, Filled
    <3> HIDE DEF s
    <3> QED BY <2>1, <3>1, <3>2, LowestIn, PutTyped
  <2>2. CASE FreeSlots = {}
    BY <1>3, <2>2 DEF AllocFile, SlotType
  <2> QED BY <2>1, <2>2
<1>4. ASSUME NEW t \in Threads, NEW h \in Handles, CloseHandle(t, h) PROVE SlotType'
  <2>1. SlotOf(Free) /\ Free \in [kind : {"H_FREE", "H_FILE", "H_FIND", "H_MODULE"}, ptr : Ptrs]
    BY DEF SlotOf, Free, Ptrs
  <2> QED BY <1>4, <2>1, PutTyped DEF CloseHandle, Closable, Close
<1>5. ASSUME NEW t \in Threads, CloseSource(t) PROVE SlotType'
  <2>1. SlotOf(Free) /\ Free \in [kind : {"H_FREE", "H_FILE", "H_FIND", "H_MODULE"}, ptr : Ptrs]
    BY DEF SlotOf, Free, Ptrs
  <2>2. CASE op[t].h \in Slots
    BY <1>5, <2>1, <2>2, Ranges, PutTyped DEF CloseSource, Close
  <2>3. CASE op[t].h \in Std
    BY <1>5, <2>3, Ranges DEF CloseSource, SlotType
  <2> QED BY <1>5, <2>2, <2>3 DEF CloseSource
<1>6. ASSUME NEW t \in Threads, CloseFd(t) PROVE SlotType'
  BY <1>6 DEF CloseFd, SlotType
<1>7. ASSUME NEW t \in Threads, NEW h \in Handles, StartIo(t, h) PROVE SlotType'
  BY <1>7 DEF StartIo, GetFd, SlotType
<1>8. ASSUME NEW t \in Threads, Io(t) PROVE SlotType'
  BY <1>8 DEF Io, SlotType
<1>9. ASSUME NEW t \in Threads, NEW n \in Std, NEW h \in Handles,
             SetStdHandle(t, n, h)
      PROVE  SlotType'
  BY <1>9 DEF SetStdHandle, SlotType
<1>10. ASSUME NEW t \in Threads, SetSlot(t) PROVE SlotType'
  <2>1. op[t].h \in Std /\ op[t].x \in Fds
    BY <1>10 DEF SetSlot, CallType, CallOf, SetCalls
  <2>2. \A i \in Handles : table'[i] = IF i = op[t].h THEN [kind |-> "H_FILE", ptr |-> op[t].x] ELSE table[i]
    BY <1>10, <2>1, Ranges DEF SetSlot, SlotType
  <2>3. table' = [i \in Handles |-> table'[i]]
    BY <1>10 DEF SetSlot, SlotType
  <2> QED BY <2>1, <2>2, <2>3, Ranges DEF SlotType, SlotOf, Ptrs
<1>11. ASSUME NEW t \in Threads, SetFd(t) PROVE SlotType'
  BY <1>11 DEF SetFd, SlotType
<1>12. ASSUME NEW t \in Threads, NEW h \in Handles, NEW b \in BOOLEAN,
              DuplicateHandle(t, h, b)
       PROVE  SlotType'
  BY <1>12 DEF DuplicateHandle, GetFd, SlotType
<1>13. ASSUME NEW t \in Threads, Dup(t) PROVE SlotType'
  BY <1>13 DEF Dup, SlotType
<1>14. ASSUME NEW t \in Threads, FindFirstFile(t) PROVE SlotType'
  BY <1>14 DEF FindFirstFile, SlotType
<1>15. ASSUME NEW t \in Threads, AllocFind(t) PROVE SlotType'
  <2>1. CASE FreeSlots # {}
    <3> DEFINE s == [kind |-> "H_FIND", ptr |-> op[t].x]
    <3>1. SlotOf(s) /\ s \in [kind : {"H_FREE", "H_FILE", "H_FIND", "H_MODULE"}, ptr : Ptrs]
      BY <1>15 DEF AllocFind, CallType, CallOf, SlotOf, Ptrs, CtxCalls
    <3>2. table' = [table EXCEPT ![Lowest(FreeSlots)] = s]
      BY <1>15, <2>1 DEF AllocFind, Filled
    <3> HIDE DEF s
    <3> QED BY <2>1, <3>1, <3>2, LowestIn, PutTyped
  <2>2. CASE FreeSlots = {}
    BY <1>15, <2>2 DEF AllocFind, SlotType
  <2> QED BY <2>1, <2>2
<1>16. ASSUME NEW t \in Threads, NEW h \in Handles, FindNextFile(t, h) PROVE SlotType'
  BY <1>16 DEF FindNextFile, SlotType
<1>17. ASSUME NEW t \in Threads, NextEntry(t) PROVE SlotType'
  BY <1>17 DEF NextEntry, SlotType
<1>18. ASSUME NEW t \in Threads, ReleaseFindCtx(t) PROVE SlotType'
  BY <1>18 DEF ReleaseFindCtx, SlotType
<1>19. ASSUME NEW t \in Threads, FindCtxFree(t) PROVE SlotType'
  BY <1>19 DEF FindCtxFree, SlotType
<1>20. ASSUME NEW t \in Threads, NEW l \in Libs, LoadLibrary(t, l) PROVE SlotType'
  BY <1>20 DEF LoadLibrary, SlotType
<1>21. ASSUME NEW t \in Threads, AllocModule(t) PROVE SlotType'
  <2>1. CASE FreeSlots # {}
    <3> DEFINE s == [kind |-> "H_MODULE", ptr |-> op[t].x]
    <3>1. SlotOf(s) /\ s \in [kind : {"H_FREE", "H_FILE", "H_FIND", "H_MODULE"}, ptr : Ptrs]
      BY <1>21 DEF AllocModule, CallType, CallOf, SlotOf, Ptrs, LibCalls
    <3>2. table' = [table EXCEPT ![Lowest(FreeSlots)] = s]
      BY <1>21, <2>1 DEF AllocModule, Filled
    <3> HIDE DEF s
    <3> QED BY <2>1, <3>1, <3>2, LowestIn, PutTyped
  <2>2. CASE FreeSlots = {}
    BY <1>21, <2>2 DEF AllocModule, SlotType
  <2> QED BY <2>1, <2>2
<1>22. ASSUME NEW t \in Threads, DlClose(t) PROVE SlotType'
  BY <1>22 DEF DlClose, SlotType
<1>23. ASSUME NEW t \in Threads, NEW h \in Handles, GetProcAddress(t, h) PROVE SlotType'
  BY <1>23 DEF GetProcAddress, SlotType
<1>24. ASSUME NEW t \in Threads, DlSym(t) PROVE SlotType'
  BY <1>24 DEF DlSym, SlotType
<1> QED BY NextCases, <1>0, <1>1, <1>2, <1>3, <1>4, <1>5, <1>6, <1>7, <1>8, <1>9, <1>10, <1>11,
    <1>12, <1>13, <1>14, <1>15, <1>16, <1>17, <1>18, <1>19, <1>20, <1>21, <1>22, <1>23, <1>24

(* Every step keeps the types of descriptors, searches and libraries.      *)
LEMMA HeapStep ==
  ASSUME SlotType, CallType, HeapType, [Next]_vars
  PROVE  HeapType'
<1> USE Ranges, LowestIn DEF HeapType, CallType, CallOf, Call, CallNames, FileCalls, SetCalls,
  Owners, CtxCalls, LibCalls
<1>0. CASE UNCHANGED vars
  BY <1>0 DEF vars
<1>1. ASSUME NEW t \in Threads, CreateFile(t) PROVE HeapType'
  BY <1>1 DEF CreateFile, Go
<1>2. ASSUME NEW t \in Threads, NEW n \in Std, CreateFileConsole(t, n) PROVE HeapType'
  BY <1>2 DEF CreateFileConsole, Go
<1>3. ASSUME NEW t \in Threads, AllocFile(t) PROVE HeapType'
  <2>1. op[t].x \in Fds
    BY <1>3 DEF AllocFile, CallType, CallOf, Owners
  <2>2. CASE FreeSlots # {}
    BY <1>3, <2>1, <2>2 DEF AllocFile
  <2>3. CASE FreeSlots = {}
    BY <1>3, <2>3 DEF AllocFile
  <2> QED BY <2>2, <2>3
<1>4. ASSUME NEW t \in Threads, NEW h \in Handles, CloseHandle(t, h) PROVE HeapType'
  BY <1>4 DEF CloseHandle, Ready, Closable, Close, AfterTake, Go
<1>5. ASSUME NEW t \in Threads, CloseSource(t) PROVE HeapType'
  BY <1>5 DEF CloseSource, Close, AfterTake, Go
<1>6. ASSUME NEW t \in Threads, CloseFd(t) PROVE HeapType'
  BY <1>6 DEF CloseFd, Go
<1>7. ASSUME NEW t \in Threads, NEW h \in Handles, StartIo(t, h) PROVE HeapType'
  BY <1>7 DEF StartIo, Ready, GetFd, Go
<1>8. ASSUME NEW t \in Threads, Io(t) PROVE HeapType'
  BY <1>8 DEF Io, Go
<1>9. ASSUME NEW t \in Threads, NEW n \in Std, NEW h \in Handles,
             SetStdHandle(t, n, h)
      PROVE  HeapType'
  BY <1>9 DEF SetStdHandle, Ready, Go
<1>10. ASSUME NEW t \in Threads, SetSlot(t) PROVE HeapType'
  <2>1. op[t].m \in SUBSET (0 .. MaxFiles) /\ op[t].m # {}
    BY <1>10 DEF SetSlot
  <2>2. (CHOOSE f \in op[t].m : TRUE) \in op[t].m
    BY <2>1
  <2> QED BY <1>10, <2>1, <2>2 DEF SetSlot
<1>11. ASSUME NEW t \in Threads, SetFd(t) PROVE HeapType'
  BY <1>11 DEF SetFd, Redirected, Go
<1>12. ASSUME NEW t \in Threads, NEW h \in Handles, NEW b \in BOOLEAN,
              DuplicateHandle(t, h, b)
       PROVE  HeapType'
  BY <1>12 DEF DuplicateHandle, Ready, Closable, GetFd, Go
<1>13. ASSUME NEW t \in Threads, Dup(t) PROVE HeapType'
  BY <1>13 DEF Dup, DupTo, Go
<1>14. ASSUME NEW t \in Threads, FindFirstFile(t) PROVE HeapType'
  BY <1>14 DEF FindFirstFile, Go
<1>15. ASSUME NEW t \in Threads, AllocFind(t) PROVE HeapType'
  BY <1>15 DEF AllocFind, Filled, Go
<1>16. ASSUME NEW t \in Threads, NEW h \in Handles, FindNextFile(t, h) PROVE HeapType'
  <2>1. table[h].ptr \in Ctxs
    BY <1>16 DEF FindNextFile, SlotType, SlotOf, Free
  <2>2. PICK c \in Ctxs : c = table[h].ptr
    BY <2>1
  <2>3. ctxs' = [ctxs EXCEPT ![c].refcount = @ + 1]
    BY <1>16, <2>2 DEF FindNextFile, Retained
  <2> QED BY <1>16, <2>3, SMTT(30) DEF FindNextFile, HeapType
<1>17. ASSUME NEW t \in Threads, NextEntry(t) PROVE HeapType'
  BY <1>17 DEF NextEntry, Stepped, Go
<1>18. ASSUME NEW t \in Threads, ReleaseFindCtx(t) PROVE HeapType'
  <2>1. op[t].x \in Ctxs
    BY <1>18 DEF ReleaseFindCtx
  <2> QED BY <1>18, <2>1 DEF ReleaseFindCtx, HeapType
<1>19. ASSUME NEW t \in Threads, FindCtxFree(t) PROVE HeapType'
  BY <1>19 DEF FindCtxFree, NoCtx, Go
<1>20. ASSUME NEW t \in Threads, NEW l \in Libs, LoadLibrary(t, l) PROVE HeapType'
  BY <1>20 DEF LoadLibrary, Go
<1>21. ASSUME NEW t \in Threads, AllocModule(t) PROVE HeapType'
  BY <1>21 DEF AllocModule, Filled, ModuleUnplaced, Go
<1>22. ASSUME NEW t \in Threads, DlClose(t) PROVE HeapType'
  BY <1>22 DEF DlClose, Go
<1>23. ASSUME NEW t \in Threads, NEW h \in Handles, GetProcAddress(t, h) PROVE HeapType'
  BY <1>23 DEF GetProcAddress, Ready, Go
<1>24. ASSUME NEW t \in Threads, DlSym(t) PROVE HeapType'
  BY <1>24 DEF DlSym, Go
<1> HIDE DEF HeapType, CallType, CallOf, Call, CallNames, FileCalls, SetCalls, Owners, CtxCalls,
  LibCalls
<1> QED BY NextCases, <1>0, <1>1, <1>2, <1>3, <1>4, <1>5, <1>6, <1>7, <1>8, <1>9, <1>10, <1>11,
    <1>12, <1>13, <1>14, <1>15, <1>16, <1>17, <1>18, <1>19, <1>20, <1>21, <1>22, <1>23, <1>24

(* What CloseHandle goes on with is a call. *)
LEMMA TakeTyped ==
  ASSUME SlotType, NEW h \in Handles, table[h].kind # "H_FREE"
  PROVE  CallOf(AfterTake(h))
  BY DEF SlotType, SlotOf, Free, AfterTake, CallOf, Call, Ptrs, CallNames, FileCalls, SetCalls, Owners, CtxCalls, LibCalls

(* Every step keeps the types of the calls.                                *)
LEMMA CallStep ==
  ASSUME SlotType, HeapType, CallType, Reserved, [Next]_vars
  PROVE  CallType'
<1>0. CASE UNCHANGED vars
  BY <1>0 DEF CallType, CallOf, CallNames, FileCalls, SetCalls, Owners, CtxCalls, LibCalls, vars
<1>1. ASSUME NEW t \in Threads, CreateFile(t) PROVE CallType'
  <2>1. CallOf(Call("alloc", None, Lowest(FreeFds), {Lowest(NewFiles)}))
    BY <1>1, LowestIn, Ranges DEF CreateFile, CallOf, Call, Ptrs, CallNames, FileCalls, SetCalls,
      Owners, CtxCalls, LibCalls
  <2>2. Go(t, Call("alloc", None, Lowest(FreeFds), {Lowest(NewFiles)}))
    BY <1>1 DEF CreateFile
  <2> QED BY <2>1, <2>2, GoTyped
<1>2. ASSUME NEW t \in Threads, NEW n \in Std, CreateFileConsole(t, n) PROVE CallType'
  <2>1. CallOf(Call("alloc", None, Lowest(FreeFds), {fds[n]}))
    BY <1>2, LowestIn, Ranges DEF CreateFileConsole, HeapType, CallOf, Call, Ptrs, CallNames,
      FileCalls, SetCalls, Owners, CtxCalls, LibCalls
  <2>2. Go(t, Call("alloc", None, Lowest(FreeFds), {fds[n]}))
    BY <1>2 DEF CreateFileConsole
  <2> QED BY <2>1, <2>2, GoTyped
<1>3. ASSUME NEW t \in Threads, AllocFile(t) PROVE CallType'
  <2>1. CASE FreeSlots # {} /\ op[t].h = None
    BY <1>3, <2>1, IdleTyped, GoTyped DEF AllocFile
  <2>2. CASE FreeSlots # {} /\ op[t].h # None
    <3>1. CallOf(Call("close_source", op[t].h, None, {}))
      BY <1>3, <2>2 DEF AllocFile, CallType, CallOf, Call, Ptrs, CallNames, FileCalls, SetCalls, Owners, CtxCalls, LibCalls
    <3>2. Go(t, Call("close_source", op[t].h, None, {}))
      BY <1>3, <2>2 DEF AllocFile
    <3> QED BY <3>1, <3>2, GoTyped
  <2>3. CASE FreeSlots = {}
    <3>1. CallOf(Call("close", None, op[t].x, {}))
      BY <1>3 DEF AllocFile, CallType, CallOf, Call, Ptrs, CallNames, FileCalls, SetCalls, Owners, CtxCalls, LibCalls
    <3>2. Go(t, Call("close", None, op[t].x, {}))
      BY <1>3, <2>3 DEF AllocFile, FileUnplaced
    <3> QED BY <3>1, <3>2, GoTyped
  <2> QED BY <2>1, <2>2, <2>3
<1>4. ASSUME NEW t \in Threads, NEW h \in Handles, CloseHandle(t, h) PROVE CallType'
  <2>1. CallOf(AfterTake(h))
    BY <1>4, Ranges, TakeTyped DEF CloseHandle, Closable
  <2> QED BY <1>4, <2>1, GoTyped DEF CloseHandle, Close
<1>5. ASSUME NEW t \in Threads, CloseSource(t) PROVE CallType'
  <2>1. CASE op[t].h \in Slots
    <3>1. WillClose(t, op[t].h)
      BY <1>5 DEF CloseSource, WillClose
    <3>2. CallOf(AfterTake(op[t].h))
      BY <2>1, <3>1, Ranges, TakeTyped DEF Reserved, ClosesAlone
    <3> QED BY <1>5, <2>1, <3>2, Ranges, GoTyped DEF CloseSource, Close
  <2>2. CASE op[t].h \in Std
    BY <1>5, <2>2, Ranges, IdleTyped, GoTyped DEF CloseSource
  <2> QED BY <1>5, <2>1, <2>2 DEF CloseSource
<1>6. ASSUME NEW t \in Threads, CloseFd(t) PROVE CallType'
  BY <1>6, IdleTyped, GoTyped DEF CloseFd
<1>7. ASSUME NEW t \in Threads, NEW h \in Handles, StartIo(t, h) PROVE CallType'
  <2>1. CallOf(Call("io", h, table[h].ptr, {means[h]}))
    BY <1>7, Ranges DEF StartIo, GetFd, HeapType, SlotType, SlotOf, Free, CallOf, Call, Ptrs,
      CallNames, FileCalls, SetCalls, Owners, CtxCalls, LibCalls
  <2>2. Go(t, Call("io", h, table[h].ptr, {means[h]}))
    BY <1>7 DEF StartIo, GetFd
  <2> QED BY <2>1, <2>2, GoTyped
<1>8. ASSUME NEW t \in Threads, Io(t) PROVE CallType'
  BY <1>8, IdleTyped, GoTyped DEF Io
<1>9. ASSUME NEW t \in Threads, NEW n \in Std, NEW h \in Handles,
             SetStdHandle(t, n, h)
      PROVE  CallType'
  <2>1. CallOf(Call("set_slot", n, table[h].ptr, {means[h]}))
    BY <1>9, Ranges DEF SetStdHandle, HeapType, SlotType, SlotOf, Free, CallOf, Call, Ptrs,
      CallNames, FileCalls, SetCalls, Owners, CtxCalls, LibCalls
  <2>2. Go(t, Call("set_slot", n, table[h].ptr, {means[h]}))
    BY <1>9 DEF SetStdHandle
  <2> QED BY <2>1, <2>2, GoTyped
<1>10. ASSUME NEW t \in Threads, SetSlot(t) PROVE CallType'
  <2> DEFINE f == CHOOSE f \in op[t].m : TRUE
  <2>1. op[t].m \in SUBSET (0 .. MaxFiles) /\ op[t].m # {} /\ CallOf(op[t])
    BY <1>10 DEF SetSlot, CallType, CallOf, SetCalls
  <2>2. f \in 0 .. MaxFiles
    BY <2>1
  <2> HIDE DEF f
  <2>3. ASSUME NEW s \in Threads PROVE CallOf(op'[s])
    <3>1. op'[s] = IF s = t THEN [op[t] EXCEPT !.fn = "set_fd"]
                   ELSE IF op[s].h = op[t].h /\ op[s].fn \in {"io", "dup", "dup_close"}
                   THEN [op[s] EXCEPT !.m = @ \cup {f}] ELSE op[s]
      BY <1>10 DEF SetSlot, f
    <3>2. CallOf(op[s])
      BY DEF CallType
    <3>3. CASE s = t
      BY <1>10, <2>1, <3>1, <3>3 DEF SetSlot, CallOf, CallNames, FileCalls, SetCalls, Owners, CtxCalls, LibCalls
    <3>4. CASE s # t
      BY <2>2, <3>1, <3>2, <3>4 DEF CallOf, CallNames, FileCalls, SetCalls, Owners, CtxCalls, LibCalls
    <3> QED BY <3>3, <3>4
  <2>4. op' = [s \in Threads |-> op'[s]]
    BY <1>10 DEF SetSlot
  <2> QED BY <2>3, <2>4 DEF CallType
<1>11. ASSUME NEW t \in Threads, SetFd(t) PROVE CallType'
  BY <1>11, IdleTyped, GoTyped DEF SetFd
<1>12. ASSUME NEW t \in Threads, NEW h \in Handles, NEW b \in BOOLEAN,
              DuplicateHandle(t, h, b)
       PROVE  CallType'
  <2>1. CallOf(Call(IF b THEN "dup_close" ELSE "dup", h, table[h].ptr, {means[h]}))
    BY <1>12, Ranges DEF DuplicateHandle, GetFd, HeapType, SlotType, SlotOf, Free, CallOf, Call,
      Ptrs, CallNames, FileCalls, SetCalls, Owners, CtxCalls, LibCalls
  <2>2. Go(t, Call(IF b THEN "dup_close" ELSE "dup", h, table[h].ptr, {means[h]}))
    BY <1>12 DEF DuplicateHandle, GetFd
  <2> QED BY <2>1, <2>2, GoTyped
<1>13. ASSUME NEW t \in Threads, Dup(t) PROVE CallType'
  <2>1. CASE FreeFds # {} /\ fds[op[t].x] # Closed
    <3>1. CallOf(DupTo(t))
      BY <1>13, <2>1, LowestIn, Ranges DEF Dup, DupTo, CallType, CallOf, Call, Ptrs, CallNames, FileCalls, SetCalls, Owners, CtxCalls, LibCalls
    <3> QED BY <1>13, <2>1, <3>1, GoTyped DEF Dup
  <2>2. CASE ~(FreeFds # {} /\ fds[op[t].x] # Closed)
    BY <1>13, <2>2, IdleTyped, GoTyped DEF Dup
  <2> QED BY <2>1, <2>2
<1>14. ASSUME NEW t \in Threads, FindFirstFile(t) PROVE CallType'
  <2>1. PICK c \in Ctxs : Go(t, Call("alloc_find", None, c, {}))
    BY <1>14 DEF FindFirstFile
  <2>2. CallOf(Call("alloc_find", None, c, {}))
    BY DEF CallOf, Call, Ptrs, CallNames, FileCalls, SetCalls, Owners, CtxCalls, LibCalls
  <2> QED BY <2>1, <2>2, GoTyped
<1>15. ASSUME NEW t \in Threads, AllocFind(t) PROVE CallType'
  <2>1. CASE FreeSlots # {}
    BY <1>15, <2>1, IdleTyped, GoTyped DEF AllocFind
  <2>2. CASE FreeSlots = {}
    <3>1. CallOf(Call("free_ctx", None, op[t].x, {}))
      BY <1>15 DEF AllocFind, CallType, CallOf, Call, Ptrs, CallNames, FileCalls, SetCalls, Owners, CtxCalls, LibCalls
    <3> QED BY <1>15, <2>2, <3>1, GoTyped DEF AllocFind
  <2> QED BY <2>1, <2>2
<1>16. ASSUME NEW t \in Threads, NEW h \in Handles, FindNextFile(t, h) PROVE CallType'
  <2>1. CallOf(Call("next", None, table[h].ptr, {}))
    BY <1>16 DEF FindNextFile, SlotType, SlotOf, Free, CallOf, Call, Ptrs, CallNames, FileCalls,
      SetCalls, Owners, CtxCalls, LibCalls
  <2>2. Go(t, Call("next", None, table[h].ptr, {}))
    BY <1>16 DEF FindNextFile
  <2> QED BY <2>1, <2>2, GoTyped
<1>17. ASSUME NEW t \in Threads, NextEntry(t) PROVE CallType'
  <2>1. CallOf(Call("release", None, op[t].x, {}))
    BY <1>17 DEF NextEntry, CallType, CallOf, Call, Ptrs, CallNames, FileCalls, SetCalls, Owners,
      CtxCalls, LibCalls
  <2>2. Go(t, Call("release", None, op[t].x, {}))
    BY <1>17 DEF NextEntry
  <2> QED BY <2>1, <2>2, GoTyped
<1>18. ASSUME NEW t \in Threads, ReleaseFindCtx(t) PROVE CallType'
  <2>1. CallOf(Call("free_ctx", None, op[t].x, {}))
    BY <1>18 DEF ReleaseFindCtx, CallType, CallOf, Call, Ptrs, CallNames, FileCalls, SetCalls, Owners, CtxCalls, LibCalls
  <2> QED BY <1>18, <2>1, IdleTyped, GoTyped DEF ReleaseFindCtx
<1>19. ASSUME NEW t \in Threads, FindCtxFree(t) PROVE CallType'
  BY <1>19, IdleTyped, GoTyped DEF FindCtxFree
<1>20. ASSUME NEW t \in Threads, NEW l \in Libs, LoadLibrary(t, l) PROVE CallType'
  <2>1. CallOf(Call("alloc_module", None, l, {}))
    BY <1>20 DEF LoadLibrary, CallOf, Call, Ptrs, CallNames, FileCalls, SetCalls, Owners, CtxCalls,
      LibCalls
  <2>2. Go(t, Call("alloc_module", None, l, {}))
    BY <1>20 DEF LoadLibrary
  <2> QED BY <2>1, <2>2, GoTyped
<1>21. ASSUME NEW t \in Threads, AllocModule(t) PROVE CallType'
  <2>1. CASE FreeSlots # {}
    BY <1>21, <2>1, IdleTyped, GoTyped DEF AllocModule
  <2>2. CASE FreeSlots = {}
    <3>1. CallOf(ModuleUnplaced(op[t].x))
      BY <1>21 DEF AllocModule, ModuleUnplaced, CallType, CallOf, Call, Ptrs, CallNames, FileCalls, SetCalls, Owners, CtxCalls, LibCalls
    <3> QED BY <1>21, <2>2, <3>1, GoTyped DEF AllocModule
  <2> QED BY <2>1, <2>2
<1>22. ASSUME NEW t \in Threads, DlClose(t) PROVE CallType'
  BY <1>22, IdleTyped, GoTyped DEF DlClose
<1>23. ASSUME NEW t \in Threads, NEW h \in Handles, GetProcAddress(t, h) PROVE CallType'
  <2>1. CallOf(Call("dlsym", h, table[h].ptr, {}))
    BY <1>23 DEF GetProcAddress, SlotType, SlotOf, Free, CallOf, Call, Ptrs, CallNames, FileCalls,
      SetCalls, Owners, CtxCalls, LibCalls
  <2>2. Go(t, Call("dlsym", h, table[h].ptr, {}))
    BY <1>23 DEF GetProcAddress
  <2> QED BY <2>1, <2>2, GoTyped
<1>24. ASSUME NEW t \in Threads, DlSym(t) PROVE CallType'
  BY <1>24, IdleTyped, GoTyped DEF DlSym
<1> QED BY NextCases, <1>0, <1>1, <1>2, <1>3, <1>4, <1>5, <1>6, <1>7, <1>8, <1>9, <1>10, <1>11,
    <1>12, <1>13, <1>14, <1>15, <1>16, <1>17, <1>18, <1>19, <1>20, <1>21, <1>22, <1>23, <1>24

(* What a step of t does to its own call and to free slots endangers no    *)
(* handle in use, unless it starts to use or to close one.                 *)
LEMMA Harmless ==
  ASSUME Reserved, NEW t \in Threads,
         \A s \in Threads \ {t} : op'[s] = op[s],
         op'[t].fn \notin {"io", "dup", "dup_close", "dlsym"},
         op'[t].fn \in {"alloc", "close_source"} => \/ op'[t].h = None
                                                    \/ op'[t].h = op[t].h /\ op[t].fn \in {"dup_close", "alloc"},
         \A h \in Slots : table[h].kind = "H_FREE" \/ table'[h] = table[h]
  PROVE  Reserved'
<1> USE Ranges
<1>1. ASSUME NEW s \in Threads PROVE HandleKept(s)'
  <2>1. CASE s = t
    BY <2>1 DEF HandleKept, FileCalls
  <2>2. CASE s # t
    <3>1. op'[s] = op[s] /\ HandleKept(s)
      BY <2>2 DEF Reserved
    <3> QED BY <3>1 DEF HandleKept, FileCalls
  <2> QED BY <2>1, <2>2
<1>2. ASSUME NEW s \in Threads, NEW h \in Slots PROVE WillClose(s, h)' => WillClose(s, h)
  BY DEF WillClose
<1>3. ASSUME NEW s \in Threads, NEW h \in Slots, WillClose(s, h)' PROVE ClosesAlone(s, h)'
  <2>1. WillClose(s, h) /\ ClosesAlone(s, h)
    BY <1>2, <1>3 DEF Reserved
  <2>2. table'[h].kind = "H_FILE"
    BY <2>1 DEF ClosesAlone
  <2>3. \A r \in Threads \ {s} : ~WillClose(r, h)'
    BY <1>2, <2>1 DEF ClosesAlone
  <2>4. \A r \in Threads \ {s} : ~(op'[r].fn \in FileCalls /\ op'[r].h = h)
    BY <2>1 DEF ClosesAlone, FileCalls
  <2> QED BY <2>2, <2>3, <2>4 DEF ClosesAlone
<1> QED BY <1>1, <1>3 DEF Reserved

(* A slot that another call uses or will close is not the one t empties. *)
LEMMA Emptied ==
  ASSUME SlotType, CallType, Reserved, NEW t \in Threads, NEW h \in Slots,
         \A s \in Threads \ {t} : op'[s] = op[s],
         op'[t].fn \in {"close", "release", "dlclose"},
         \A i \in Handles : table'[i] = IF i = h THEN Free ELSE table[i],
         \A s \in Threads \ {t} : ~WillClose(s, h),
         \A s \in Threads \ {t} : op[s].fn \in FileCalls \cup {"dlsym"} => op[s].h # h
  PROVE  Reserved'
<1>1. ASSUME NEW s \in Threads PROVE HandleKept(s)'
  <2>1. CASE s = t
    BY <2>1 DEF HandleKept, FileCalls
  <2>2. CASE s # t
    <3>1. op'[s] = op[s] /\ HandleKept(s)
      BY <2>2 DEF Reserved
    <3> QED BY <2>2, <3>1, Ranges DEF HandleKept
  <2> QED BY <2>1, <2>2
<1>2. ASSUME NEW s \in Threads, NEW g \in Slots, WillClose(s, g)' PROVE ClosesAlone(s, g)'
  <2>1. s # t /\ WillClose(s, g) /\ g # h
    BY <1>2 DEF WillClose
  <2>2. ClosesAlone(s, g)
    BY <2>1 DEF Reserved
  <2>3. ASSUME NEW r \in Threads \ {s} PROVE ~WillClose(r, g)' /\ ~(op'[r].fn \in FileCalls /\ op'[r].h = g)
    BY <2>2 DEF ClosesAlone, WillClose, FileCalls
  <2> QED BY <2>1, <2>2, <2>3, Ranges DEF ClosesAlone
<1> QED BY <1>1, <1>2 DEF Reserved

(* Every step keeps the handles that calls still need.                     *)
LEMMA ReservedStep ==
  ASSUME SlotType, CallType, Reserved, [Next]_vars
  PROVE  Reserved'
<1>0. CASE UNCHANGED vars
  BY <1>0 DEF Reserved, HandleKept, ClosesAlone, WillClose, vars
<1>1. ASSUME NEW t \in Threads, CreateFile(t) PROVE Reserved'
  <2>1. \A s \in Threads \ {t} : op'[s] = op[s]
    BY <1>1 DEF CreateFile, Go, CallType
  <2>2. op'[t].fn = "alloc" /\ op'[t].h = None /\ table' = table
    BY <1>1 DEF CreateFile, Go, Call, CallType
  <2>3. \A h \in Slots : table'[h] = table[h]
    BY <2>2
  <2>4. op'[t].fn \notin {"io", "dup", "dup_close", "dlsym"}
    BY <2>2
  <2> HIDE DEF None
  <2> QED BY <2>1, <2>2, <2>3, <2>4, Harmless
<1>2. ASSUME NEW t \in Threads, NEW n \in Std, CreateFileConsole(t, n) PROVE Reserved'
  <2>1. \A s \in Threads \ {t} : op'[s] = op[s]
    BY <1>2 DEF CreateFileConsole, Go, CallType
  <2>2. op'[t].fn = "alloc" /\ op'[t].h = None /\ table' = table
    BY <1>2 DEF CreateFileConsole, Go, Call, CallType
  <2>3. \A h \in Slots : table'[h] = table[h]
    BY <2>2
  <2>4. op'[t].fn \notin {"io", "dup", "dup_close", "dlsym"}
    BY <2>2
  <2> HIDE DEF None
  <2> QED BY <2>1, <2>2, <2>3, <2>4, Harmless
<1>3. ASSUME NEW t \in Threads, AllocFile(t) PROVE Reserved'
  <2>1. \A s \in Threads \ {t} : op'[s] = op[s]
    BY <1>3 DEF AllocFile, Go, CallType
  <2>2. \A h \in Slots : table[h].kind = "H_FREE" \/ table'[h] = table[h]
    BY <1>3, LowestIn, Ranges DEF AllocFile, Filled, SlotType
  <2>3. /\ op'[t].fn \notin {"io", "dup", "dup_close", "dlsym", "alloc"}
        /\ op'[t].fn = "close_source" => op'[t].h = op[t].h /\ op[t].fn = "alloc"
    BY <1>3 DEF AllocFile, Filled, FileUnplaced, Go, Call, Idle, CallType
  <2> QED BY <2>1, <2>2, <2>3, Harmless
<1>4. ASSUME NEW t \in Threads, NEW h \in Handles, CloseHandle(t, h) PROVE Reserved'
  <2>1. h \in Slots /\ op[t] = Idle /\ \A s \in Threads : ~WillClose(s, h)
    BY <1>4 DEF CloseHandle, Closable, Ready
  <2>2. /\ \A s \in Threads \ {t} : op'[s] = op[s]
        /\ op'[t] = AfterTake(h)
        /\ \A i \in Handles : table'[i] = IF i = h THEN Free ELSE table[i]
    BY <1>4 DEF CloseHandle, Close, Go, CallType, SlotType
  <2>3. op'[t].fn \in {"close", "release", "dlclose"}
    BY <1>4, <2>1, <2>2, Ranges DEF CloseHandle, Closable, AfterTake, Call, SlotType, SlotOf
  <2>4. ASSUME NEW s \in Threads \ {t}, op[s].fn \in FileCalls \cup {"dlsym"} PROVE op[s].h # h
    <3>1. HandleKept(s) BY DEF Reserved
    <3> QED BY <1>4, <2>1, <2>4, <3>1 DEF CloseHandle, Closable, HandleKept, FileCalls, FdCalls
  <2> QED BY <2>1, <2>2, <2>3, <2>4, Emptied
<1>5. ASSUME NEW t \in Threads, CloseSource(t) PROVE Reserved'
  <2>1. CASE op[t].h \in Slots
    <3>1. PICK h \in Slots : h = op[t].h
      BY <2>1
    <3>2. WillClose(t, h) /\ ClosesAlone(t, h)
      BY <1>5, <3>1 DEF CloseSource, WillClose, Reserved
    <3>3. /\ \A s \in Threads \ {t} : op'[s] = op[s]
          /\ op'[t] = AfterTake(h)
          /\ \A i \in Handles : table'[i] = IF i = h THEN Free ELSE table[i]
      BY <1>5, <3>1, Ranges DEF CloseSource, Close, Go, CallType, SlotType
    <3>4. op'[t].fn \in {"close", "release", "dlclose"}
      BY <3>2, <3>3 DEF ClosesAlone, AfterTake, Call
    <3>5. ASSUME NEW s \in Threads \ {t}, op[s].fn \in FileCalls \cup {"dlsym"} PROVE op[s].h # h
      <4>1. HandleKept(s) BY DEF Reserved
      <4> QED BY <3>2, <3>5, <4>1 DEF ClosesAlone, HandleKept
    <3> QED BY <3>2, <3>3, <3>4, <3>5, Emptied DEF ClosesAlone
  <2>2. CASE op[t].h \in Std
    BY <1>5, <2>2, Harmless, Ranges DEF CloseSource, Go, Idle, CallType
  <2> QED BY <1>5, <2>1, <2>2 DEF CloseSource
<1>6. ASSUME NEW t \in Threads, CloseFd(t) PROVE Reserved'
  BY <1>6, Harmless, Ranges DEF CloseFd, Go, Call, Idle, SlotType, CallType
<1>7. ASSUME NEW t \in Threads, NEW h \in Handles, StartIo(t, h) PROVE Reserved'
  <2>1. /\ \A s \in Threads \ {t} : op'[s] = op[s]
        /\ op'[t].fn = "io" /\ op'[t].h = h /\ op'[t].x = table[h].ptr
        /\ table' = table
    BY <1>7 DEF StartIo, GetFd, Go, Call, CallType
  <2>2. table[h].kind = "H_FILE" /\ \A s \in Threads : ~WillClose(s, h)
    BY <1>7 DEF StartIo, GetFd, Ready
  <2>3. ASSUME NEW s \in Threads PROVE HandleKept(s)'
    <3>1. CASE s = t
      BY <2>1, <2>2, <3>1, Ranges DEF HandleKept, FileCalls, SlotType
    <3>2. CASE s # t
      BY <2>1, <3>2 DEF HandleKept, Reserved
    <3> QED BY <3>1, <3>2
  <2>4. ASSUME NEW s \in Threads, NEW g \in Slots, WillClose(s, g)' PROVE ClosesAlone(s, g)'
    <3>1. s # t /\ WillClose(s, g) /\ g # h
      BY <2>1, <2>2, <2>4 DEF WillClose
    <3>2. ClosesAlone(s, g)
      BY <3>1 DEF Reserved
    <3> QED BY <2>1, <3>1, <3>2 DEF ClosesAlone, WillClose
  <2> QED BY <2>3, <2>4 DEF Reserved
<1>8. ASSUME NEW t \in Threads, Io(t) PROVE Reserved'
  BY <1>8, Harmless, Ranges DEF Io, Go, Call, Idle, SlotType, CallType
<1>9. ASSUME NEW t \in Threads, NEW n \in Std, NEW h \in Handles,
             SetStdHandle(t, n, h)
      PROVE  Reserved'
  BY <1>9, Harmless, Ranges DEF SetStdHandle, Ready, Go, Call, Idle, SlotType, CallType
<1>10. ASSUME NEW t \in Threads, SetSlot(t) PROVE Reserved'
  <2>1. /\ \A s \in Threads : op'[s].h = op[s].h /\ op'[s].x = op[s].x
        /\ \A s \in Threads : op'[s].fn = IF s = t THEN "set_fd" ELSE op[s].fn
    BY <1>10 DEF SetSlot, CallType, CallOf
  <2>2. \A h \in Slots : table'[h] = table[h]
    BY <1>10, Ranges DEF SetSlot, SlotType, CallType, CallOf, SetCalls
  <2>3. ASSUME NEW s \in Threads PROVE HandleKept(s)'
    BY <1>10, <2>1, <2>2, Ranges DEF HandleKept, FileCalls, Reserved, SetSlot
  <2>4. ASSUME NEW s \in Threads, NEW h \in Slots PROVE WillClose(s, h)' = WillClose(s, h)
    BY <1>10, <2>1 DEF WillClose, SetSlot
  <2>5. ASSUME NEW s \in Threads, NEW h \in Slots, WillClose(s, h)' PROVE ClosesAlone(s, h)'
    <3>1. ClosesAlone(s, h)
      BY <2>4, <2>5 DEF Reserved
    <3>2. \A r \in Threads \ {s} : ~WillClose(r, h)'
      BY <2>4, <3>1 DEF ClosesAlone
    <3>3. \A r \in Threads \ {s} : ~(op'[r].fn \in FileCalls /\ op'[r].h = h)
      BY <2>1, <3>1 DEF ClosesAlone, FileCalls
    <3> QED BY <2>2, <3>1, <3>2, <3>3 DEF ClosesAlone
  <2> QED BY <2>3, <2>5 DEF Reserved
<1>11. ASSUME NEW t \in Threads, SetFd(t) PROVE Reserved'
  BY <1>11, Harmless, Ranges DEF SetFd, Redirected, Go, Call, Idle, SlotType, CallType
<1>12. ASSUME NEW t \in Threads, NEW h \in Handles, NEW b \in BOOLEAN,
              DuplicateHandle(t, h, b)
       PROVE  Reserved'
  <2>1. /\ \A s \in Threads \ {t} : op'[s] = op[s]
        /\ op'[t].fn = (IF b THEN "dup_close" ELSE "dup") /\ op'[t].h = h /\ op'[t].x = table[h].ptr
        /\ table' = table
    BY <1>12 DEF DuplicateHandle, GetFd, Go, Call, CallType
  <2>2. table[h].kind = "H_FILE" /\ \A s \in Threads : ~WillClose(s, h)
    BY <1>12 DEF DuplicateHandle, GetFd, Ready
  <2>3. ASSUME NEW s \in Threads PROVE HandleKept(s)'
    <3>1. CASE s = t
      BY <2>1, <2>2, <3>1, Ranges DEF HandleKept, FileCalls, SlotType
    <3>2. CASE s # t
      BY <2>1, <3>2 DEF HandleKept, Reserved
    <3> QED BY <3>1, <3>2
  <2>4. ASSUME NEW s \in Threads, NEW g \in Slots, WillClose(s, g)' PROVE ClosesAlone(s, g)'
    <3>1. CASE s # t
      <4>1. WillClose(s, g) /\ g # h /\ ClosesAlone(s, g)
        BY <2>1, <2>2, <2>4, <3>1 DEF WillClose, Reserved
      <4> QED BY <2>1, <4>1 DEF ClosesAlone, WillClose
    <3>2. CASE s = t
      <4>1. g = h /\ b /\ Closable(h)
        BY <1>12, <2>1, <2>4, <3>2, Ranges DEF WillClose, DuplicateHandle
      <4>2. ASSUME NEW r \in Threads \ {t}, op[r].fn \in FileCalls PROVE op[r].h # h
        <5>1. HandleKept(r) BY DEF Reserved
        <5> QED BY <2>2, <4>1, <4>2, <5>1 DEF Closable, FileCalls, FdCalls, HandleKept
      <4> QED BY <2>1, <2>2, <3>2, <4>1, <4>2 DEF ClosesAlone, WillClose
    <3> QED BY <3>1, <3>2
  <2> QED BY <2>3, <2>4 DEF Reserved
<1>13. ASSUME NEW t \in Threads, Dup(t) PROVE Reserved'
  <2>1. \A s \in Threads \ {t} : op'[s] = op[s]
    BY <1>13 DEF Dup, Go, CallType
  <2>2. /\ op'[t].fn \in {"none", "alloc"} /\ table' = table
        /\ op'[t].fn = "alloc" => \/ op'[t].h = None
                                  \/ op'[t].h = op[t].h /\ op[t].fn = "dup_close"
    <3>1. op[t].fn \in {"dup", "dup_close"} /\ table' = table
      BY <1>13 DEF Dup
    <3>2. op'[t] = Idle \/ op'[t] = DupTo(t)
      BY <1>13 DEF Dup, Go, CallType
    <3> QED BY <3>1, <3>2 DEF DupTo, Call, Idle
  <2> QED BY <2>1, <2>2, Harmless
<1>14. ASSUME NEW t \in Threads, FindFirstFile(t) PROVE Reserved'
  BY <1>14, Harmless, Ranges DEF FindFirstFile, Go, Call, Idle, SlotType, CallType
<1>15. ASSUME NEW t \in Threads, AllocFind(t) PROVE Reserved'
  <2>1. \A s \in Threads \ {t} : op'[s] = op[s]
    BY <1>15 DEF AllocFind, Go, CallType
  <2>2. \A h \in Slots : table[h].kind = "H_FREE" \/ table'[h] = table[h]
    BY <1>15, LowestIn, Ranges DEF AllocFind, Filled, SlotType
  <2>3. /\ op'[t].fn \notin {"io", "dup", "dup_close", "dlsym", "alloc"}
        /\ op'[t].fn = "close_source" => op'[t].h = op[t].h /\ op[t].fn = "alloc"
    BY <1>15 DEF AllocFind, Filled, Go, Call, Idle, CallType
  <2> QED BY <2>1, <2>2, <2>3, Harmless
<1>16. ASSUME NEW t \in Threads, NEW h \in Handles, FindNextFile(t, h) PROVE Reserved'
  BY <1>16, Harmless, Ranges DEF FindNextFile, Retained, Go, Call, Idle, SlotType, CallType
<1>17. ASSUME NEW t \in Threads, NextEntry(t) PROVE Reserved'
  BY <1>17, Harmless, Ranges DEF NextEntry, Stepped, Go, Call, Idle, SlotType, CallType
<1>18. ASSUME NEW t \in Threads, ReleaseFindCtx(t) PROVE Reserved'
  BY <1>18, Harmless, Ranges DEF ReleaseFindCtx, Go, Call, Idle, SlotType, CallType
<1>19. ASSUME NEW t \in Threads, FindCtxFree(t) PROVE Reserved'
  BY <1>19, Harmless, Ranges DEF FindCtxFree, NoCtx, Go, Call, Idle, SlotType, CallType
<1>20. ASSUME NEW t \in Threads, NEW l \in Libs, LoadLibrary(t, l) PROVE Reserved'
  BY <1>20, Harmless, Ranges DEF LoadLibrary, Go, Call, Idle, SlotType, CallType
<1>21. ASSUME NEW t \in Threads, AllocModule(t) PROVE Reserved'
  <2>1. \A s \in Threads \ {t} : op'[s] = op[s]
    BY <1>21 DEF AllocModule, Go, CallType
  <2>2. \A h \in Slots : table[h].kind = "H_FREE" \/ table'[h] = table[h]
    BY <1>21, LowestIn, Ranges DEF AllocModule, Filled, SlotType
  <2>3. /\ op'[t].fn \notin {"io", "dup", "dup_close", "dlsym", "alloc"}
        /\ op'[t].fn = "close_source" => op'[t].h = op[t].h /\ op[t].fn = "alloc"
    BY <1>21 DEF AllocModule, Filled, ModuleUnplaced, Go, Call, Idle, CallType
  <2> QED BY <2>1, <2>2, <2>3, Harmless
<1>22. ASSUME NEW t \in Threads, DlClose(t) PROVE Reserved'
  BY <1>22, Harmless, Ranges DEF DlClose, Go, Call, Idle, SlotType, CallType
<1>23. ASSUME NEW t \in Threads, NEW h \in Handles, GetProcAddress(t, h) PROVE Reserved'
  <2>1. /\ \A s \in Threads \ {t} : op'[s] = op[s]
        /\ op'[t].fn = "dlsym" /\ op'[t].h = h /\ op'[t].x = table[h].ptr
        /\ table' = table
    BY <1>23 DEF GetProcAddress, Go, Call, CallType
  <2>2. table[h].kind = "H_MODULE" /\ \A s \in Threads : ~WillClose(s, h)
    BY <1>23 DEF GetProcAddress, Ready
  <2>3. ASSUME NEW s \in Threads PROVE HandleKept(s)'
    <3>1. CASE s = t
      BY <2>1, <2>2, <3>1, Ranges DEF HandleKept, FileCalls, SlotType
    <3>2. CASE s # t
      BY <2>1, <3>2 DEF HandleKept, Reserved
    <3> QED BY <3>1, <3>2
  <2>4. ASSUME NEW s \in Threads, NEW g \in Slots, WillClose(s, g)' PROVE ClosesAlone(s, g)'
    <3>1. s # t /\ WillClose(s, g) /\ g # h
      BY <2>1, <2>2, <2>4 DEF WillClose
    <3>2. ClosesAlone(s, g)
      BY <3>1 DEF Reserved
    <3> QED BY <2>1, <3>1, <3>2 DEF ClosesAlone, WillClose
  <2> QED BY <2>3, <2>4 DEF Reserved
<1>24. ASSUME NEW t \in Threads, DlSym(t) PROVE Reserved'
  BY <1>24, Harmless, Ranges DEF DlSym, Go, Call, Idle, SlotType, CallType
<1> QED BY NextCases, <1>0, <1>1, <1>2, <1>3, <1>4, <1>5, <1>6, <1>7, <1>8, <1>9, <1>10, <1>11,
    <1>12, <1>13, <1>14, <1>15, <1>16, <1>17, <1>18, <1>19, <1>20, <1>21, <1>22, <1>23, <1>24

(* The holders can be counted, and one more or one less counts one more or *)
(* one less.                                                               *)
LEMMA HoldersFinite ==
  /\ \A kind, x : IsFiniteSet(SlotsWith(kind, x)) /\ Cardinality(SlotsWith(kind, x)) \in Nat
  /\ \A fns, x : IsFiniteSet(CallsWith(fns, x)) /\ Cardinality(CallsWith(fns, x)) \in Nat
  <1>1. IsFiniteSet(Slots)
    BY FileAssumption, FS_Interval DEF Slots
  <1>2. ASSUME NEW kind, NEW x PROVE IsFiniteSet(SlotsWith(kind, x)) /\ Cardinality(SlotsWith(kind, x)) \in Nat
    <2>1. SlotsWith(kind, x) \subseteq Slots BY DEF SlotsWith
    <2> QED BY <1>1, <2>1, FS_Subset, FS_CardinalityType
  <1>3. ASSUME NEW fns, NEW x PROVE IsFiniteSet(CallsWith(fns, x)) /\ Cardinality(CallsWith(fns, x)) \in Nat
    <2>1. CallsWith(fns, x) \subseteq Threads BY DEF CallsWith
    <2> QED BY FileAssumption, <2>1, FS_Subset, FS_CardinalityType
  <1> QED BY <1>2, <1>3

(* The same, for the sets of holders that have names.                      *)
LEMMA NamedFinite ==
  ASSUME NEW c
  PROVE  /\ IsFiniteSet(FindSlots(c)) /\ Cardinality(FindSlots(c)) \in Nat
         /\ IsFiniteSet(FindCalls(c)) /\ Cardinality(FindCalls(c)) \in Nat
         /\ IsFiniteSet(LibSlots(c)) /\ Cardinality(LibSlots(c)) \in Nat
         /\ IsFiniteSet(LibHolds(c)) /\ Cardinality(LibHolds(c)) \in Nat
  BY HoldersFinite DEF FindSlots, FindCalls, LibSlots, LibHolds

(* A member more counts one more.                                          *)
LEMMA Added ==
  ASSUME NEW S, IsFiniteSet(S), NEW x, x \notin S
  PROVE  Cardinality(S \cup {x}) = Cardinality(S) + 1
  BY FS_AddElement

(* A member less counts one less.                                          *)
LEMMA Removed ==
  ASSUME NEW S, IsFiniteSet(S), NEW x \in S
  PROVE  Cardinality(S \ {x}) = Cardinality(S) - 1
  BY FS_RemoveElement

(* Only the empty set counts nothing.                                      *)
LEMMA NoneOrSome ==
  ASSUME NEW S, IsFiniteSet(S)
  PROVE  /\ Cardinality(S) \in Nat
         /\ Cardinality(S) = 0 <=> S = {}
         /\ \A x : Cardinality({x}) = 1
  BY FS_CardinalityType, FS_EmptySet, FS_Singleton

(* A step that changes neither the holders of a search nor the search      *)
(* keeps it sound.                                                         *)
LEMMA CtxKept ==
  ASSUME NEW c \in Ctxs, CtxSound(c), FindSlots(c)' = FindSlots(c), FindCalls(c)' = FindCalls(c),
         Freers(c)' = Freers(c), ctxs'[c].live = ctxs[c].live, ctxs'[c].refcount = ctxs[c].refcount
  PROVE  CtxSound(c)'
  BY DEF CtxSound

(* A step that leaves all searches to their holders. *)
LEMMA SearchesKept ==
  ASSUME CallType, Searches, NEW t \in Threads, op'[t].fn # "alloc_find",
         \A s \in Threads \ {t} : op'[s].fn = op[s].fn /\ op'[s].x = op[s].x,
         \A c \in Ctxs : /\ FindSlots(c)' = FindSlots(c) /\ FindCalls(c)' = FindCalls(c)
                         /\ Freers(c)' = Freers(c)
                         /\ ctxs'[c].live = ctxs[c].live /\ ctxs'[c].refcount = ctxs[c].refcount
  PROVE  Searches'
  <1>1. \A c \in Ctxs : CtxSound(c)'
    BY CtxKept DEF Searches
  <1>2. ASSUME NEW s \in Threads PROVE Unshared(s)'
    <2>1. CASE s = t
      BY <2>1 DEF Unshared
    <2>2. CASE s # t
      BY <2>2 DEF Unshared, Searches, CallType, CallOf, CtxCalls
    <2> QED BY <2>1, <2>2
  <1> QED BY <1>1, <1>2 DEF Searches

(* What one slot, or one call, changes in the holders of something. *)
LEMMA FindSlotsMoved ==
  ASSUME NEW h \in Slots, \A i \in Slots \ {h} : table'[i] = table[i], NEW c
  PROVE  /\ table'[h].kind = "H_FIND" /\ table'[h].ptr = c => FindSlots(c)' = FindSlots(c) \cup {h}
         /\ ~(table'[h].kind = "H_FIND" /\ table'[h].ptr = c) => FindSlots(c)' = FindSlots(c) \ {h}
         /\ h \notin FindSlots(c) /\ ~(table'[h].kind = "H_FIND" /\ table'[h].ptr = c)
              => FindSlots(c)' = FindSlots(c)
  BY DEF FindSlots, SlotsWith

Holds(call, c) == call.fn \in {"alloc_find", "next", "release"} /\ call.x = c
Frees(call, c) == call.fn = "free_ctx" /\ call.x = c

(* What one call that goes on changes in who holds and who frees a search. *)
LEMMA FindCallsMoved ==
  ASSUME NEW t \in Threads, \A s \in Threads \ {t} : op'[s].fn = op[s].fn /\ op'[s].x = op[s].x, NEW c
  PROVE  /\ Holds(op'[t], c) => FindCalls(c)' = FindCalls(c) \cup {t}
         /\ ~Holds(op'[t], c) => FindCalls(c)' = FindCalls(c) \ {t}
         /\ (Holds(op'[t], c) <=> Holds(op[t], c)) => FindCalls(c)' = FindCalls(c)
         /\ Frees(op'[t], c) => Freers(c)' = Freers(c) \cup {t}
         /\ ~Frees(op'[t], c) => Freers(c)' = Freers(c) \ {t}
         /\ (Frees(op'[t], c) <=> Frees(op[t], c)) => Freers(c)' = Freers(c)
  <1>1. /\ Holds(op'[t], c) => FindCalls(c)' = FindCalls(c) \cup {t}
        /\ ~Holds(op'[t], c) => FindCalls(c)' = FindCalls(c) \ {t}
        /\ (Holds(op'[t], c) <=> Holds(op[t], c)) => FindCalls(c)' = FindCalls(c)
    BY DEF FindCalls, CallsWith, Holds
  <1>2. /\ Frees(op'[t], c) => Freers(c)' = Freers(c) \cup {t}
        /\ ~Frees(op'[t], c) => Freers(c)' = Freers(c) \ {t}
        /\ (Frees(op'[t], c) <=> Frees(op[t], c)) => Freers(c)' = Freers(c)
    BY DEF Freers, CallsWith, Frees
  <1> QED BY <1>1, <1>2

(* Who holds a search and who frees it, member by member.                  *)
LEMMA Membership ==
  ASSUME NEW c
  PROVE  /\ \A t \in Threads : t \in FindCalls(c) <=> Holds(op[t], c)
         /\ \A t \in Threads : t \in Freers(c) <=> Frees(op[t], c)
         /\ \A h \in Slots : h \in FindSlots(c) <=> table[h].kind = "H_FIND" /\ table[h].ptr = c
  BY DEF FindCalls, Freers, FindSlots, CallsWith, SlotsWith, Holds, Frees

(* A step of t that concerns one search, which is no other call's fresh    *)
(* one.                                                                    *)
LEMMA OneSearch ==
  ASSUME CallType, Searches, NEW t \in Threads, NEW c \in Ctxs,
         \A s \in Threads \ {t} : op'[s].fn = op[s].fn /\ op'[s].x = op[s].x,
         \A d \in Ctxs \ {c} : /\ FindSlots(d)' = FindSlots(d) /\ FindCalls(d)' = FindCalls(d)
                               /\ Freers(d)' = Freers(d) /\ ctxs'[d] = ctxs[d],
         CtxSound(c)', Unshared(t)',
         FindSlots(c) # {} \/ t \in FindCalls(c) \/ FindCalls(c) = {}
  PROVE  Searches'
  <1>1. ASSUME NEW d \in Ctxs PROVE CtxSound(d)'
    <2>1. CASE d = c BY <2>1
    <2>2. CASE d # c BY <2>2, CtxKept DEF Searches
    <2> QED BY <2>1, <2>2
  <1>2. ASSUME NEW s \in Threads \ {t} PROVE Unshared(s)'
    <2>1. SUFFICES ASSUME op[s].fn = "alloc_find" PROVE Unshared(s)'
      BY DEF Unshared
    <2>2. op[s].x \in Ctxs /\ FindSlots(op[s].x) = {} /\ FindCalls(op[s].x) = {s}
      BY <2>1 DEF Searches, Unshared, CallType, CallOf, CtxCalls
    <2>3. op[s].x # c
      BY <2>2
    <2>4. PICK d \in Ctxs : d = op[s].x /\ d # c
      BY <2>2, <2>3
    <2>5. FindSlots(d)' = {} /\ FindCalls(d)' = {s} /\ op'[s].x = d
      BY <2>2, <2>4
    <2> QED BY <2>4, <2>5 DEF Unshared
  <1> QED BY <1>1, <1>2 DEF Searches

(* Emptying the slot of a search hands its reference to the call. *)
LEMMA SearchTaken ==
  ASSUME SlotType, CallType, Searches, NEW t \in Threads, NEW h \in Slots,
         op[t].fn \in {"none", "close_source"}, table[h].kind # "H_FREE",
         \A s \in Threads \ {t} : op'[s].fn = op[s].fn /\ op'[s].x = op[s].x,
         op'[t] = AfterTake(h), table' = [table EXCEPT ![h] = Free], ctxs' = ctxs
  PROVE  Searches'
  <1>1. table'[h] = Free /\ \A i \in Slots \ {h} : table'[i] = table[i]
    BY Ranges DEF SlotType
  <1>2. \A d : FindSlots(d)' = FindSlots(d) \ {h}
    BY <1>1, FindSlotsMoved DEF Free
  <1>3. \A d : t \notin FindCalls(d) /\ t \notin Freers(d)
    BY Membership DEF Holds, Frees
  <1>4. CASE table[h].kind = "H_FIND"
    <2>1. PICK c \in Ctxs : c = table[h].ptr
      BY <1>4, Ranges DEF SlotType, SlotOf, Free
    <2>2. op'[t].fn = "release" /\ op'[t].x = c
      BY <1>4, <2>1 DEF AfterTake, Call
    <2>3. h \in FindSlots(c) /\ \A d \in Ctxs \ {c} : h \notin FindSlots(d)
      BY <1>4, <2>1, Membership DEF Holds, Frees
    <2>4. \A d \in Ctxs : FindCalls(d)' = (IF d = c THEN FindCalls(d) \cup {t} ELSE FindCalls(d)) /\ Freers(d)' = Freers(d)
      BY <1>3, <2>2, FindCallsMoved, Membership DEF Holds, Frees
    <2>5. /\ ctxs[c].live /\ Freers(c) = {}
          /\ ctxs[c].refcount = Cardinality(FindSlots(c)) + Cardinality(FindCalls(c))
      BY <2>3 DEF Searches, CtxSound
    <2>6. FindSlots(c)' = FindSlots(c) \ {h} /\ FindCalls(c)' = FindCalls(c) \cup {t} /\ Freers(c)' = {}
      BY <1>2, <2>4, <2>5
    <2>7. /\ Cardinality(FindSlots(c))' = Cardinality(FindSlots(c)) - 1
          /\ Cardinality(FindCalls(c))' = Cardinality(FindCalls(c)) + 1
      BY <1>3, <2>3, <2>6, NamedFinite, Added, Removed
    <2>8. CtxSound(c)'
      BY <2>5, <2>6, <2>7, NamedFinite DEF CtxSound
    <2>9. Unshared(t)'
      BY <2>2 DEF Unshared
    <2>10. \A d \in Ctxs \ {c} : FindSlots(d)' = FindSlots(d) /\ FindCalls(d)' = FindCalls(d) /\ Freers(d)' = Freers(d)
      BY <1>2, <2>3, <2>4
    <2> QED BY <2>3, <2>8, <2>9, <2>10, OneSearch
  <1>5. CASE table[h].kind # "H_FIND"
    <2>1. op'[t].fn \in {"close", "dlclose"}
      BY <1>5, Ranges DEF AfterTake, Call, SlotType, SlotOf, Free
    <2>2. \A d \in Ctxs : FindCalls(d)' = FindCalls(d) /\ Freers(d)' = Freers(d)
      BY <1>3, <2>1, FindCallsMoved, Membership DEF Holds, Frees
    <2>3. \A d \in Ctxs : FindSlots(d)' = FindSlots(d)
      BY <1>1, <1>5, FindSlotsMoved, Membership DEF Free
    <2>4. op'[t].fn # "alloc_find"
      BY <2>1
    <2> QED BY <2>2, <2>3, <2>4, SearchesKept
  <1> QED BY <1>4, <1>5

(* Every step keeps the searches sound.                                    *)
LEMMA SearchStep ==
  ASSUME SlotType, HeapType, CallType, Reserved, Searches, [Next]_vars
  PROVE  Searches'
<1>0. CASE UNCHANGED vars
  <2>1. \A c : FindSlots(c)' = FindSlots(c) /\ FindCalls(c)' = FindCalls(c) /\ Freers(c)' = Freers(c)
    BY <1>0 DEF vars, FindSlots, FindCalls, Freers, SlotsWith, CallsWith
  <2>2. op' = op /\ ctxs' = ctxs
    BY <1>0 DEF vars
  <2> QED BY <2>1, <2>2 DEF Searches, CtxSound, Unshared
<1>1. ASSUME NEW t \in Threads, CreateFile(t) PROVE Searches'
  <2>1. /\ op'[t].fn # "alloc_find"
        /\ \A s \in Threads \ {t} : op'[s].fn = op[s].fn /\ op'[s].x = op[s].x
    BY <1>1 DEF CreateFile, Go, Call, Idle, CallType, CallOf
  <2>2. \A c \in Ctxs : FindSlots(c)' = FindSlots(c) /\ FindCalls(c)' = FindCalls(c) /\ Freers(c)' = Freers(c)
    BY <1>1, Ranges, LowestIn DEF CreateFile, Go, Call, Idle, CallType, CallOf, SlotType,
      FindSlots, FindCalls, Freers, SlotsWith, CallsWith
  <2>3. ctxs' = ctxs
    BY <1>1 DEF CreateFile
  <2> QED BY <2>1, <2>2, <2>3, SearchesKept
<1>2. ASSUME NEW t \in Threads, NEW n \in Std, CreateFileConsole(t, n) PROVE Searches'
  <2>1. /\ op'[t].fn # "alloc_find"
        /\ \A s \in Threads \ {t} : op'[s].fn = op[s].fn /\ op'[s].x = op[s].x
    BY <1>2 DEF CreateFileConsole, Go, Call, Idle, CallType, CallOf
  <2>2. \A c \in Ctxs : FindSlots(c)' = FindSlots(c) /\ FindCalls(c)' = FindCalls(c) /\ Freers(c)' = Freers(c)
    BY <1>2, Ranges, LowestIn DEF CreateFileConsole, Go, Call, Idle, CallType, CallOf, SlotType,
      FindSlots, FindCalls, Freers, SlotsWith, CallsWith
  <2>3. ctxs' = ctxs
    BY <1>2 DEF CreateFileConsole
  <2> QED BY <2>1, <2>2, <2>3, SearchesKept
<1>3. ASSUME NEW t \in Threads, AllocFile(t) PROVE Searches'
  <2>1. /\ op'[t].fn # "alloc_find"
        /\ \A s \in Threads \ {t} : op'[s].fn = op[s].fn /\ op'[s].x = op[s].x
    BY <1>3 DEF AllocFile, Filled, FileUnplaced, Go, Call, Idle, CallType, CallOf
  <2>2. \A c \in Ctxs : FindSlots(c)' = FindSlots(c) /\ FindCalls(c)' = FindCalls(c) /\ Freers(c)' = Freers(c)
    BY <1>3, Ranges, LowestIn DEF AllocFile, Filled, FileUnplaced, Go, Call, Idle, CallType,
      CallOf, SlotType, FindSlots, FindCalls, Freers, SlotsWith, CallsWith
  <2>3. ctxs' = ctxs
    BY <1>3 DEF AllocFile, Filled, FileUnplaced
  <2> QED BY <2>1, <2>2, <2>3, SearchesKept
<1>4. ASSUME NEW t \in Threads, NEW h \in Handles, CloseHandle(t, h) PROVE Searches'
  <2>1. /\ h \in Slots /\ table[h].kind # "H_FREE" /\ op[t].fn = "none"
        /\ table' = [table EXCEPT ![h] = Free] /\ ctxs' = ctxs
    BY <1>4 DEF CloseHandle, Ready, Closable, Close, Idle
  <2>2. op'[t] = AfterTake(h) /\ \A s \in Threads \ {t} : op'[s].fn = op[s].fn /\ op'[s].x = op[s].x
    BY <1>4 DEF CloseHandle, Close, Go, CallType
  <2> QED BY <2>1, <2>2, SearchTaken
<1>5. ASSUME NEW t \in Threads, CloseSource(t) PROVE Searches'
  <2>1. CASE op[t].h \in Slots
    <3>1. PICK h \in Slots : h = op[t].h
      BY <2>1
    <3>2. op[t].fn = "close_source" /\ WillClose(t, h) /\ table[h].kind # "H_FREE"
      BY <1>5, <3>1 DEF CloseSource, WillClose, Reserved, ClosesAlone
    <3>3. table' = [table EXCEPT ![h] = Free] /\ ctxs' = ctxs
      BY <1>5, <3>1, Ranges DEF CloseSource, Close
    <3>4. op'[t] = AfterTake(h) /\ \A s \in Threads \ {t} : op'[s].fn = op[s].fn /\ op'[s].x = op[s].x
      BY <1>5, <3>1, Ranges DEF CloseSource, Close, Go, CallType
    <3> QED BY <3>2, <3>3, <3>4, SearchTaken
  <2>2. CASE op[t].h \in Std
    <3>1. op'[t] = Idle /\ table' = table /\ ctxs' = ctxs /\ op[t].fn = "close_source"
      BY <1>5, <2>2, Ranges DEF CloseSource, Go, CallType
    <3>2. \A s \in Threads \ {t} : op'[s].fn = op[s].fn /\ op'[s].x = op[s].x
      BY <1>5, <2>2, Ranges DEF CloseSource, Go, CallType
    <3>3. \A c : FindSlots(c)' = FindSlots(c) /\ t \notin FindCalls(c) /\ t \notin Freers(c)
      BY <3>1, Membership DEF FindSlots, SlotsWith, Holds, Frees
    <3>4. \A c \in Ctxs : FindCalls(c)' = FindCalls(c) /\ Freers(c)' = Freers(c)
      BY <3>1, <3>2, <3>3, FindCallsMoved, Membership DEF Idle, Holds, Frees
    <3>5. op'[t].fn # "alloc_find"
      BY <3>1 DEF Idle
    <3> QED BY <3>1, <3>2, <3>3, <3>4, <3>5, SearchesKept
  <2> QED BY <1>5, <2>1, <2>2 DEF CloseSource
<1>6. ASSUME NEW t \in Threads, CloseFd(t) PROVE Searches'
  <2>1. /\ op'[t].fn # "alloc_find"
        /\ \A s \in Threads \ {t} : op'[s].fn = op[s].fn /\ op'[s].x = op[s].x
    BY <1>6 DEF CloseFd, Go, Call, Idle, CallType, CallOf
  <2>2. \A c \in Ctxs : FindSlots(c)' = FindSlots(c) /\ FindCalls(c)' = FindCalls(c) /\ Freers(c)' = Freers(c)
    BY <1>6, Ranges, LowestIn DEF CloseFd, Go, Call, Idle, CallType, CallOf, SlotType, FindSlots,
      FindCalls, Freers, SlotsWith, CallsWith
  <2>3. ctxs' = ctxs
    BY <1>6 DEF CloseFd
  <2> QED BY <2>1, <2>2, <2>3, SearchesKept
<1>7. ASSUME NEW t \in Threads, NEW h \in Handles, StartIo(t, h) PROVE Searches'
  <2>1. /\ op'[t].fn # "alloc_find"
        /\ \A s \in Threads \ {t} : op'[s].fn = op[s].fn /\ op'[s].x = op[s].x
    BY <1>7 DEF StartIo, Ready, GetFd, Go, Call, Idle, CallType, CallOf
  <2>2. \A c \in Ctxs : FindSlots(c)' = FindSlots(c) /\ FindCalls(c)' = FindCalls(c) /\ Freers(c)' = Freers(c)
    BY <1>7, Ranges, LowestIn DEF StartIo, Ready, GetFd, Go, Call, Idle, CallType, CallOf,
      SlotType, FindSlots, FindCalls, Freers, SlotsWith, CallsWith
  <2>3. ctxs' = ctxs
    BY <1>7 DEF StartIo, Ready, GetFd
  <2> QED BY <2>1, <2>2, <2>3, SearchesKept
<1>8. ASSUME NEW t \in Threads, Io(t) PROVE Searches'
  <2>1. /\ op'[t].fn # "alloc_find"
        /\ \A s \in Threads \ {t} : op'[s].fn = op[s].fn /\ op'[s].x = op[s].x
    BY <1>8 DEF Io, Go, Call, Idle, CallType, CallOf
  <2>2. \A c \in Ctxs : FindSlots(c)' = FindSlots(c) /\ FindCalls(c)' = FindCalls(c) /\ Freers(c)' = Freers(c)
    BY <1>8, Ranges, LowestIn DEF Io, Go, Call, Idle, CallType, CallOf, SlotType, FindSlots,
      FindCalls, Freers, SlotsWith, CallsWith
  <2>3. ctxs' = ctxs
    BY <1>8 DEF Io
  <2> QED BY <2>1, <2>2, <2>3, SearchesKept
<1>9. ASSUME NEW t \in Threads, NEW n \in Std, NEW h \in Handles,
             SetStdHandle(t, n, h)
      PROVE  Searches'
  <2>1. /\ op'[t].fn # "alloc_find"
        /\ \A s \in Threads \ {t} : op'[s].fn = op[s].fn /\ op'[s].x = op[s].x
    BY <1>9 DEF SetStdHandle, Ready, Go, Call, Idle, CallType, CallOf
  <2>2. \A c \in Ctxs : FindSlots(c)' = FindSlots(c) /\ FindCalls(c)' = FindCalls(c) /\ Freers(c)' = Freers(c)
    BY <1>9, Ranges, LowestIn DEF SetStdHandle, Ready, Go, Call, Idle, CallType, CallOf, SlotType,
      FindSlots, FindCalls, Freers, SlotsWith, CallsWith
  <2>3. ctxs' = ctxs
    BY <1>9 DEF SetStdHandle, Ready
  <2> QED BY <2>1, <2>2, <2>3, SearchesKept
<1>10. ASSUME NEW t \in Threads, SetSlot(t) PROVE Searches'
  <2>1. /\ op[t].fn = "set_slot" /\ op'[t].fn = "set_fd"
        /\ \A s \in Threads \ {t} : op'[s].fn = op[s].fn /\ op'[s].x = op[s].x
    BY <1>10 DEF SetSlot, CallType, CallOf
  <2>2. \A i \in Slots : table'[i] = table[i]
    BY <1>10, Ranges DEF SetSlot, SlotType, CallType, CallOf, SetCalls
  <2>3. \A c : FindSlots(c)' = FindSlots(c) /\ t \notin FindCalls(c) /\ t \notin Freers(c)
    BY <2>1, <2>2, Membership DEF FindSlots, SlotsWith, Holds, Frees
  <2>4. \A c \in Ctxs : FindCalls(c)' = FindCalls(c) /\ Freers(c)' = Freers(c)
    BY <2>1, <2>3, FindCallsMoved, Membership DEF Holds, Frees
  <2>5. ctxs' = ctxs /\ op'[t].fn # "alloc_find"
    BY <1>10, <2>1 DEF SetSlot
  <2> QED BY <2>1, <2>3, <2>4, <2>5, SearchesKept
<1>11. ASSUME NEW t \in Threads, SetFd(t) PROVE Searches'
  <2>1. /\ op'[t].fn # "alloc_find"
        /\ \A s \in Threads \ {t} : op'[s].fn = op[s].fn /\ op'[s].x = op[s].x
    BY <1>11 DEF SetFd, Redirected, Go, Call, Idle, CallType, CallOf
  <2>2. \A c \in Ctxs : FindSlots(c)' = FindSlots(c) /\ FindCalls(c)' = FindCalls(c) /\ Freers(c)' = Freers(c)
    BY <1>11, Ranges, LowestIn DEF SetFd, Redirected, Go, Call, Idle, CallType, CallOf, SlotType,
      FindSlots, FindCalls, Freers, SlotsWith, CallsWith
  <2>3. ctxs' = ctxs
    BY <1>11 DEF SetFd, Redirected
  <2> QED BY <2>1, <2>2, <2>3, SearchesKept
<1>12. ASSUME NEW t \in Threads, NEW h \in Handles, NEW b \in BOOLEAN,
              DuplicateHandle(t, h, b)
       PROVE  Searches'
  <2>1. /\ op'[t].fn # "alloc_find"
        /\ \A s \in Threads \ {t} : op'[s].fn = op[s].fn /\ op'[s].x = op[s].x
    BY <1>12 DEF DuplicateHandle, Ready, Closable, GetFd, Go, Call, Idle, CallType, CallOf
  <2>2. \A c \in Ctxs : FindSlots(c)' = FindSlots(c) /\ FindCalls(c)' = FindCalls(c) /\ Freers(c)' = Freers(c)
    BY <1>12, Ranges, LowestIn DEF DuplicateHandle, Ready, Closable, GetFd, Go, Call, Idle,
      CallType, CallOf, SlotType, FindSlots, FindCalls, Freers, SlotsWith, CallsWith
  <2>3. ctxs' = ctxs
    BY <1>12 DEF DuplicateHandle, Ready, Closable, GetFd
  <2> QED BY <2>1, <2>2, <2>3, SearchesKept
<1>13. ASSUME NEW t \in Threads, Dup(t) PROVE Searches'
  <2>1. /\ op'[t].fn # "alloc_find"
        /\ \A s \in Threads \ {t} : op'[s].fn = op[s].fn /\ op'[s].x = op[s].x
    BY <1>13 DEF Dup, DupTo, Go, Call, Idle, CallType, CallOf
  <2>2. \A c \in Ctxs : FindSlots(c)' = FindSlots(c) /\ FindCalls(c)' = FindCalls(c) /\ Freers(c)' = Freers(c)
    BY <1>13, Ranges, LowestIn DEF Dup, DupTo, Go, Call, Idle, CallType, CallOf, SlotType,
      FindSlots, FindCalls, Freers, SlotsWith, CallsWith
  <2>3. ctxs' = ctxs
    BY <1>13 DEF Dup, DupTo
  <2> QED BY <2>1, <2>2, <2>3, SearchesKept
<1>14. ASSUME NEW t \in Threads, FindFirstFile(t) PROVE Searches'
  <2>1. op[t] = Idle /\ table' = table
    BY <1>14 DEF FindFirstFile
  <2>2. PICK c \in Ctxs : /\ ~ctxs[c].live
                          /\ ctxs' = [ctxs EXCEPT ![c] = [live |-> TRUE, refcount |-> 1, next |-> 1]]
                          /\ Go(t, Call("alloc_find", None, c, {}))
    BY <1>14 DEF FindFirstFile
  <2>3. /\ \A s \in Threads \ {t} : op'[s].fn = op[s].fn /\ op'[s].x = op[s].x
        /\ op'[t].fn = "alloc_find" /\ op'[t].x = c
    BY <2>2 DEF Go, Call, CallType
  <2>4. \A d : FindSlots(d)' = FindSlots(d)
    BY <2>1 DEF FindSlots, SlotsWith
  <2>5. \A d : t \notin FindCalls(d) /\ t \notin Freers(d)
    BY <2>1, Membership DEF Idle, Holds, Frees
  <2>6. \A d \in Ctxs : FindCalls(d)' = (IF d = c THEN FindCalls(d) \cup {t} ELSE FindCalls(d)) /\ Freers(d)' = Freers(d)
    BY <2>3, <2>5, FindCallsMoved, Membership DEF Holds, Frees
  <2>7. FindSlots(c) = {} /\ FindCalls(c) = {} /\ Freers(c) = {}
    BY <2>2 DEF Searches, CtxSound
  <2>8. FindSlots(c)' = {} /\ FindCalls(c)' = {t} /\ Freers(c)' = {}
    BY <2>4, <2>6, <2>7
  <2>9. ctxs'[c].live /\ ctxs'[c].refcount = 1 /\ \A d \in Ctxs \ {c} : ctxs'[d] = ctxs[d]
    BY <2>2 DEF HeapType
  <2>10. Cardinality(FindSlots(c))' = 0 /\ Cardinality(FindCalls(c))' = 1
    BY <2>8, FS_EmptySet, FS_Singleton
  <2>11. CtxSound(c)'
    BY <2>8, <2>9, <2>10 DEF CtxSound
  <2>12. Unshared(t)'
    BY <2>3, <2>8 DEF Unshared
  <2> QED BY <2>3, <2>4, <2>6, <2>7, <2>9, <2>11, <2>12, OneSearch
<1>15. ASSUME NEW t \in Threads, AllocFind(t) PROVE Searches'
  <2>1. PICK c \in Ctxs : c = op[t].x
    BY <1>15 DEF AllocFind, CallType, CallOf, CtxCalls
  <2>2. /\ op[t].fn = "alloc_find" /\ ctxs' = ctxs
        /\ \A s \in Threads \ {t} : op'[s].fn = op[s].fn /\ op'[s].x = op[s].x
    BY <1>15 DEF AllocFind, Go, CallType
  <2>3. FindSlots(c) = {} /\ FindCalls(c) = {t}
    BY <2>1, <2>2 DEF Searches, Unshared
  <2>4. \A d \in Ctxs \ {c} : t \notin FindCalls(d)
    BY <2>1, Membership DEF Holds, Frees
  <2>5. \A d : t \notin Freers(d)
    BY <2>2, Membership DEF Holds, Frees
  <2>6. ctxs[c].live /\ Freers(c) = {} /\ ctxs[c].refcount = 1
    <3>1. Cardinality(FindSlots(c)) = 0 /\ Cardinality(FindCalls(c)) = 1
      BY <2>3, FS_EmptySet, FS_Singleton
    <3>2. CtxSound(c) /\ FindCalls(c) # {}
      BY <2>3 DEF Searches
    <3> QED BY <3>1, <3>2 DEF CtxSound
  <2>7. CASE FreeSlots # {}
    <3>1. PICK i \in Slots : i = Lowest(FreeSlots) /\ table[i].kind = "H_FREE"
      BY <2>7, LowestIn
    <3>2. op'[t] = Idle /\ table' = [table EXCEPT ![i] = [kind |-> "H_FIND", ptr |-> c]]
      BY <1>15, <2>1, <2>7, <3>1 DEF AllocFind, Go, Filled, CallType
    <3>3. table'[i].kind = "H_FIND" /\ table'[i].ptr = c /\ \A j \in Slots \ {i} : table'[j] = table[j]
      BY <3>2, Ranges DEF SlotType
    <3>4. \A d : i \notin FindSlots(d)
      BY <3>1, Membership DEF Holds, Frees
    <3>5. \A d \in Ctxs : FindSlots(d)' = IF d = c THEN FindSlots(d) \cup {i} ELSE FindSlots(d)
      BY <3>3, <3>4, FindSlotsMoved
    <3>6. \A d \in Ctxs : FindCalls(d)' = FindCalls(d) \ {t} /\ Freers(d)' = Freers(d)
      BY <2>2, <2>5, <3>2, FindCallsMoved, Membership DEF Idle, Holds, Frees
    <3>7. FindSlots(c)' = {i} /\ FindCalls(c)' = {} /\ Freers(c)' = {}
      BY <2>3, <2>6, <3>5, <3>6
    <3>8. Cardinality(FindSlots(c))' = 1 /\ Cardinality(FindCalls(c))' = 0
      BY <3>7, FS_EmptySet, FS_Singleton
    <3>9. CtxSound(c)'
      BY <2>2, <2>6, <3>7, <3>8 DEF CtxSound
    <3>10. Unshared(t)'
      BY <3>2 DEF Unshared, Idle
    <3>11. \A d \in Ctxs \ {c} : FindSlots(d)' = FindSlots(d) /\ FindCalls(d)' = FindCalls(d) /\ Freers(d)' = Freers(d)
      BY <2>4, <3>5, <3>6
    <3> QED BY <2>2, <2>3, <3>9, <3>10, <3>11, OneSearch
  <2>8. CASE FreeSlots = {}
    <3>1. op'[t].fn = "free_ctx" /\ op'[t].x = c /\ table' = table
      BY <1>15, <2>1, <2>8 DEF AllocFind, Go, Call, CallType
    <3>2. \A d : FindSlots(d)' = FindSlots(d)
      BY <3>1 DEF FindSlots, SlotsWith
    <3>3. \A d \in Ctxs : /\ FindCalls(d)' = FindCalls(d) \ {t}
                          /\ Freers(d)' = IF d = c THEN Freers(d) \cup {t} ELSE Freers(d)
      BY <2>2, <2>5, <3>1, FindCallsMoved, Membership DEF Holds, Frees
    <3>4. FindSlots(c)' = {} /\ FindCalls(c)' = {} /\ Freers(c)' = {t}
      BY <2>3, <2>6, <3>2, <3>3
    <3>5. CtxSound(c)'
      BY <2>2, <2>6, <3>4 DEF CtxSound
    <3>6. Unshared(t)'
      BY <3>1 DEF Unshared
    <3>7. \A d \in Ctxs \ {c} : FindSlots(d)' = FindSlots(d) /\ FindCalls(d)' = FindCalls(d) /\ Freers(d)' = Freers(d)
      BY <2>4, <3>2, <3>3
    <3> QED BY <2>2, <2>3, <3>5, <3>6, <3>7, OneSearch
  <2> QED BY <2>7, <2>8
<1>16. ASSUME NEW t \in Threads, NEW h \in Handles, FindNextFile(t, h) PROVE Searches'
  <2>1. PICK c \in Ctxs : c = table[h].ptr
    BY <1>16 DEF FindNextFile, SlotType, SlotOf, Free
  <2>2. /\ op[t] = Idle /\ table' = table /\ table[h].kind = "H_FIND"
        /\ ctxs' = [ctxs EXCEPT ![c].refcount = @ + 1]
        /\ \A s \in Threads \ {t} : op'[s].fn = op[s].fn /\ op'[s].x = op[s].x
        /\ op'[t].fn = "next" /\ op'[t].x = c
    BY <1>16, <2>1 DEF FindNextFile, Retained, Go, Call, CallType
  <2>3. h \in FindSlots(c)
    BY <2>1, <2>2, Ranges, Membership DEF SlotType, Holds, Frees
  <2>4. \A d : t \notin FindCalls(d) /\ t \notin Freers(d)
    BY <2>2, Membership DEF Idle, Holds, Frees
  <2>5. \A d : FindSlots(d)' = FindSlots(d)
    BY <2>2 DEF FindSlots, SlotsWith
  <2>6. \A d \in Ctxs : FindCalls(d)' = (IF d = c THEN FindCalls(d) \cup {t} ELSE FindCalls(d)) /\ Freers(d)' = Freers(d)
    BY <2>2, <2>4, FindCallsMoved, Membership DEF Holds, Frees
  <2>7. /\ ctxs[c].live /\ Freers(c) = {}
        /\ ctxs[c].refcount = Cardinality(FindSlots(c)) + Cardinality(FindCalls(c))
    BY <2>3 DEF Searches, CtxSound
  <2>8. FindSlots(c)' = FindSlots(c) /\ FindCalls(c)' = FindCalls(c) \cup {t} /\ Freers(c)' = {}
    BY <2>5, <2>6, <2>7
  <2>9. Cardinality(FindCalls(c))' = Cardinality(FindCalls(c)) + 1
    BY <2>4, <2>8, NamedFinite, Added
  <2>10. ctxs'[c].live /\ ctxs'[c].refcount = ctxs[c].refcount + 1 /\ \A d \in Ctxs \ {c} : ctxs'[d] = ctxs[d]
    BY <2>2, <2>7 DEF HeapType
  <2>11. CtxSound(c)'
    BY <2>3, <2>7, <2>8, <2>9, <2>10, NamedFinite DEF CtxSound
  <2>12. Unshared(t)'
    BY <2>2 DEF Unshared
  <2> QED BY <2>2, <2>3, <2>5, <2>6, <2>10, <2>11, <2>12, OneSearch
<1>17. ASSUME NEW t \in Threads, NextEntry(t) PROVE Searches'
  <2>1. PICK c \in Ctxs : c = op[t].x
    BY <1>17 DEF NextEntry, CallType, CallOf, CtxCalls
  <2>2. /\ op[t].fn = "next" /\ table' = table
        /\ ctxs' = [ctxs EXCEPT ![c].next = Stepped(@)]
        /\ \A s \in Threads \ {t} : op'[s].fn = op[s].fn /\ op'[s].x = op[s].x
        /\ op'[t].fn = "release" /\ op'[t].x = c
    BY <1>17, <2>1 DEF NextEntry, Go, Call, CallType
  <2>3. t \in FindCalls(c) /\ (\A d \in Ctxs \ {c} : t \notin FindCalls(d)) /\ (\A d : t \notin Freers(d))
    BY <2>1, <2>2, Membership DEF Holds, Frees
  <2>4. \A d : FindSlots(d)' = FindSlots(d)
    BY <2>2 DEF FindSlots, SlotsWith
  <2>5. \A d \in Ctxs : FindCalls(d)' = FindCalls(d) /\ Freers(d)' = Freers(d)
    BY <2>2, <2>3, FindCallsMoved, Membership DEF Holds, Frees
  <2>6. \A d \in Ctxs : ctxs'[d].live = ctxs[d].live /\ ctxs'[d].refcount = ctxs[d].refcount
    BY <2>2 DEF HeapType
  <2>7. op'[t].fn # "alloc_find"
    BY <2>2
  <2> QED BY <2>2, <2>4, <2>5, <2>6, <2>7, SearchesKept
<1>18. ASSUME NEW t \in Threads, ReleaseFindCtx(t) PROVE Searches'
  <2>1. PICK c \in Ctxs : c = op[t].x
    BY <1>18 DEF ReleaseFindCtx, CallType, CallOf, CtxCalls
  <2>2. /\ op[t].fn = "release" /\ table' = table
        /\ ctxs' = [ctxs EXCEPT ![c].refcount = @ - 1]
        /\ \A s \in Threads \ {t} : op'[s].fn = op[s].fn /\ op'[s].x = op[s].x
        /\ op'[t] = IF ctxs[c].refcount = 1 THEN Call("free_ctx", None, c, {}) ELSE Idle
    BY <1>18, <2>1 DEF ReleaseFindCtx, Go, CallType
  <2>3. t \in FindCalls(c) /\ (\A d \in Ctxs \ {c} : t \notin FindCalls(d)) /\ (\A d : t \notin Freers(d))
    BY <2>1, <2>2, Membership DEF Holds, Frees
  <2>4. \A d : FindSlots(d)' = FindSlots(d)
    BY <2>2 DEF FindSlots, SlotsWith
  <2>5. /\ ctxs[c].live /\ Freers(c) = {}
        /\ ctxs[c].refcount = Cardinality(FindSlots(c)) + Cardinality(FindCalls(c))
    BY <2>3 DEF Searches, CtxSound
  <2>6. Cardinality(FindCalls(c) \ {t}) = Cardinality(FindCalls(c)) - 1 /\ Cardinality(FindCalls(c)) >= 1
    BY <2>3, NamedFinite, Removed, NoneOrSome
  <2>7. ctxs'[c].live /\ ctxs'[c].refcount = ctxs[c].refcount - 1 /\ \A d \in Ctxs \ {c} : ctxs'[d] = ctxs[d]
    BY <2>2, <2>5 DEF HeapType
  <2>8. Unshared(t)'
    BY <2>2 DEF Unshared, Call, Idle
  <2>9. \A d \in Ctxs : FindCalls(d)' = FindCalls(d) \ {t}
    BY <2>2, FindCallsMoved, Membership DEF Call, Idle, Holds, Frees
  <2>10. CASE ctxs[c].refcount = 1
    <3>1. Cardinality(FindSlots(c)) = 0 /\ Cardinality(FindCalls(c)) = 1
      BY <2>5, <2>6, <2>10, NamedFinite
    <3>2. FindSlots(c) = {} /\ FindCalls(c) \ {t} = {}
      <4>1. Cardinality(FindCalls(c) \ {t}) = 0 /\ IsFiniteSet(FindCalls(c) \ {t})
        BY <2>6, <3>1, NamedFinite, FS_RemoveElement
      <4> QED BY <3>1, <4>1, NamedFinite, NoneOrSome
    <3>3. \A d \in Ctxs : Freers(d)' = IF d = c THEN Freers(d) \cup {t} ELSE Freers(d)
      BY <2>2, <2>3, <2>10, FindCallsMoved, Membership DEF Call, Holds, Frees
    <3>4. FindSlots(c)' = {} /\ FindCalls(c)' = {} /\ Freers(c)' = {t}
      BY <2>4, <2>5, <2>9, <3>2, <3>3
    <3>5. CtxSound(c)'
      BY <2>7, <3>4 DEF CtxSound
    <3>6. \A d \in Ctxs \ {c} : FindSlots(d)' = FindSlots(d) /\ FindCalls(d)' = FindCalls(d) /\ Freers(d)' = Freers(d)
      BY <2>2, <2>3, <2>4, <2>10, <3>3, FindCallsMoved, Membership DEF Call, Holds, Frees
    <3> QED BY <2>2, <2>3, <2>7, <2>8, <3>5, <3>6, OneSearch
  <2>11. CASE ctxs[c].refcount # 1
    <3>1. \A d \in Ctxs : Freers(d)' = Freers(d)
      BY <2>2, <2>3, <2>11, FindCallsMoved, Membership DEF Idle, Holds, Frees
    <3>2. FindSlots(c)' = FindSlots(c) /\ FindCalls(c)' = FindCalls(c) \ {t} /\ Freers(c)' = {}
      BY <2>4, <2>5, <2>9, <3>1
    <3>3. FindSlots(c) \cup (FindCalls(c) \ {t}) # {}
      <4>1. SUFFICES ASSUME FindSlots(c) = {}, FindCalls(c) \ {t} = {} PROVE FALSE
        OBVIOUS
      <4>2. Cardinality(FindSlots(c)) = 0 /\ Cardinality(FindCalls(c) \ {t}) = 0
        BY <4>1, FS_EmptySet
      <4> QED BY <2>5, <2>6, <2>11, <4>2, NamedFinite
    <3>4. Cardinality(FindCalls(c))' = Cardinality(FindCalls(c)) - 1 /\ Cardinality(FindSlots(c))' = Cardinality(FindSlots(c))
      BY <2>6, <3>2
    <3>5. CtxSound(c)'
      BY <2>5, <2>7, <3>2, <3>3, <3>4, NamedFinite DEF CtxSound
    <3>6. \A d \in Ctxs \ {c} : FindSlots(d)' = FindSlots(d) /\ FindCalls(d)' = FindCalls(d) /\ Freers(d)' = Freers(d)
      BY <2>3, <2>4, <2>9, <3>1, SMTT(30)
    <3> QED BY <2>2, <2>3, <2>7, <2>8, <3>5, <3>6, OneSearch
  <2> QED BY <2>10, <2>11
<1>19. ASSUME NEW t \in Threads, FindCtxFree(t) PROVE Searches'
  <2>1. PICK c \in Ctxs : c = op[t].x
    BY <1>19 DEF FindCtxFree, CallType, CallOf, CtxCalls
  <2>2. /\ op[t].fn = "free_ctx" /\ table' = table
        /\ ctxs' = [ctxs EXCEPT ![c] = NoCtx]
        /\ \A s \in Threads \ {t} : op'[s].fn = op[s].fn /\ op'[s].x = op[s].x
        /\ op'[t] = Idle
    BY <1>19, <2>1 DEF FindCtxFree, Go, CallType
  <2>3. t \in Freers(c) /\ (\A d \in Ctxs \ {c} : t \notin Freers(d)) /\ (\A d : t \notin FindCalls(d))
    BY <2>1, <2>2, Membership DEF Holds, Frees
  <2>4. \A d : FindSlots(d)' = FindSlots(d)
    BY <2>2 DEF FindSlots, SlotsWith
  <2>5. \A d \in Ctxs : FindCalls(d)' = FindCalls(d) /\ Freers(d)' = Freers(d) \ {t}
    BY <2>2, <2>3, FindCallsMoved, Membership DEF Idle, Holds, Frees
  <2>6. Freers(c) = {t} /\ FindSlots(c) = {} /\ FindCalls(c) = {}
    BY <2>3 DEF Searches, CtxSound
  <2>7. ~ctxs'[c].live /\ \A d \in Ctxs \ {c} : ctxs'[d] = ctxs[d]
    BY <2>2 DEF HeapType, NoCtx
  <2>8. CtxSound(c)'
    BY <2>4, <2>5, <2>6, <2>7 DEF CtxSound
  <2>9. Unshared(t)'
    BY <2>2 DEF Unshared, Idle
  <2>10. \A d \in Ctxs \ {c} : FindSlots(d)' = FindSlots(d) /\ FindCalls(d)' = FindCalls(d) /\ Freers(d)' = Freers(d)
    <3> TAKE d \in Ctxs \ {c}
    <3>1. t \notin Freers(d)
      BY <2>3
    <3>2. Freers(d) \ {t} = Freers(d)
      BY <3>1
    <3> QED BY <2>4, <2>5, <3>2
  <2> QED BY <2>2, <2>6, <2>7, <2>8, <2>9, <2>10, OneSearch
<1>20. ASSUME NEW t \in Threads, NEW l \in Libs, LoadLibrary(t, l) PROVE Searches'
  <2>1. /\ op'[t].fn # "alloc_find"
        /\ \A s \in Threads \ {t} : op'[s].fn = op[s].fn /\ op'[s].x = op[s].x
    BY <1>20 DEF LoadLibrary, Go, Call, Idle, CallType, CallOf
  <2>2. \A c \in Ctxs : FindSlots(c)' = FindSlots(c) /\ FindCalls(c)' = FindCalls(c) /\ Freers(c)' = Freers(c)
    BY <1>20, Ranges, LowestIn DEF LoadLibrary, Go, Call, Idle, CallType, CallOf, SlotType,
      FindSlots, FindCalls, Freers, SlotsWith, CallsWith
  <2>3. ctxs' = ctxs
    BY <1>20 DEF LoadLibrary
  <2> QED BY <2>1, <2>2, <2>3, SearchesKept
<1>21. ASSUME NEW t \in Threads, AllocModule(t) PROVE Searches'
  <2>1. /\ op[t].fn = "alloc_module" /\ op'[t].fn \in {"none", "dlclose"} /\ ctxs' = ctxs
        /\ \A s \in Threads \ {t} : op'[s].fn = op[s].fn /\ op'[s].x = op[s].x
    BY <1>21 DEF AllocModule, ModuleUnplaced, Go, Call, Idle, CallType
  <2>2. \A c \in Ctxs : FindSlots(c)' = FindSlots(c)
    BY <1>21, LowestIn, Ranges DEF AllocModule, Filled, SlotType, FindSlots, SlotsWith
  <2>3. \A c \in Ctxs : FindCalls(c)' = FindCalls(c) /\ Freers(c)' = Freers(c)
    BY <2>1, FindCallsMoved, Membership DEF Holds, Frees
  <2>4. op'[t].fn # "alloc_find"
    BY <2>1
  <2> QED BY <2>1, <2>2, <2>3, <2>4, SearchesKept
<1>22. ASSUME NEW t \in Threads, DlClose(t) PROVE Searches'
  <2>1. /\ op'[t].fn # "alloc_find"
        /\ \A s \in Threads \ {t} : op'[s].fn = op[s].fn /\ op'[s].x = op[s].x
    BY <1>22 DEF DlClose, Go, Call, Idle, CallType, CallOf
  <2>2. \A c \in Ctxs : FindSlots(c)' = FindSlots(c) /\ FindCalls(c)' = FindCalls(c) /\ Freers(c)' = Freers(c)
    BY <1>22, Ranges, LowestIn DEF DlClose, Go, Call, Idle, CallType, CallOf, SlotType, FindSlots,
      FindCalls, Freers, SlotsWith, CallsWith
  <2>3. ctxs' = ctxs
    BY <1>22 DEF DlClose
  <2> QED BY <2>1, <2>2, <2>3, SearchesKept
<1>23. ASSUME NEW t \in Threads, NEW h \in Handles, GetProcAddress(t, h) PROVE Searches'
  <2>1. /\ op'[t].fn # "alloc_find"
        /\ \A s \in Threads \ {t} : op'[s].fn = op[s].fn /\ op'[s].x = op[s].x
    BY <1>23 DEF GetProcAddress, Ready, Go, Call, Idle, CallType, CallOf
  <2>2. \A c \in Ctxs : FindSlots(c)' = FindSlots(c) /\ FindCalls(c)' = FindCalls(c) /\ Freers(c)' = Freers(c)
    BY <1>23, Ranges, LowestIn DEF GetProcAddress, Ready, Go, Call, Idle, CallType, CallOf,
      SlotType, FindSlots, FindCalls, Freers, SlotsWith, CallsWith
  <2>3. ctxs' = ctxs
    BY <1>23 DEF GetProcAddress, Ready
  <2> QED BY <2>1, <2>2, <2>3, SearchesKept
<1>24. ASSUME NEW t \in Threads, DlSym(t) PROVE Searches'
  <2>1. /\ op'[t].fn # "alloc_find"
        /\ \A s \in Threads \ {t} : op'[s].fn = op[s].fn /\ op'[s].x = op[s].x
    BY <1>24 DEF DlSym, Go, Call, Idle, CallType, CallOf
  <2>2. \A c \in Ctxs : FindSlots(c)' = FindSlots(c) /\ FindCalls(c)' = FindCalls(c) /\ Freers(c)' = Freers(c)
    BY <1>24, Ranges, LowestIn DEF DlSym, Go, Call, Idle, CallType, CallOf, SlotType, FindSlots,
      FindCalls, Freers, SlotsWith, CallsWith
  <2>3. ctxs' = ctxs
    BY <1>24 DEF DlSym
  <2> QED BY <2>1, <2>2, <2>3, SearchesKept
<1> QED BY NextCases, <1>0, <1>1, <1>2, <1>3, <1>4, <1>5, <1>6, <1>7, <1>8, <1>9, <1>10, <1>11,
    <1>12, <1>13, <1>14, <1>15, <1>16, <1>17, <1>18, <1>19, <1>20, <1>21, <1>22, <1>23, <1>24

(* Libraries: what one slot, or one call, changes in their holders. *)
LibHeldBy(call, l) == call.fn \in {"alloc_module", "dlclose"} /\ call.x = l

(* What one slot changes in the handles of a library.                      *)
LEMMA LibSlotsMoved ==
  ASSUME NEW h \in Slots, \A i \in Slots \ {h} : table'[i] = table[i], NEW l
  PROVE  /\ table'[h].kind = "H_MODULE" /\ table'[h].ptr = l => LibSlots(l)' = LibSlots(l) \cup {h}
         /\ ~(table'[h].kind = "H_MODULE" /\ table'[h].ptr = l) => LibSlots(l)' = LibSlots(l) \ {h}
         /\ ~(table[h].kind = "H_MODULE" /\ table[h].ptr = l) /\ ~(table'[h].kind = "H_MODULE" /\ table'[h].ptr = l)
              => LibSlots(l)' = LibSlots(l)
  BY DEF LibSlots, SlotsWith

(* What one call that goes on changes in the calls that hold a library.    *)
LEMMA LibHoldsMoved ==
  ASSUME NEW t \in Threads, \A s \in Threads \ {t} : op'[s].fn = op[s].fn /\ op'[s].x = op[s].x, NEW l
  PROVE  /\ LibHeldBy(op'[t], l) => LibHolds(l)' = LibHolds(l) \cup {t}
         /\ ~LibHeldBy(op'[t], l) => LibHolds(l)' = LibHolds(l) \ {t}
         /\ (LibHeldBy(op'[t], l) <=> LibHeldBy(op[t], l)) => LibHolds(l)' = LibHolds(l)
  BY DEF LibHolds, CallsWith, LibHeldBy

(* Who holds a library, member by member.                                  *)
LEMMA LibMembership ==
  ASSUME NEW l
  PROVE  /\ \A t \in Threads : t \in LibHolds(l) <=> LibHeldBy(op[t], l)
         /\ \A h \in Slots : h \in LibSlots(l) <=> table[h].kind = "H_MODULE" /\ table[h].ptr = l
  BY DEF LibHolds, LibSlots, CallsWith, SlotsWith, LibHeldBy

(* A step that changes neither the holders nor the counts.                 *)
LEMMA LibrariesKept ==
  ASSUME Libraries, libs' = libs, \A l \in Libs : LibSlots(l)' = LibSlots(l) /\ LibHolds(l)' = LibHolds(l)
  PROVE  Libraries'
  BY DEF Libraries

(* Emptying the slot of a library hands its count to the call. *)
LEMMA LibraryTaken ==
  ASSUME SlotType, CallType, Libraries, NEW t \in Threads, NEW h \in Slots,
         op[t].fn \in {"none", "close_source"}, table[h].kind # "H_FREE",
         \A s \in Threads \ {t} : op'[s].fn = op[s].fn /\ op'[s].x = op[s].x,
         op'[t] = AfterTake(h), table' = [table EXCEPT ![h] = Free], libs' = libs
  PROVE  Libraries'
  <1>1. table'[h] = Free /\ \A i \in Slots \ {h} : table'[i] = table[i]
    BY Ranges DEF SlotType
  <1>2. \A l : ~LibHeldBy(op[t], l)
    BY DEF LibHeldBy
  <1>3. CASE table[h].kind = "H_MODULE"
    <2>1. PICK l \in Libs : l = table[h].ptr
      BY <1>3, Ranges DEF SlotType, SlotOf, Free
    <2>2. \A d : LibHeldBy(op'[t], d) <=> d = l
      BY <1>3, <2>1 DEF AfterTake, Call, LibHeldBy
    <2>3. h \in LibSlots(l) /\ t \notin LibHolds(l)
      BY <1>2, <1>3, <2>1, LibMembership
    <2>4. LibSlots(l)' = LibSlots(l) \ {h} /\ LibHolds(l)' = LibHolds(l) \cup {t}
      BY <1>1, <2>2, LibSlotsMoved, LibHoldsMoved DEF Free
    <2>5. \A d \in Libs \ {l} : LibSlots(d)' = LibSlots(d) /\ LibHolds(d)' = LibHolds(d)
      BY <1>1, <1>2, <2>1, <2>2, LibSlotsMoved, LibHoldsMoved DEF Free
    <2>6. /\ Cardinality(LibSlots(l))' = Cardinality(LibSlots(l)) - 1
          /\ Cardinality(LibHolds(l))' = Cardinality(LibHolds(l)) + 1
      BY <2>3, <2>4, NamedFinite, Added, Removed
    <2>7. libs'[l] = Cardinality(LibSlots(l))' + Cardinality(LibHolds(l))'
      BY <2>6, NamedFinite DEF Libraries
    <2> QED BY <2>5, <2>7 DEF Libraries
  <1>4. CASE table[h].kind # "H_MODULE"
    <2>1. \A l : ~LibHeldBy(op'[t], l)
      BY <1>4, Ranges DEF AfterTake, Call, SlotType, SlotOf, Free, LibHeldBy
    <2>2. \A l \in Libs : LibSlots(l)' = LibSlots(l) /\ LibHolds(l)' = LibHolds(l)
      BY <1>1, <1>2, <1>4, <2>1, LibSlotsMoved, LibHoldsMoved DEF Free
    <2> QED BY <2>2, LibrariesKept
  <1> QED BY <1>3, <1>4

(* Every step keeps the counts of the libraries.                           *)
LEMMA LibraryStep ==
  ASSUME SlotType, HeapType, CallType, Reserved, Libraries, [Next]_vars
  PROVE  Libraries'
<1>0. CASE UNCHANGED vars
  <2>1. libs' = libs /\ \A l : LibSlots(l)' = LibSlots(l) /\ LibHolds(l)' = LibHolds(l)
    BY <1>0 DEF vars, LibSlots, LibHolds, SlotsWith, CallsWith
  <2> QED BY <2>1, LibrariesKept
<1>1. ASSUME NEW t \in Threads, CreateFile(t) PROVE Libraries'
  <2>1. /\ \A s \in Threads \ {t} : op'[s].fn = op[s].fn /\ op'[s].x = op[s].x
        /\ \A l : ~LibHeldBy(op[t], l) /\ ~LibHeldBy(op'[t], l)
        /\ libs' = libs /\ table' = table
    BY <1>1 DEF CreateFile, Go, Call, Idle, CallType, LibHeldBy
  <2>2. \A l \in Libs : LibSlots(l)' = LibSlots(l) /\ LibHolds(l)' = LibHolds(l)
    BY <2>1, LibHoldsMoved DEF LibSlots, SlotsWith
  <2> QED BY <2>1, <2>2, LibrariesKept
<1>2. ASSUME NEW t \in Threads, NEW n \in Std, CreateFileConsole(t, n) PROVE Libraries'
  <2>1. /\ \A s \in Threads \ {t} : op'[s].fn = op[s].fn /\ op'[s].x = op[s].x
        /\ \A l : ~LibHeldBy(op[t], l) /\ ~LibHeldBy(op'[t], l)
        /\ libs' = libs /\ table' = table
    BY <1>2 DEF CreateFileConsole, Go, Call, Idle, CallType, LibHeldBy
  <2>2. \A l \in Libs : LibSlots(l)' = LibSlots(l) /\ LibHolds(l)' = LibHolds(l)
    BY <2>1, LibHoldsMoved DEF LibSlots, SlotsWith
  <2> QED BY <2>1, <2>2, LibrariesKept
<1>3. ASSUME NEW t \in Threads, AllocFile(t) PROVE Libraries'
  <2>1. /\ \A s \in Threads \ {t} : op'[s].fn = op[s].fn /\ op'[s].x = op[s].x
        /\ \A l : ~LibHeldBy(op[t], l) /\ ~LibHeldBy(op'[t], l)
        /\ libs' = libs
    BY <1>3 DEF AllocFile, Filled, FileUnplaced, Go, Call, Idle, CallType, LibHeldBy
  <2>2. \A l \in Libs : LibHolds(l)' = LibHolds(l)
    BY <2>1, LibHoldsMoved
  <2>3. \A l \in Libs : LibSlots(l)' = LibSlots(l)
    BY <1>3, LowestIn, Ranges DEF AllocFile, Filled, SlotType, LibSlots, SlotsWith
  <2> QED BY <2>1, <2>2, <2>3, LibrariesKept
<1>4. ASSUME NEW t \in Threads, NEW h \in Handles, CloseHandle(t, h) PROVE Libraries'
  <2>1. /\ h \in Slots /\ table[h].kind # "H_FREE" /\ op[t].fn = "none"
        /\ table' = [table EXCEPT ![h] = Free] /\ libs' = libs
    BY <1>4 DEF CloseHandle, Ready, Closable, Close, Idle
  <2>2. op'[t] = AfterTake(h) /\ \A s \in Threads \ {t} : op'[s].fn = op[s].fn /\ op'[s].x = op[s].x
    BY <1>4 DEF CloseHandle, Close, Go, CallType
  <2> QED BY <2>1, <2>2, LibraryTaken
<1>5. ASSUME NEW t \in Threads, CloseSource(t) PROVE Libraries'
  <2>1. CASE op[t].h \in Slots
    <3>1. PICK h \in Slots : h = op[t].h
      BY <2>1
    <3>2. op[t].fn = "close_source" /\ WillClose(t, h) /\ table[h].kind # "H_FREE"
      BY <1>5, <3>1 DEF CloseSource, WillClose, Reserved, ClosesAlone
    <3>3. table' = [table EXCEPT ![h] = Free] /\ libs' = libs
      BY <1>5, <3>1, Ranges DEF CloseSource, Close
    <3>4. op'[t] = AfterTake(h) /\ \A s \in Threads \ {t} : op'[s].fn = op[s].fn /\ op'[s].x = op[s].x
      BY <1>5, <3>1, Ranges DEF CloseSource, Close, Go, CallType
    <3> QED BY <3>2, <3>3, <3>4, LibraryTaken
  <2>2. CASE op[t].h \in Std
    <3>1. /\ \A s \in Threads \ {t} : op'[s].fn = op[s].fn /\ op'[s].x = op[s].x
          /\ \A l : ~LibHeldBy(op[t], l) /\ ~LibHeldBy(op'[t], l)
          /\ libs' = libs /\ table' = table
      BY <1>5, <2>2, Ranges DEF CloseSource, Go, Idle, CallType, LibHeldBy
    <3>2. \A l \in Libs : LibSlots(l)' = LibSlots(l) /\ LibHolds(l)' = LibHolds(l)
      BY <3>1, LibHoldsMoved DEF LibSlots, SlotsWith
    <3> QED BY <3>1, <3>2, LibrariesKept
  <2> QED BY <1>5, <2>1, <2>2 DEF CloseSource
<1>6. ASSUME NEW t \in Threads, CloseFd(t) PROVE Libraries'
  <2>1. /\ \A s \in Threads \ {t} : op'[s].fn = op[s].fn /\ op'[s].x = op[s].x
        /\ \A l : ~LibHeldBy(op[t], l) /\ ~LibHeldBy(op'[t], l)
        /\ libs' = libs /\ table' = table
    BY <1>6 DEF CloseFd, Go, Call, Idle, CallType, LibHeldBy
  <2>2. \A l \in Libs : LibSlots(l)' = LibSlots(l) /\ LibHolds(l)' = LibHolds(l)
    BY <2>1, LibHoldsMoved DEF LibSlots, SlotsWith
  <2> QED BY <2>1, <2>2, LibrariesKept
<1>7. ASSUME NEW t \in Threads, NEW h \in Handles, StartIo(t, h) PROVE Libraries'
  <2>1. /\ \A s \in Threads \ {t} : op'[s].fn = op[s].fn /\ op'[s].x = op[s].x
        /\ \A l : ~LibHeldBy(op[t], l) /\ ~LibHeldBy(op'[t], l)
        /\ libs' = libs /\ table' = table
    BY <1>7 DEF StartIo, Ready, GetFd, Go, Call, Idle, CallType, LibHeldBy
  <2>2. \A l \in Libs : LibSlots(l)' = LibSlots(l) /\ LibHolds(l)' = LibHolds(l)
    BY <2>1, LibHoldsMoved DEF LibSlots, SlotsWith
  <2> QED BY <2>1, <2>2, LibrariesKept
<1>8. ASSUME NEW t \in Threads, Io(t) PROVE Libraries'
  <2>1. /\ \A s \in Threads \ {t} : op'[s].fn = op[s].fn /\ op'[s].x = op[s].x
        /\ \A l : ~LibHeldBy(op[t], l) /\ ~LibHeldBy(op'[t], l)
        /\ libs' = libs /\ table' = table
    BY <1>8 DEF Io, Go, Call, Idle, CallType, LibHeldBy
  <2>2. \A l \in Libs : LibSlots(l)' = LibSlots(l) /\ LibHolds(l)' = LibHolds(l)
    BY <2>1, LibHoldsMoved DEF LibSlots, SlotsWith
  <2> QED BY <2>1, <2>2, LibrariesKept
<1>9. ASSUME NEW t \in Threads, NEW n \in Std, NEW h \in Handles,
             SetStdHandle(t, n, h)
      PROVE  Libraries'
  <2>1. /\ \A s \in Threads \ {t} : op'[s].fn = op[s].fn /\ op'[s].x = op[s].x
        /\ \A l : ~LibHeldBy(op[t], l) /\ ~LibHeldBy(op'[t], l)
        /\ libs' = libs /\ table' = table
    BY <1>9 DEF SetStdHandle, Ready, Go, Call, Idle, CallType, LibHeldBy
  <2>2. \A l \in Libs : LibSlots(l)' = LibSlots(l) /\ LibHolds(l)' = LibHolds(l)
    BY <2>1, LibHoldsMoved DEF LibSlots, SlotsWith
  <2> QED BY <2>1, <2>2, LibrariesKept
<1>10. ASSUME NEW t \in Threads, SetSlot(t) PROVE Libraries'
  <2>1. /\ \A s \in Threads \ {t} : op'[s].fn = op[s].fn /\ op'[s].x = op[s].x
        /\ op[t].fn = "set_slot" /\ op'[t].fn = "set_fd" /\ libs' = libs
    BY <1>10 DEF SetSlot, CallType, CallOf
  <2>2. \A i \in Slots : table'[i] = table[i]
    BY <1>10, Ranges DEF SetSlot, SlotType, CallType, CallOf, SetCalls
  <2>3. \A l \in Libs : LibSlots(l)' = LibSlots(l) /\ LibHolds(l)' = LibHolds(l)
    BY <2>1, <2>2, LibHoldsMoved DEF LibSlots, SlotsWith, LibHeldBy
  <2> QED BY <2>1, <2>3, LibrariesKept
<1>11. ASSUME NEW t \in Threads, SetFd(t) PROVE Libraries'
  <2>1. /\ \A s \in Threads \ {t} : op'[s].fn = op[s].fn /\ op'[s].x = op[s].x
        /\ \A l : ~LibHeldBy(op[t], l) /\ ~LibHeldBy(op'[t], l)
        /\ libs' = libs /\ table' = table
    BY <1>11 DEF SetFd, Redirected, Go, Call, Idle, CallType, LibHeldBy
  <2>2. \A l \in Libs : LibSlots(l)' = LibSlots(l) /\ LibHolds(l)' = LibHolds(l)
    BY <2>1, LibHoldsMoved DEF LibSlots, SlotsWith
  <2> QED BY <2>1, <2>2, LibrariesKept
<1>12. ASSUME NEW t \in Threads, NEW h \in Handles, NEW b \in BOOLEAN,
              DuplicateHandle(t, h, b)
       PROVE  Libraries'
  <2>1. /\ \A s \in Threads \ {t} : op'[s].fn = op[s].fn /\ op'[s].x = op[s].x
        /\ \A l : ~LibHeldBy(op[t], l) /\ ~LibHeldBy(op'[t], l)
        /\ libs' = libs /\ table' = table
    BY <1>12 DEF DuplicateHandle, Ready, Closable, GetFd, Go, Call, Idle, CallType, LibHeldBy
  <2>2. \A l \in Libs : LibSlots(l)' = LibSlots(l) /\ LibHolds(l)' = LibHolds(l)
    BY <2>1, LibHoldsMoved DEF LibSlots, SlotsWith
  <2> QED BY <2>1, <2>2, LibrariesKept
<1>13. ASSUME NEW t \in Threads, Dup(t) PROVE Libraries'
  <2>1. /\ \A s \in Threads \ {t} : op'[s].fn = op[s].fn /\ op'[s].x = op[s].x
        /\ \A l : ~LibHeldBy(op[t], l) /\ ~LibHeldBy(op'[t], l)
        /\ libs' = libs /\ table' = table
    BY <1>13 DEF Dup, DupTo, Go, Call, Idle, CallType, LibHeldBy
  <2>2. \A l \in Libs : LibSlots(l)' = LibSlots(l) /\ LibHolds(l)' = LibHolds(l)
    BY <2>1, LibHoldsMoved DEF LibSlots, SlotsWith
  <2> QED BY <2>1, <2>2, LibrariesKept
<1>14. ASSUME NEW t \in Threads, FindFirstFile(t) PROVE Libraries'
  <2>1. /\ \A s \in Threads \ {t} : op'[s].fn = op[s].fn /\ op'[s].x = op[s].x
        /\ \A l : ~LibHeldBy(op[t], l) /\ ~LibHeldBy(op'[t], l)
        /\ libs' = libs /\ table' = table
    BY <1>14 DEF FindFirstFile, Go, Call, Idle, CallType, LibHeldBy
  <2>2. \A l \in Libs : LibSlots(l)' = LibSlots(l) /\ LibHolds(l)' = LibHolds(l)
    BY <2>1, LibHoldsMoved DEF LibSlots, SlotsWith
  <2> QED BY <2>1, <2>2, LibrariesKept
<1>15. ASSUME NEW t \in Threads, AllocFind(t) PROVE Libraries'
  <2>1. /\ \A s \in Threads \ {t} : op'[s].fn = op[s].fn /\ op'[s].x = op[s].x
        /\ \A l : ~LibHeldBy(op[t], l) /\ ~LibHeldBy(op'[t], l)
        /\ libs' = libs
    BY <1>15 DEF AllocFind, Filled, Go, Call, Idle, CallType, LibHeldBy
  <2>2. \A l \in Libs : LibHolds(l)' = LibHolds(l)
    BY <2>1, LibHoldsMoved
  <2>3. \A l \in Libs : LibSlots(l)' = LibSlots(l)
    BY <1>15, LowestIn, Ranges DEF AllocFind, Filled, SlotType, LibSlots, SlotsWith
  <2> QED BY <2>1, <2>2, <2>3, LibrariesKept
<1>16. ASSUME NEW t \in Threads, NEW h \in Handles, FindNextFile(t, h) PROVE Libraries'
  <2>1. /\ \A s \in Threads \ {t} : op'[s].fn = op[s].fn /\ op'[s].x = op[s].x
        /\ \A l : ~LibHeldBy(op[t], l) /\ ~LibHeldBy(op'[t], l)
        /\ libs' = libs /\ table' = table
    BY <1>16 DEF FindNextFile, Retained, Go, Call, Idle, CallType, LibHeldBy
  <2>2. \A l \in Libs : LibSlots(l)' = LibSlots(l) /\ LibHolds(l)' = LibHolds(l)
    BY <2>1, LibHoldsMoved DEF LibSlots, SlotsWith
  <2> QED BY <2>1, <2>2, LibrariesKept
<1>17. ASSUME NEW t \in Threads, NextEntry(t) PROVE Libraries'
  <2>1. /\ \A s \in Threads \ {t} : op'[s].fn = op[s].fn /\ op'[s].x = op[s].x
        /\ \A l : ~LibHeldBy(op[t], l) /\ ~LibHeldBy(op'[t], l)
        /\ libs' = libs /\ table' = table
    BY <1>17 DEF NextEntry, Stepped, Go, Call, Idle, CallType, LibHeldBy
  <2>2. \A l \in Libs : LibSlots(l)' = LibSlots(l) /\ LibHolds(l)' = LibHolds(l)
    BY <2>1, LibHoldsMoved DEF LibSlots, SlotsWith
  <2> QED BY <2>1, <2>2, LibrariesKept
<1>18. ASSUME NEW t \in Threads, ReleaseFindCtx(t) PROVE Libraries'
  <2>1. /\ \A s \in Threads \ {t} : op'[s].fn = op[s].fn /\ op'[s].x = op[s].x
        /\ \A l : ~LibHeldBy(op[t], l) /\ ~LibHeldBy(op'[t], l)
        /\ libs' = libs /\ table' = table
    BY <1>18 DEF ReleaseFindCtx, Go, Call, Idle, CallType, LibHeldBy
  <2>2. \A l \in Libs : LibSlots(l)' = LibSlots(l) /\ LibHolds(l)' = LibHolds(l)
    BY <2>1, LibHoldsMoved DEF LibSlots, SlotsWith
  <2> QED BY <2>1, <2>2, LibrariesKept
<1>19. ASSUME NEW t \in Threads, FindCtxFree(t) PROVE Libraries'
  <2>1. /\ \A s \in Threads \ {t} : op'[s].fn = op[s].fn /\ op'[s].x = op[s].x
        /\ \A l : ~LibHeldBy(op[t], l) /\ ~LibHeldBy(op'[t], l)
        /\ libs' = libs /\ table' = table
    BY <1>19 DEF FindCtxFree, NoCtx, Go, Call, Idle, CallType, LibHeldBy
  <2>2. \A l \in Libs : LibSlots(l)' = LibSlots(l) /\ LibHolds(l)' = LibHolds(l)
    BY <2>1, LibHoldsMoved DEF LibSlots, SlotsWith
  <2> QED BY <2>1, <2>2, LibrariesKept
<1>20. ASSUME NEW t \in Threads, NEW l \in Libs, LoadLibrary(t, l) PROVE Libraries'
  <2>1. /\ \A s \in Threads \ {t} : op'[s].fn = op[s].fn /\ op'[s].x = op[s].x
        /\ \A d : ~LibHeldBy(op[t], d) /\ (LibHeldBy(op'[t], d) <=> d = l)
        /\ table' = table
    BY <1>20 DEF LoadLibrary, Go, Call, Idle, CallType, LibHeldBy
  <2>2. \A d \in Libs : libs'[d] = IF d = l THEN libs[d] + 1 ELSE libs[d]
    BY <1>20 DEF LoadLibrary, HeapType
  <2>3. t \notin LibHolds(l) /\ LibHolds(l)' = LibHolds(l) \cup {t}
    BY <2>1, LibHoldsMoved, LibMembership
  <2>4. \A d \in Libs \ {l} : LibHolds(d)' = LibHolds(d)
    BY <2>1, LibHoldsMoved
  <2>5. \A d : LibSlots(d)' = LibSlots(d)
    BY <2>1 DEF LibSlots, SlotsWith
  <2>6. Cardinality(LibHolds(l))' = Cardinality(LibHolds(l)) + 1
    BY <2>3, NamedFinite, Added
  <2>7. libs'[l] = Cardinality(LibSlots(l))' + Cardinality(LibHolds(l))'
    BY <2>2, <2>5, <2>6, NamedFinite DEF Libraries
  <2> QED BY <2>2, <2>4, <2>5, <2>7 DEF Libraries
<1>21. ASSUME NEW t \in Threads, AllocModule(t) PROVE Libraries'
  <2>1. PICK l \in Libs : l = op[t].x
    BY <1>21 DEF AllocModule, CallType, CallOf, LibCalls
  <2>2. /\ \A s \in Threads \ {t} : op'[s].fn = op[s].fn /\ op'[s].x = op[s].x
        /\ \A d : LibHeldBy(op[t], d) <=> d = l
        /\ libs' = libs
    BY <1>21, <2>1 DEF AllocModule, Go, CallType, LibHeldBy
  <2>3. CASE FreeSlots # {}
    <3>1. PICK i \in Slots : i = Lowest(FreeSlots) /\ table[i].kind = "H_FREE"
      BY <2>3, LowestIn
    <3>2. op'[t] = Idle /\ table' = [table EXCEPT ![i] = [kind |-> "H_MODULE", ptr |-> l]]
      BY <1>21, <2>1, <2>3, <3>1 DEF AllocModule, Go, Filled, CallType
    <3>3. table'[i].kind = "H_MODULE" /\ table'[i].ptr = l /\ \A j \in Slots \ {i} : table'[j] = table[j]
      BY <3>2, Ranges DEF SlotType
    <3>4. \A d : ~LibHeldBy(op'[t], d)
      BY <3>2 DEF Idle, LibHeldBy
    <3>5. LibSlots(l)' = LibSlots(l) \cup {i} /\ LibHolds(l)' = LibHolds(l) \ {t}
      BY <2>2, <3>3, <3>4, LibSlotsMoved, LibHoldsMoved
    <3>6. i \notin LibSlots(l) /\ t \in LibHolds(l)
      BY <2>2, <3>1, LibMembership
    <3>7. \A d \in Libs \ {l} : LibSlots(d)' = LibSlots(d) /\ LibHolds(d)' = LibHolds(d)
      BY <2>2, <3>1, <3>3, <3>4, LibSlotsMoved, LibHoldsMoved
    <3>8. /\ Cardinality(LibSlots(l))' = Cardinality(LibSlots(l)) + 1
          /\ Cardinality(LibHolds(l))' = Cardinality(LibHolds(l)) - 1
      BY <3>5, <3>6, NamedFinite, Added, Removed
    <3>9. libs'[l] = Cardinality(LibSlots(l))' + Cardinality(LibHolds(l))'
      BY <2>2, <3>8, NamedFinite DEF Libraries
    <3> QED BY <2>2, <3>7, <3>9 DEF Libraries
  <2>4. CASE FreeSlots = {}
    <3>1. op'[t] = ModuleUnplaced(l) /\ table' = table
      BY <1>21, <2>1, <2>4 DEF AllocModule, Go, CallType
    <3>2. \A d \in Libs : LibSlots(d)' = LibSlots(d) /\ LibHolds(d)' = LibHolds(d)
      BY <2>2, <3>1, LibHoldsMoved DEF LibSlots, SlotsWith, LibHeldBy, ModuleUnplaced, Call
    <3> QED BY <2>2, <3>2, LibrariesKept
  <2> QED BY <2>3, <2>4
<1>22. ASSUME NEW t \in Threads, DlClose(t) PROVE Libraries'
  <2>1. PICK l \in Libs : l = op[t].x
    BY <1>22 DEF DlClose, CallType, CallOf, LibCalls
  <2>2. /\ \A s \in Threads \ {t} : op'[s].fn = op[s].fn /\ op'[s].x = op[s].x
        /\ \A d : ~LibHeldBy(op'[t], d) /\ (LibHeldBy(op[t], d) <=> d = l)
        /\ table' = table
    BY <1>22, <2>1 DEF DlClose, Go, Call, Idle, CallType, LibHeldBy
  <2>3. \A d \in Libs : libs'[d] = IF d = l THEN libs[d] - 1 ELSE libs[d]
    BY <1>22, <2>1 DEF DlClose, HeapType
  <2>4. t \in LibHolds(l) /\ LibHolds(l)' = LibHolds(l) \ {t}
    BY <2>2, LibHoldsMoved, LibMembership
  <2>5. \A d \in Libs \ {l} : LibHolds(d)' = LibHolds(d)
    BY <2>2, LibHoldsMoved
  <2>6. \A d : LibSlots(d)' = LibSlots(d)
    BY <2>2 DEF LibSlots, SlotsWith
  <2>7. Cardinality(LibHolds(l))' = Cardinality(LibHolds(l)) - 1
    BY <2>4, NamedFinite, Removed
  <2>8. libs'[l] = Cardinality(LibSlots(l))' + Cardinality(LibHolds(l))'
    BY <2>3, <2>6, <2>7, NamedFinite DEF Libraries
  <2> QED BY <2>3, <2>5, <2>6, <2>8 DEF Libraries
<1>23. ASSUME NEW t \in Threads, NEW h \in Handles, GetProcAddress(t, h) PROVE Libraries'
  <2>1. /\ \A s \in Threads \ {t} : op'[s].fn = op[s].fn /\ op'[s].x = op[s].x
        /\ \A l : ~LibHeldBy(op[t], l) /\ ~LibHeldBy(op'[t], l)
        /\ libs' = libs /\ table' = table
    BY <1>23 DEF GetProcAddress, Ready, Go, Call, Idle, CallType, LibHeldBy
  <2>2. \A l \in Libs : LibSlots(l)' = LibSlots(l) /\ LibHolds(l)' = LibHolds(l)
    BY <2>1, LibHoldsMoved DEF LibSlots, SlotsWith
  <2> QED BY <2>1, <2>2, LibrariesKept
<1>24. ASSUME NEW t \in Threads, DlSym(t) PROVE Libraries'
  <2>1. /\ \A s \in Threads \ {t} : op'[s].fn = op[s].fn /\ op'[s].x = op[s].x
        /\ \A l : ~LibHeldBy(op[t], l) /\ ~LibHeldBy(op'[t], l)
        /\ libs' = libs /\ table' = table
    BY <1>24 DEF DlSym, Go, Call, Idle, CallType, LibHeldBy
  <2>2. \A l \in Libs : LibSlots(l)' = LibSlots(l) /\ LibHolds(l)' = LibHolds(l)
    BY <2>1, LibHoldsMoved DEF LibSlots, SlotsWith
  <2> QED BY <2>1, <2>2, LibrariesKept
<1> QED BY NextCases, <1>0, <1>1, <1>2, <1>3, <1>4, <1>5, <1>6, <1>7, <1>8, <1>9, <1>10, <1>11,
    <1>12, <1>13, <1>14, <1>15, <1>16, <1>17, <1>18, <1>19, <1>20, <1>21, <1>22, <1>23, <1>24

-----------------------------------------------------------------------------
(* Descriptors.  What is used without being owned is open, and no call     *)
(* owns it.                                                                *)
LEMMA UsedOpen ==
  ASSUME CallType, SlotType, FilesInv
  PROVE  /\ \A n \in Fds : Borrowed(n) => n \notin Std /\ fds[n] # Closed /\ \A t \in Threads : ~CallOwns(t, n)
         /\ \A t \in Threads : op[t].fn \in FdCalls =>
              fds[op[t].x] # Closed /\ \A s \in Threads : ~CallOwns(s, op[t].x)
         /\ \A n \in Std : fds[table[n].ptr] # Closed /\ \A s \in Threads : ~CallOwns(s, table[n].ptr)
  <1>1. \A n \in Fds : Borrowed(n) => n \notin Std /\ fds[n] # Closed /\ \A t \in Threads : ~CallOwns(t, n)
    BY DEF FilesInv, Owned, Borrowed
  <1>2. \A n \in Std : n \in Fds /\ fds[n] # Closed /\ \A t \in Threads : ~CallOwns(t, n)
    BY Ranges DEF FilesInv, Owned, RightFile, StdRight
  <1>3. ASSUME NEW t \in Threads, op[t].fn \in FdCalls
        PROVE  fds[op[t].x] # Closed /\ \A s \in Threads : ~CallOwns(s, op[t].x)
    <2>1. op[t].x \in Fds
      BY <1>3 DEF CallType, CallOf, FdCalls, FileCalls, SetCalls
    <2>2. Borrowed(op[t].x) \/ op[t].x \in Std
      BY <1>3 DEF FilesInv, Kept, UseKept
    <2> QED BY <1>1, <1>2, <2>1, <2>2
  <1>4. ASSUME NEW n \in Std
        PROVE  fds[table[n].ptr] # Closed /\ \A s \in Threads : ~CallOwns(s, table[n].ptr)
    <2>1. table[n].ptr \in Fds
      BY Ranges DEF SlotType, SlotOf, Free
    <2>2. Borrowed(table[n].ptr) \/ table[n].ptr \in Std
      BY DEF FilesInv, Kept, StdKept
    <2> QED BY <1>1, <1>2, <2>1, <2>2
  <1> QED BY <1>1, <1>3, <1>4

(* Ownership under a step that moves no descriptor. *)
LEMMA OwnedKept ==
  ASSUME Owned,
         \A h \in Slots, n \in Fds : SlotOwns(h, n)' <=> SlotOwns(h, n),
         \A t \in Threads, n \in Fds : CallOwns(t, n)' <=> CallOwns(t, n),
         \A n \in Fds \ Std : fds'[n] = fds[n],
         \A h \in Slots, n \in Fds : SlotOwns(h, n) => means'[h] = means[h]
  PROVE  Owned'
  BY DEF Owned

(* What a step of t does not use, own or set is right as it was. *)
LEMMA RightKept ==
  ASSUME CallType, RightFile, NEW t \in Threads, \A s \in Threads \ {t} : op'[s] = op[s],
         \A s \in Threads \ {t} : op[s].fn \in FdCalls \cup {"alloc"} => fds'[op[s].x] = fds[op[s].x],
         \A s \in Threads \ {t} : op[s].fn \in FileCalls => means'[op[s].h] = means[op[s].h],
         \A n \in Std : /\ table'[n] = table[n] /\ means'[n] = means[n] /\ fds'[n] = fds[n]
                        /\ fds'[table[n].ptr] = fds[table[n].ptr],
         op[t].fn # "set_fd", op'[t].fn # "set_fd", CallRight(t)',
         op'[t].fn \in SetCalls => \A s \in Threads : ~SetsStd(s, op'[t].h)
  PROVE  RightFile'
  <1>1. ASSUME NEW s \in Threads \ {t} PROVE CallRight(s)'
    <2>1. CallRight(s) /\ op'[s] = op[s]
      BY DEF RightFile
    <2>2. op[s].fn = "set_fd" => op[s].h \in Std
      BY DEF CallType, CallOf, SetCalls
    <2>3. op[s].fn \in SetCalls => fds'[op[s].x] = fds[op[s].x]
      BY DEF SetCalls, FdCalls
    <2>4. /\ op[s].fn \in FdCalls \cup {"alloc"} => fds'[op[s].x] \in op'[s].m
          /\ op[s].fn \in FileCalls => means'[op[s].h] \in op'[s].m
      BY <2>1 DEF CallRight
    <2>5. /\ op[s].fn \in SetCalls => op'[s].m = {fds'[op[s].x]}
          /\ op[s].fn = "set_fd" => table'[op[s].h].ptr = op'[s].x
      BY <2>1, <2>2, <2>3 DEF CallRight
    <2> QED BY <2>1, <2>4, <2>5 DEF CallRight
  <1>2. ASSUME NEW n \in Std PROVE StdRight(n)'
    <2>1. StdRight(n)
      BY DEF RightFile
    <2>2. fds'[n] # Closed /\ means'[n] # Closed /\ fds'[table'[n].ptr] = means'[n]
      BY <2>1 DEF StdRight
    <2>3. fds'[n] = means'[n] \/ \E s \in Threads : op'[s].fn = "set_fd" /\ op'[s].h = n
      <3>1. CASE fds[n] = means[n]
        BY <3>1
      <3>2. CASE \E s \in Threads : op[s].fn = "set_fd" /\ op[s].h = n
        <4>1. PICK s \in Threads : op[s].fn = "set_fd" /\ op[s].h = n
          BY <3>2
        <4>2. s # t BY <4>1
        <4> QED BY <4>1, <4>2
      <3> QED BY <2>1, <3>1, <3>2 DEF StdRight
    <2>4. ASSUME NEW r \in Threads, NEW s \in Threads, SetsStd(r, n)', SetsStd(s, n)' PROVE r = s
      <3>1. \A q \in Threads \ {t} : SetsStd(q, n)' <=> SetsStd(q, n)
        BY DEF SetsStd
      <3>2. SetsStd(t, n)' => \A q \in Threads : ~SetsStd(q, n)
        BY DEF SetsStd
      <3> QED BY <2>1, <2>4, <3>1, <3>2 DEF StdRight
    <2> QED BY <2>2, <2>3, <2>4 DEF StdRight
  <1> QED BY <1>1, <1>2 DEF RightFile

(* The handle of a call on a file is that of a file. *)
LEMMA FileInUse ==
  ASSUME CallType, SlotType, Reserved, NEW s \in Threads, op[s].fn \in FileCalls
  PROVE  op[s].h \in Handles /\ table[op[s].h].kind = "H_FILE"
  <1>1. op[s].h \in Handles
    BY DEF CallType, CallOf
  <1>2. op[s].h \in Slots \/ op[s].h \in Std
    BY <1>1, Ranges
  <1>3. CASE op[s].h \in Slots
    <2>1. HandleKept(s)
      BY DEF Reserved
    <2>2. table[op[s].h] = [kind |-> "H_FILE", ptr |-> op[s].x]
      BY <1>3, <2>1 DEF HandleKept
    <2> QED BY <1>1, <2>2
  <1>4. CASE op[s].h \in Std
    BY <1>1, <1>4 DEF SlotType
  <1> QED BY <1>2, <1>3, <1>4

(* Uses under a step that starts none and empties no slot of a file. *)
LEMMA KeptKept ==
  ASSUME Reserved, Kept, NEW t \in Threads, \A s \in Threads \ {t} : op'[s] = op[s],
         op'[t].fn \notin FdCalls,
         \A h \in Slots : WillClose(t, h)' => WillClose(t, h),
         \A n \in Std : table'[n] = table[n],
         \A h \in Slots : table[h].kind # "H_FILE" \/ table'[h] = table[h]
  PROVE  Kept'
  <1>1. \A n : Borrowed(n) => Borrowed(n)'
    BY DEF Borrowed, SlotOwns
  <1>2. ASSUME NEW s \in Threads PROVE UseKept(s)'
    <2>1. CASE s = t BY <2>1 DEF UseKept
    <2>2. CASE s # t
      <3>1. op'[s] = op[s] /\ UseKept(s)
        BY <2>2 DEF Kept
      <3> QED BY <1>1, <3>1 DEF UseKept
    <2> QED BY <2>1, <2>2
  <1>3. \A n \in Std : StdKept(n)'
    BY <1>1 DEF Kept, StdKept
  <1>4. ASSUME NEW s \in Threads, NEW h \in Slots PROVE CloseKept(s, h)'
    <2>1. SUFFICES ASSUME WillClose(s, h)' PROVE CloseKept(s, h)'
      BY DEF CloseKept
    <2>2. WillClose(s, h)
      <3>1. CASE s = t BY <2>1, <3>1
      <3>2. CASE s # t BY <2>1, <3>2 DEF WillClose
      <3> QED BY <3>1, <3>2
    <2>3. CloseKept(s, h) /\ table'[h] = table[h]
      BY <2>2 DEF Kept, Reserved, ClosesAlone
    <2> QED BY <2>2, <2>3 DEF CloseKept
  <1> QED BY <1>2, <1>3, <1>4 DEF Kept

(* A step that concerns no descriptor. *)
LEMMA Unconcerned ==
  ASSUME CallType, SlotType, Reserved, FilesInv, NEW t \in Threads,
         \A s \in Threads \ {t} : op'[s] = op[s],
         op[t].fn \notin Owners \cup SetCalls,
         op'[t].fn \notin FdCalls \cup Owners \cup {"close_source"},
         \A n \in Std : table'[n] = table[n],
         \A h \in Slots : table'[h] = table[h] \/ (table[h].kind # "H_FILE" /\ table'[h].kind # "H_FILE"),
         fds' = fds, \A h \in Handles : table[h].kind = "H_FILE" => means'[h] = means[h]
  PROVE  FilesInv'
  <1>1. Owned'
    <2>1. \A h \in Slots, n \in Fds : SlotOwns(h, n)' <=> SlotOwns(h, n)
      BY DEF SlotOwns
    <2>2. \A s \in Threads, n \in Fds : CallOwns(s, n)' <=> CallOwns(s, n)
      BY DEF CallOwns
    <2>3. \A h \in Slots, n \in Fds : SlotOwns(h, n) => means'[h] = means[h]
      BY Ranges DEF SlotOwns
    <2> QED BY <2>1, <2>2, <2>3, OwnedKept DEF FilesInv
  <1>2. Kept'
    <2>1. \A h \in Slots : ~WillClose(t, h)'
      BY DEF WillClose, FdCalls, Owners
    <2> QED BY <2>1, KeptKept DEF FilesInv
  <1>3. RightFile'
    <2>1. CallRight(t)'
      BY DEF CallRight, FileCalls, SetCalls, FdCalls, Owners
    <2>2. \A s \in Threads : op[s].fn \in FileCalls => means'[op[s].h] = means[op[s].h]
      BY FileInUse
    <2>3. \A n \in Std : means'[n] = means[n]
      BY Ranges DEF SlotType
    <2> QED BY <2>1, <2>2, <2>3, RightKept DEF FilesInv, SetCalls, FdCalls
  <1> QED BY <1>1, <1>2, <1>3 DEF FilesInv

(* A new descriptor: open, or dup. *)
LEMMA Opened ==
  ASSUME CallType, SlotType, Reserved, FilesInv, NEW t \in Threads, NEW n \in Fds, NEW f,
         \A s \in Threads \ {t} : op'[s] = op[s],
         op[t].fn \notin Owners \cup SetCalls,
         op'[t].fn = "alloc", op'[t].x = n, f \in op'[t].m,
         op'[t].h = None \/ (op'[t].h = op[t].h /\ op[t].fn = "dup_close"),
         fds[n] = Closed, f # Closed,
         \A k \in Fds : fds'[k] = IF k = n THEN f ELSE fds[k],
         table' = table, means' = means
  PROVE  FilesInv'
  <1>1. n \notin Std
    BY DEF FilesInv, RightFile, StdRight
  <1>2. /\ \A h \in Slots : ~SlotOwns(h, n)
        /\ \A s \in Threads : ~CallOwns(s, n)
    BY DEF FilesInv, Owned
  <1>3. \A h, k : SlotOwns(h, k)' <=> SlotOwns(h, k)
    BY DEF SlotOwns
  <1>4. \A s \in Threads, k \in Fds : CallOwns(s, k)' <=> CallOwns(s, k) \/ (s = t /\ k = n)
    BY DEF CallOwns, Owners
  <1>5. Owned'
    <2>1. Owned BY DEF FilesInv
    <2>2. \A k \in Fds : k # n => fds'[k] = fds[k]
      OBVIOUS
    <2>3. fds'[n] = f
      OBVIOUS
    <2>4. ASSUME NEW h \in Slots, NEW k \in Fds, SlotOwns(h, k)
          PROVE  /\ k \notin Std /\ fds'[k] # Closed /\ fds'[k] = means'[h]
                 /\ \A g \in Slots : SlotOwns(g, k)' => g = h
                 /\ \A s \in Threads : ~CallOwns(s, k)'
      BY <1>2, <1>3, <1>4, <2>1, <2>2, <2>4 DEF Owned
    <2>5. ASSUME NEW s \in Threads, NEW k \in Fds, CallOwns(s, k)'
          PROVE  /\ k \notin Std /\ fds'[k] # Closed
                 /\ \A r \in Threads : CallOwns(r, k)' => r = s
      <3>1. CASE k = n
        BY <1>1, <1>2, <1>4, <2>3, <2>5, <3>1
      <3>2. CASE k # n
        BY <1>4, <2>1, <2>2, <2>5, <3>2 DEF Owned
      <3> QED BY <3>1, <3>2
    <2>6. ASSUME NEW k \in Fds \ Std, fds'[k] # Closed
          PROVE  (\E h \in Slots : SlotOwns(h, k)') \/ (\E s \in Threads : CallOwns(s, k)')
      BY <1>3, <1>4, <2>1, <2>2, <2>6 DEF Owned
    <2> QED BY <1>3, <2>4, <2>5, <2>6 DEF Owned
  <1>6. Kept'
    <2>1. \A h \in Slots : WillClose(t, h)' => WillClose(t, h)
      BY Ranges DEF WillClose
    <2> QED BY <2>1, KeptKept DEF FilesInv, FdCalls
  <1>7. RightFile'
    <2>1. CallRight(t)'
      BY DEF CallRight, FileCalls, SetCalls
    <2>2. ASSUME NEW s \in Threads, op[s].fn \in FdCalls \cup {"alloc"} PROVE fds'[op[s].x] = fds[op[s].x]
      <3>1. op[s].x \in Fds
        BY <2>2 DEF CallType, CallOf, FdCalls, FileCalls, SetCalls, Owners
      <3>2. op[s].x # n
        BY <1>2, <2>2, <3>1, UsedOpen DEF CallOwns, Owners
      <3> QED BY <3>1, <3>2
    <2>3. \A k \in Std : fds'[k] = fds[k] /\ fds'[table[k].ptr] = fds[table[k].ptr]
      <3>1. \A k \in Std : k \in Fds /\ table[k].ptr \in Fds
        BY Ranges DEF SlotType, SlotOf, Free
      <3> QED BY <1>1, <3>1, UsedOpen
    <2> QED BY <2>1, <2>2, <2>3, RightKept DEF FilesInv, SetCalls
  <1> QED BY <1>5, <1>6, <1>7 DEF FilesInv

(* A descriptor gets its handle. *)
LEMMA Placed ==
  ASSUME CallType, SlotType, HeapType, Reserved, FilesInv, NEW t \in Threads, NEW i \in Slots,
         \A s \in Threads \ {t} : op'[s] = op[s],
         op[t].fn = "alloc", op'[t].fn \in {"none", "close_source"},
         op'[t].fn = "close_source" => op'[t].h = op[t].h,
         table[i].kind = "H_FREE",
         table' = [table EXCEPT ![i] = [kind |-> "H_FILE", ptr |-> op[t].x]],
         means' = [means EXCEPT ![i] = fds[op[t].x]], fds' = fds
  PROVE  FilesInv'
  <1> DEFINE n == op[t].x
  <1>1. n \in Fds /\ CallOwns(t, n)
    BY DEF CallType, CallOf, Owners, CallOwns
  <1>2. i \in Handles /\ i \notin Std /\ \A h \in Slots : h \in Handles
    BY Ranges
  <1>3. \A h \in Handles : table'[h] = IF h = i THEN [kind |-> "H_FILE", ptr |-> n] ELSE table[h]
    BY <1>2 DEF SlotType
  <1>4. \A h \in Handles : means'[h] = IF h = i THEN fds[n] ELSE means[h]
    BY <1>2 DEF HeapType
  <1> HIDE DEF n
  <1>5. \A h \in Slots, k \in Fds : SlotOwns(h, k)' <=> SlotOwns(h, k) \/ (h = i /\ k = n)
    BY <1>2, <1>3 DEF SlotOwns
  <1>6. \A s \in Threads, k \in Fds : CallOwns(s, k)' <=> CallOwns(s, k) /\ s # t
    BY DEF CallOwns, Owners
  <1>7. Owned'
    <2>1. Owned BY DEF FilesInv
    <2>2. ASSUME NEW h \in Slots, NEW k \in Fds, SlotOwns(h, k)'
          PROVE  /\ k \notin Std /\ fds'[k] # Closed /\ fds'[k] = means'[h]
                 /\ \A g \in Slots : SlotOwns(g, k)' => g = h
                 /\ \A s \in Threads : ~CallOwns(s, k)'
      <3>1. CASE k = n
        <4>1. \A g \in Slots : ~SlotOwns(g, n)
          BY <1>1, <2>1 DEF Owned
        <4>2. n \notin Std /\ fds[n] # Closed /\ \A s \in Threads : CallOwns(s, n) => s = t
          BY <1>1, <2>1 DEF Owned
        <4>3. h = i
          BY <1>5, <2>2, <3>1, <4>1
        <4> QED BY <1>2, <1>4, <1>5, <1>6, <3>1, <4>1, <4>2, <4>3
      <3>2. CASE k # n
        <4>1. SlotOwns(h, k) /\ h # i
          BY <1>5, <2>2, <3>2 DEF SlotOwns
        <4> QED BY <1>2, <1>4, <1>5, <1>6, <2>1, <3>2, <4>1 DEF Owned
      <3> QED BY <3>1, <3>2
    <2>3. ASSUME NEW s \in Threads, NEW k \in Fds, CallOwns(s, k)'
          PROVE  /\ k \notin Std /\ fds'[k] # Closed
                 /\ \A r \in Threads : CallOwns(r, k)' => r = s
      BY <1>6, <2>1, <2>3 DEF Owned
    <2>4. ASSUME NEW k \in Fds \ Std, fds'[k] # Closed
          PROVE  (\E h \in Slots : SlotOwns(h, k)') \/ (\E s \in Threads : CallOwns(s, k)')
      <3>1. CASE k = n
        BY <1>5, <3>1
      <3>2. CASE k # n
        <4>1. ~CallOwns(t, k)
          BY <3>2 DEF CallOwns, n
        <4> QED BY <1>5, <1>6, <2>1, <2>4, <4>1 DEF Owned
      <3> QED BY <3>1, <3>2
    <2> QED BY <2>2, <2>3, <2>4 DEF Owned
  <1>8. Kept'
    <2>1. \A h \in Slots : WillClose(t, h)' => WillClose(t, h)
      BY DEF WillClose
    <2>2. \A k \in Std : table'[k] = table[k]
      BY <1>2, <1>3, Ranges
    <2>3. \A h \in Slots : table[h].kind # "H_FILE" \/ table'[h] = table[h]
      BY <1>2, <1>3
    <2>4. op'[t].fn \notin FdCalls
      BY DEF FdCalls
    <2> QED BY <2>1, <2>2, <2>3, <2>4, KeptKept DEF FilesInv
  <1>9. RightFile'
    <2>1. CallRight(t)'
      BY DEF CallRight, FileCalls, SetCalls, FdCalls
    <2>2. \A s \in Threads : op[s].fn \in FileCalls => means'[op[s].h] = means[op[s].h]
      BY <1>4, FileInUse
    <2>3. \A k \in Std : table'[k] = table[k] /\ means'[k] = means[k]
      BY <1>2, <1>3, <1>4, Ranges
    <2>4. op'[t].fn \notin SetCalls
      BY DEF SetCalls
    <2> QED BY <2>1, <2>2, <2>3, <2>4, RightKept DEF FilesInv
  <1> QED BY <1>7, <1>8, <1>9 DEF FilesInv

(* A descriptor that got no handle is closed by the call that owns it. *)
LEMMA Unplaced ==
  ASSUME CallType, SlotType, Reserved, FilesInv, NEW t \in Threads,
         \A s \in Threads \ {t} : op'[s] = op[s],
         op[t].fn = "alloc", op'[t] = Call("close", None, op[t].x, {}),
         table' = table, means' = means, fds' = fds
  PROVE  FilesInv'
  <1>0. op'[t].fn = "close" /\ op'[t].x = op[t].x
    BY DEF Call
  <1>1. Owned'
    <2>1. \A h \in Slots, k \in Fds : SlotOwns(h, k)' <=> SlotOwns(h, k)
      BY DEF SlotOwns
    <2>2. \A s \in Threads, k \in Fds : CallOwns(s, k)' <=> CallOwns(s, k)
      BY <1>0 DEF CallOwns, Owners
    <2> QED BY <2>1, <2>2, OwnedKept DEF FilesInv
  <1>2. Kept'
    <2>1. \A h \in Slots : ~WillClose(t, h)'
      BY <1>0 DEF WillClose
    <2> QED BY <1>0, <2>1, KeptKept DEF FilesInv, FdCalls
  <1>3. RightFile'
    <2>1. CallRight(t)'
      BY <1>0 DEF CallRight, FileCalls, SetCalls, FdCalls
    <2> QED BY <1>0, <2>1, RightKept DEF FilesInv, SetCalls
  <1> QED BY <1>1, <1>2, <1>3 DEF FilesInv

(* The slot of a file is emptied: its descriptor goes to the call, which   *)
(* is the only one to know it.                                             *)
LEMMA FileTaken ==
  ASSUME CallType, SlotType, HeapType, Reserved, FilesInv, NEW t \in Threads, NEW h \in Slots,
         \A s \in Threads \ {t} : op'[s] = op[s],
         op[t].fn \notin FdCalls \cup Owners,
         op'[t] = Call("close", None, table[h].ptr, {}),
         table[h].kind = "H_FILE",
         \A n \in Std : table[n].ptr # table[h].ptr,
         \A s \in Threads : op[s].fn \in FdCalls => op[s].x # table[h].ptr,
         \A s \in Threads \ {t} : ~WillClose(s, h),
         table' = [table EXCEPT ![h] = Free], means' = [means EXCEPT ![h] = Closed], fds' = fds
  PROVE  FilesInv'
  <1> DEFINE n == table[h].ptr
  <1>1. h \in Handles /\ h \notin Std /\ (\A g \in Slots : g \in Handles) /\ \A k \in Std : k \in Handles
    BY Ranges
  <1>2. n \in Fds /\ SlotOwns(h, n)
    BY <1>1 DEF SlotType, SlotOf, Free, SlotOwns
  <1>3. \A g \in Handles : table'[g] = IF g = h THEN Free ELSE table[g]
    BY <1>1 DEF SlotType
  <1>4. \A g \in Handles : means'[g] = IF g = h THEN Closed ELSE means[g]
    BY <1>1 DEF HeapType
  <1>5. op'[t].fn = "close" /\ op'[t].x = n
    BY DEF Call
  <1>6. \A k : SlotOwns(h, k) => k = n
    BY DEF SlotOwns
  <1> HIDE DEF n
  <1>7. \A g \in Slots, k \in Fds : SlotOwns(g, k)' <=> SlotOwns(g, k) /\ g # h
    BY <1>1, <1>3 DEF SlotOwns, Free
  <1>8. \A s \in Threads, k \in Fds : CallOwns(s, k)' <=> CallOwns(s, k) \/ (s = t /\ k = n)
    BY <1>5 DEF CallOwns, Owners
  <1>9. Owned'
    <2>1. Owned BY DEF FilesInv
    <2>2. /\ n \notin Std /\ fds[n] # Closed
          /\ \A g \in Slots : SlotOwns(g, n) => g = h
          /\ \A s \in Threads : ~CallOwns(s, n)
      BY <1>2, <2>1 DEF Owned
    <2>3. ASSUME NEW g \in Slots, NEW k \in Fds, SlotOwns(g, k)'
          PROVE  /\ k \notin Std /\ fds'[k] # Closed /\ fds'[k] = means'[g]
                 /\ \A i \in Slots : SlotOwns(i, k)' => i = g
                 /\ \A s \in Threads : ~CallOwns(s, k)'
      <3>1. SlotOwns(g, k) /\ g # h
        BY <1>7, <2>3
      <3>2. k # n
        BY <2>2, <3>1
      <3> QED BY <1>1, <1>4, <1>7, <1>8, <2>1, <3>1, <3>2 DEF Owned
    <2>4. ASSUME NEW s \in Threads, NEW k \in Fds, CallOwns(s, k)'
          PROVE  /\ k \notin Std /\ fds'[k] # Closed
                 /\ \A r \in Threads : CallOwns(r, k)' => r = s
      <3>1. CASE k = n
        BY <1>8, <2>2, <2>4, <3>1
      <3>2. CASE k # n
        BY <1>8, <2>1, <2>4, <3>2 DEF Owned
      <3> QED BY <3>1, <3>2
    <2>5. ASSUME NEW k \in Fds \ Std, fds'[k] # Closed
          PROVE  (\E g \in Slots : SlotOwns(g, k)') \/ (\E s \in Threads : CallOwns(s, k)')
      <3>1. CASE k = n
        BY <1>8, <3>1
      <3>2. CASE k # n
        BY <1>6, <1>7, <1>8, <2>1, <2>5, <3>2 DEF Owned
      <3> QED BY <3>1, <3>2
    <2> QED BY <2>3, <2>4, <2>5 DEF Owned
  <1>10. Kept'
    <2>1. \A k \in Std : table'[k] = table[k] /\ table[k].ptr # n
      BY <1>1, <1>3 DEF n
    <2>2. \A k : Borrowed(k) /\ k # n => Borrowed(k)'
      BY <1>1, <1>3, <1>6 DEF Borrowed, SlotOwns
    <2>3. ASSUME NEW s \in Threads PROVE UseKept(s)'
      <3>1. CASE s = t BY <1>5, <3>1 DEF UseKept, FdCalls
      <3>2. CASE s # t
        <4>1. op'[s] = op[s] /\ UseKept(s)
          BY <3>2 DEF FilesInv, Kept
        <4>2. op[s].fn \in FdCalls => op[s].x # n
          BY DEF n
        <4> QED BY <2>2, <4>1, <4>2 DEF UseKept
      <3> QED BY <3>1, <3>2
    <2>4. \A k \in Std : StdKept(k)'
      BY <2>1, <2>2 DEF FilesInv, Kept, StdKept
    <2>5. ASSUME NEW s \in Threads, NEW g \in Slots PROVE CloseKept(s, g)'
      <3>1. SUFFICES ASSUME WillClose(s, g)' PROVE CloseKept(s, g)'
        BY DEF CloseKept
      <3>2. s # t
        BY <1>5, <3>1 DEF WillClose
      <3>3. WillClose(s, g) /\ g # h
        BY <3>1, <3>2 DEF WillClose
      <3>4. CloseKept(s, g) /\ table'[g] = table[g]
        BY <1>1, <1>3, <3>3 DEF FilesInv, Kept
      <3>5. op'[t].fn \notin FdCalls
        BY <1>5 DEF FdCalls
      <3> QED BY <2>1, <3>3, <3>4, <3>5 DEF CloseKept
    <2> QED BY <2>3, <2>4, <2>5 DEF Kept
  <1>11. RightFile'
    <2>1. CallRight(t)'
      BY <1>5 DEF CallRight, FileCalls, SetCalls, FdCalls
    <2>2. ASSUME NEW s \in Threads, op[s].fn \in FileCalls PROVE means'[op[s].h] = means[op[s].h]
      <3>1. op[s].h \in Handles
        BY <2>2, FileInUse
      <3>2. op[s].x # n
        BY <2>2 DEF FileCalls, FdCalls, n
      <3>3. ASSUME op[s].h = h PROVE FALSE
        <4>1. HandleKept(s)
          BY DEF Reserved
        <4>2. table[op[s].h] = [kind |-> "H_FILE", ptr |-> op[s].x]
          BY <2>2, <3>3, <4>1 DEF HandleKept
        <4> QED BY <3>2, <3>3, <4>2 DEF n
      <3> QED BY <1>4, <3>1, <3>3
    <2>3. \A k \in Std : table'[k] = table[k] /\ means'[k] = means[k]
      BY <1>1, <1>3, <1>4
    <2>4. op'[t].fn \notin SetCalls /\ op[t].fn # "set_fd" /\ op'[t].fn # "set_fd"
      BY <1>5 DEF SetCalls, FdCalls
    <2> QED BY <2>1, <2>2, <2>3, <2>4, RightKept DEF FilesInv
  <1> QED BY <1>9, <1>10, <1>11 DEF FilesInv

(* A descriptor is closed by the call that owns it. *)
LEMMA FdClosed ==
  ASSUME CallType, SlotType, HeapType, Reserved, FilesInv, NEW t \in Threads,
         \A s \in Threads \ {t} : op'[s] = op[s],
         op[t].fn = "close", op'[t].fn = "none",
         fds' = [fds EXCEPT ![op[t].x] = Closed], table' = table, means' = means
  PROVE  FilesInv'
  <1> DEFINE n == op[t].x
  <1>1. n \in Fds /\ CallOwns(t, n)
    BY DEF CallType, CallOf, Owners, CallOwns
  <1>2. \A k \in Fds : fds'[k] = IF k = n THEN Closed ELSE fds[k]
    BY DEF HeapType
  <1>3. \A k : CallOwns(t, k) => k = n
    BY DEF CallOwns
  <1> HIDE DEF n
  <1>4. /\ n \notin Std /\ fds[n] # Closed
        /\ \A h \in Slots : ~SlotOwns(h, n)
        /\ \A s \in Threads : CallOwns(s, n) => s = t
    BY <1>1 DEF FilesInv, Owned
  <1>5. \A h, k : SlotOwns(h, k)' <=> SlotOwns(h, k)
    BY DEF SlotOwns
  <1>6. \A s \in Threads, k \in Fds : CallOwns(s, k)' <=> CallOwns(s, k) /\ s # t
    BY DEF CallOwns, Owners
  <1>7. Owned'
    <2>1. Owned BY DEF FilesInv
    <2>2. ASSUME NEW h \in Slots, NEW k \in Fds, SlotOwns(h, k)
          PROVE  /\ k \notin Std /\ fds'[k] # Closed /\ fds'[k] = means'[h]
                 /\ \A g \in Slots : SlotOwns(g, k)' => g = h
                 /\ \A s \in Threads : ~CallOwns(s, k)'
      BY <1>2, <1>4, <1>5, <1>6, <2>1, <2>2 DEF Owned
    <2>3. ASSUME NEW s \in Threads, NEW k \in Fds, CallOwns(s, k)'
          PROVE  /\ k \notin Std /\ fds'[k] # Closed
                 /\ \A r \in Threads : CallOwns(r, k)' => r = s
      <3>1. CallOwns(s, k) /\ s # t
        BY <1>6, <2>3
      <3>2. k # n
        BY <1>4, <3>1
      <3> QED BY <1>2, <1>6, <2>1, <3>1, <3>2 DEF Owned
    <2>4. ASSUME NEW k \in Fds \ Std, fds'[k] # Closed
          PROVE  (\E h \in Slots : SlotOwns(h, k)') \/ (\E s \in Threads : CallOwns(s, k)')
      <3>1. k # n /\ fds[k] # Closed
        BY <1>2, <2>4
      <3> QED BY <1>3, <1>5, <1>6, <2>1, <3>1 DEF Owned
    <2> QED BY <1>5, <2>2, <2>3, <2>4 DEF Owned
  <1>8. Kept'
    <2>1. (\A h \in Slots : ~WillClose(t, h)') /\ op'[t].fn \notin FdCalls
      BY DEF WillClose, FdCalls
    <2> QED BY <2>1, KeptKept DEF FilesInv
  <1>9. RightFile'
    <2>1. CallRight(t)'
      BY DEF CallRight, FileCalls, SetCalls, FdCalls
    <2>2. ASSUME NEW s \in Threads \ {t}, op[s].fn \in FdCalls \cup {"alloc"} PROVE fds'[op[s].x] = fds[op[s].x]
      <3>1. op[s].x \in Fds
        BY <2>2 DEF CallType, CallOf, FdCalls, FileCalls, SetCalls, Owners
      <3>2. CASE op[s].fn \in FdCalls
        BY <1>1, <1>2, <3>1, <3>2, UsedOpen
      <3>3. CASE op[s].fn = "alloc"
        <4>1. CallOwns(s, op[s].x)
          BY <3>3 DEF CallOwns, Owners
        <4> QED BY <1>2, <1>4, <3>1, <4>1
      <3> QED BY <2>2, <3>2, <3>3
    <2>3. \A k \in Std : fds'[k] = fds[k] /\ fds'[table[k].ptr] = fds[table[k].ptr]
      <3>1. \A k \in Std : k \in Fds /\ table[k].ptr \in Fds
        BY Ranges DEF SlotType, SlotOf, Free
      <3> QED BY <1>1, <1>2, <1>4, <3>1, UsedOpen
    <2> QED BY <2>1, <2>2, <2>3, RightKept DEF FilesInv, SetCalls
  <1> QED BY <1>7, <1>8, <1>9 DEF FilesInv

(* A call takes the descriptor of a handle that nobody will close. *)
LEMMA UseStarted ==
  ASSUME CallType, SlotType, Reserved, FilesInv, NEW t \in Threads, NEW h \in Handles,
         \A s \in Threads \ {t} : op'[s] = op[s],
         op[t].fn = "none", op'[t].fn \in FdCalls \ {"set_fd"},
         op'[t].x = table[h].ptr, op'[t].m = {means[h]},
         table[h].kind = "H_FILE", \A s \in Threads : ~WillClose(s, h),
         op'[t].fn \in FileCalls => op'[t].h = h,
         op'[t].fn \in SetCalls => /\ h \in Slots
                                   /\ \A s \in Threads : ~SetsStd(s, op'[t].h),
         op'[t].fn = "dup_close" => h \in Std \/ Closable(h),
         table' = table, means' = means, fds' = fds
  PROVE  FilesInv'
  <1>1. h \in Slots \/ h \in Std
    BY Ranges
  <1>2. table[h].ptr \in Fds
    BY DEF SlotType, SlotOf, Free
  <1>3. op'[t].fn \in FileCalls \cup {"set_slot"}
    BY DEF FdCalls, FileCalls
  <1>4. h \in Slots => SlotOwns(h, table[h].ptr)
    BY DEF SlotOwns
  <1>5. Owned'
    <2>1. \A g \in Slots, k \in Fds : SlotOwns(g, k)' <=> SlotOwns(g, k)
      BY DEF SlotOwns
    <2>2. \A s \in Threads, k \in Fds : CallOwns(s, k)' <=> CallOwns(s, k)
      BY DEF CallOwns, Owners, FdCalls
    <2> QED BY <2>1, <2>2, OwnedKept DEF FilesInv
  <1>6. Kept'
    <2>1. \A k : Borrowed(k)' <=> Borrowed(k)
      BY DEF Borrowed, SlotOwns
    <2>2. ASSUME NEW s \in Threads PROVE UseKept(s)'
      <3>1. CASE s = t
        <4>1. CASE h \in Slots
          <5>1. Borrowed(table[h].ptr)
            BY <1>4, <4>1 DEF Borrowed
          <5> QED BY <2>1, <3>1, <5>1 DEF UseKept
        <4>2. CASE h \in Std
          <5>1. op'[t].fn \in FileCalls /\ op'[t].h = h
            BY <1>3, <4>2, Ranges DEF SetCalls
          <5>2. table[h].ptr = h \/ Borrowed(table[h].ptr)
            BY <4>2 DEF FilesInv, Kept, StdKept
          <5> QED BY <2>1, <3>1, <4>2, <5>1, <5>2 DEF UseKept
        <4> QED BY <1>1, <4>1, <4>2
      <3>2. CASE s # t
        <4>1. op'[s] = op[s] /\ UseKept(s)
          BY <3>2 DEF FilesInv, Kept
        <4> QED BY <2>1, <4>1 DEF UseKept
      <3> QED BY <3>1, <3>2
    <2>3. \A n \in Std : StdKept(n)'
      BY <2>1 DEF FilesInv, Kept, StdKept
    <2>4. ASSUME NEW s \in Threads, NEW g \in Slots PROVE CloseKept(s, g)'
      <3>1. SUFFICES ASSUME WillClose(s, g)' PROVE CloseKept(s, g)'
        BY DEF CloseKept
      <3>2. CASE s = t
        <4>1. op'[t].fn = "dup_close" /\ op'[t].h = g
          BY <3>1, <3>2 DEF WillClose, FdCalls
        <4>2. g = h
          BY <4>1 DEF FileCalls
        <4>3. Closable(h) /\ h \in Slots
          BY <4>1, <4>2, Ranges
        <4>4. /\ \A n \in Std : table[n].ptr # table[h].ptr
              /\ \A r \in Threads : op[r].fn \in FdCalls => op[r].x # table[h].ptr
          BY <4>3 DEF Closable
        <4> QED BY <3>2, <4>2, <4>4 DEF CloseKept
      <3>3. CASE s # t
        <4>1. WillClose(s, g)
          BY <3>1, <3>3 DEF WillClose
        <4>2. CloseKept(s, g) /\ table[g].kind = "H_FILE" /\ g # h
          BY <4>1 DEF FilesInv, Kept, Reserved, ClosesAlone
        <4>3. table[h].ptr # table[g].ptr
          <5>1. CASE h \in Slots
            <6>1. \A k \in Slots : SlotOwns(k, table[h].ptr) => k = h
              BY <1>2, <1>4, <5>1 DEF FilesInv, Owned
            <6> QED BY <4>2, <6>1 DEF SlotOwns
          <5>2. CASE h \in Std
            BY <4>1, <4>2, <5>2 DEF CloseKept
          <5> QED BY <1>1, <5>1, <5>2
        <4>4. \A r \in Threads \ {s} : op'[r].fn \in FdCalls => op'[r].x # table[g].ptr
          BY <4>1, <4>2, <4>3 DEF CloseKept
        <4> QED BY <4>1, <4>2, <4>4 DEF CloseKept
      <3> QED BY <3>2, <3>3
    <2> QED BY <2>2, <2>3, <2>4 DEF Kept
  <1>7. RightFile'
    <2>1. fds[table[h].ptr] = means[h]
      <3>1. CASE h \in Slots
        BY <1>2, <1>4, <3>1 DEF FilesInv, Owned
      <3>2. CASE h \in Std
        BY <3>2 DEF FilesInv, RightFile, StdRight
      <3> QED BY <1>1, <3>1, <3>2
    <2>2. CallRight(t)'
      BY <2>1 DEF CallRight
    <2> QED BY <2>2, RightKept DEF FilesInv
  <1> QED BY <1>5, <1>6, <1>7 DEF FilesInv

(* The slot of a standard handle is set. *)
LEMMA SlotSet ==
  ASSUME CallType, SlotType, HeapType, Reserved, FilesInv, NEW t \in Threads, SetSlot(t)
  PROVE  FilesInv'
  <1> DEFINE n == op[t].h
             x == op[t].x
             f == fds[x]
  <1>1. n \in Std /\ x \in Fds /\ op[t].fn = "set_slot" /\ op[t].m = {f}
    BY DEF SetSlot, CallType, CallOf, SetCalls, FilesInv, RightFile, CallRight
  <1>2. (CHOOSE g \in op[t].m : TRUE) = f
    BY <1>1
  <1>3. /\ fds' = fds
        /\ table' = [table EXCEPT ![n].ptr = x]
        /\ means' = [means EXCEPT ![n] = f]
        /\ op' = [s \in Threads |->
                    IF s = t THEN [op[t] EXCEPT !.fn = "set_fd"]
                    ELSE IF op[s].h = n /\ op[s].fn \in FileCalls
                    THEN [op[s] EXCEPT !.m = @ \cup {f}] ELSE op[s]]
    BY <1>2 DEF SetSlot, FileCalls
  <1>4. n \in Handles /\ n \notin Slots /\ (\A h \in Slots : h \in Handles) /\ \A k \in Std : k \in Handles
    BY <1>1, Ranges
  <1>5. /\ \A h \in Handles : h # n => table'[h] = table[h] /\ means'[h] = means[h]
        /\ table'[n].ptr = x /\ means'[n] = f
    BY <1>3, <1>4 DEF SlotType, HeapType
  <1>6. \A s \in Threads : op[s] \in [fn : CallNames, h : Handles \cup {None}, x : Ptrs, m : SUBSET (0 .. MaxFiles)]
    BY DEF CallType, CallOf
  <1>7. op'[t].fn = "set_fd" /\ op'[t].h = n /\ op'[t].x = x /\ op'[t].m = {f}
    BY <1>1, <1>3, <1>6
  <1>8. ASSUME NEW s \in Threads, s # t
        PROVE  /\ op'[s].fn = op[s].fn /\ op'[s].h = op[s].h /\ op'[s].x = op[s].x
               /\ op[s].m \subseteq op'[s].m
               /\ op[s].fn \notin FileCalls => op'[s].m = op[s].m
               /\ op[s].fn \in FileCalls /\ op[s].h = n => f \in op'[s].m
    BY <1>3, <1>6, <1>8
  <1>9. \A s \in Threads : op'[s].h = op[s].h /\ op'[s].x = op[s].x
    BY <1>7, <1>8
  <1>10. /\ \A s \in Threads : op'[s].fn = op[s].fn \/ (s = t /\ op'[s].fn = "set_fd")
         /\ \A s \in Threads : op'[s].fn \in FdCalls <=> op[s].fn \in FdCalls
         /\ \A s \in Threads : op'[s].fn \in SetCalls <=> op[s].fn \in SetCalls
    BY <1>1, <1>7, <1>8 DEF FdCalls, SetCalls
  <1>11. f # Closed /\ Borrowed(x)
    <2>1. op[t].fn \in FdCalls /\ op[t].fn \notin FileCalls
      BY <1>1 DEF FdCalls, FileCalls
    <2> QED BY <2>1, UsedOpen DEF FilesInv, Kept, UseKept
  <1> HIDE DEF n, x, f
  <1>12. \A h \in Slots : \A k : SlotOwns(h, k)' <=> SlotOwns(h, k)
    BY <1>4, <1>5 DEF SlotOwns
  <1>13. Owned'
    <2>1. \A s \in Threads, k \in Fds : CallOwns(s, k)' <=> CallOwns(s, k)
      BY <1>1, <1>9, <1>10 DEF CallOwns, Owners
    <2>2. \A h \in Slots : means'[h] = means[h]
      BY <1>4, <1>5
    <2> QED BY <1>3, <1>12, <2>1, <2>2, OwnedKept DEF FilesInv
  <1>14. Kept'
    <2>1. \A k : Borrowed(k)' <=> Borrowed(k)
      BY <1>12 DEF Borrowed
    <2>2. ASSUME NEW s \in Threads PROVE UseKept(s)'
      <3>1. CASE s = t
        BY <1>7, <1>11, <2>1, <3>1 DEF UseKept
      <3>2. CASE s # t
        <4>1. UseKept(s) BY DEF FilesInv, Kept
        <4> QED BY <1>8, <2>1, <3>2, <4>1 DEF UseKept
      <3> QED BY <3>1, <3>2
    <2>3. ASSUME NEW k \in Std PROVE StdKept(k)'
      <3>1. CASE k = n
        BY <1>5, <1>11, <2>1, <3>1 DEF StdKept
      <3>2. CASE k # n
        BY <1>4, <1>5, <2>1, <3>2 DEF FilesInv, Kept, StdKept
      <3> QED BY <3>1, <3>2
    <2>4. ASSUME NEW s \in Threads, NEW g \in Slots PROVE CloseKept(s, g)'
      <3>1. SUFFICES ASSUME WillClose(s, g)' PROVE CloseKept(s, g)'
        BY DEF CloseKept
      <3>2. s # t
        BY <1>7, <3>1 DEF WillClose
      <3>3. WillClose(s, g)
        BY <1>8, <3>1, <3>2 DEF WillClose
      <3>4. CloseKept(s, g) /\ table'[g] = table[g]
        BY <1>4, <1>5 DEF FilesInv, Kept
      <3>5. x # table[g].ptr
        BY <1>1, <3>2, <3>3, <3>4 DEF CloseKept, FdCalls, x
      <3>6. \A k \in Std : table'[k].ptr # table[g].ptr
        BY <1>4, <1>5, <3>3, <3>4, <3>5 DEF CloseKept
      <3>7. \A r \in Threads \ {s} : op'[r].fn \in FdCalls => op'[r].x # table[g].ptr
        BY <1>9, <1>10, <3>3, <3>4 DEF CloseKept
      <3> QED BY <3>4, <3>6, <3>7 DEF CloseKept
    <2> QED BY <2>2, <2>3, <2>4 DEF Kept
  <1>15. RightFile'
    <2>1. \A s \in Threads, k \in Std : SetsStd(s, k)' <=> SetsStd(s, k)
      BY <1>9, <1>10 DEF SetsStd
    <2>2. ASSUME NEW s \in Threads, s # t PROVE CallRight(s)'
      <3>1. CallRight(s)
        BY DEF FilesInv, RightFile
      <3>2. op[s].fn \in FdCalls \cup {"alloc"} => fds'[op'[s].x] \in op'[s].m
        BY <1>3, <1>8, <2>2, <3>1 DEF CallRight
      <3>3. op[s].fn \in FileCalls => means'[op'[s].h] \in op'[s].m
        <4>1. op[s].fn \in FileCalls => op[s].h \in Handles /\ means[op[s].h] \in op[s].m
          BY <3>1, FileInUse DEF CallRight
        <4> QED BY <1>5, <1>8, <2>2, <4>1
      <3>4. op[s].fn \in SetCalls => op'[s].m = {fds'[op'[s].x]}
        BY <1>3, <1>8, <2>2, <3>1 DEF CallRight, SetCalls, FileCalls
      <3>5. op[s].fn = "set_fd" => table'[op'[s].h].ptr = op'[s].x
        <4>1. ASSUME op[s].fn = "set_fd" PROVE op[s].h # n /\ op[s].h \in Handles
          <5>1. op[s].h \in Std
            BY <4>1 DEF CallType, CallOf, SetCalls
          <5>2. SetsStd(t, n)
            BY <1>1 DEF SetsStd, SetCalls, n
          <5>3. op[s].h = n => SetsStd(s, n)
            BY <4>1 DEF SetsStd, SetCalls
          <5>4. StdRight(n)
            BY <1>1 DEF FilesInv, RightFile
          <5> QED BY <1>4, <2>2, <5>1, <5>2, <5>3, <5>4 DEF StdRight
        <4> QED BY <1>5, <1>8, <2>2, <3>1, <4>1 DEF CallRight
      <3>6. op'[s].fn = op[s].fn
        BY <1>8, <2>2
      <3> QED BY <3>2, <3>3, <3>4, <3>5, <3>6 DEF CallRight
    <2>3. CallRight(t)'
      <3>1. fds'[x] = f
        BY <1>3 DEF f
      <3> QED BY <1>5, <1>7, <3>1 DEF CallRight, FileCalls
    <2>4. ASSUME NEW k \in Std PROVE StdRight(k)'
      <3>1. StdRight(k)
        BY DEF FilesInv, RightFile
      <3>2. \A r, s \in Threads : SetsStd(r, k)' /\ SetsStd(s, k)' => r = s
        BY <2>1, <3>1 DEF StdRight
      <3>3. CASE k = n
        <4>1. fds'[k] # Closed /\ means'[k] # Closed /\ fds'[table'[k].ptr] = means'[k]
          BY <1>3, <1>5, <1>11, <3>1, <3>3 DEF StdRight, f
        <4>2. op'[t].fn = "set_fd" /\ op'[t].h = k
          BY <1>7, <3>3
        <4> QED BY <3>2, <4>1, <4>2 DEF StdRight
      <3>4. CASE k # n
        <4>1. fds'[k] # Closed /\ means'[k] # Closed /\ fds'[table'[k].ptr] = means'[k]
          BY <1>3, <1>4, <1>5, <3>1, <3>4 DEF StdRight
        <4>2. fds'[k] = means'[k] \/ \E s \in Threads : op'[s].fn = "set_fd" /\ op'[s].h = k
          BY <1>3, <1>4, <1>5, <1>9, <1>10, <3>1, <3>4 DEF StdRight
        <4> QED BY <3>2, <4>1, <4>2 DEF StdRight
      <3> QED BY <3>3, <3>4
    <2> QED BY <2>2, <2>3, <2>4 DEF RightFile
  <1> QED BY <1>13, <1>14, <1>15 DEF FilesInv

(* The descriptor of a standard handle is redirected. *)
LEMMA FdSet ==
  ASSUME CallType, SlotType, HeapType, Reserved, FilesInv, NEW t \in Threads, SetFd(t)
  PROVE  FilesInv'
  <1> DEFINE n == op[t].h
             x == op[t].x
  <1>1. n \in Std /\ x \in Fds /\ op[t].fn = "set_fd" /\ table[n].ptr = x
    BY DEF SetFd, CallType, CallOf, SetCalls, FilesInv, RightFile, CallRight
  <1>2. op[t].fn \in FdCalls /\ op[t].fn \notin FileCalls /\ op[t].fn \in SetCalls
    BY <1>1 DEF FdCalls, FileCalls, SetCalls
  <1>3. Borrowed(x) /\ fds[x] # Closed /\ fds[x] = means[n]
    BY <1>1, <1>2, UsedOpen DEF FilesInv, Kept, UseKept, RightFile, StdRight
  <1>4. n \in Fds /\ n # x /\ \A k \in Fds : Borrowed(k) => k # n
    BY <1>1, <1>3, Ranges, UsedOpen
  <1>5. /\ fds' = [fds EXCEPT ![n] = fds[x]]
        /\ table' = table /\ means' = means
        /\ op' = [op EXCEPT ![t] = Idle]
    BY <1>3 DEF SetFd, Redirected, Go
  <1>6. \A k \in Fds : fds'[k] = IF k = n THEN means[n] ELSE fds[k]
    BY <1>3, <1>4, <1>5 DEF HeapType
  <1>7. (\A s \in Threads \ {t} : op'[s] = op[s]) /\ op'[t] = Idle
    BY <1>5 DEF CallType
  <1>8. op'[t].fn = "none"
    BY <1>7 DEF Idle
  <1>9. Owned'
    <2>1. \A h \in Slots, k \in Fds : SlotOwns(h, k)' <=> SlotOwns(h, k)
      BY <1>5 DEF SlotOwns
    <2>2. \A s \in Threads, k \in Fds : CallOwns(s, k)' <=> CallOwns(s, k)
      BY <1>1, <1>7, <1>8 DEF CallOwns, Owners
    <2>3. \A k \in Fds \ Std : fds'[k] = fds[k]
      BY <1>1, <1>6
    <2> QED BY <1>5, <2>1, <2>2, <2>3, OwnedKept DEF FilesInv
  <1>10. Kept'
    <2>1. (\A h \in Slots : ~WillClose(t, h)') /\ op'[t].fn \notin FdCalls
      BY <1>8 DEF WillClose, FdCalls
    <2> QED BY <1>5, <1>7, <2>1, KeptKept DEF FilesInv
  <1> HIDE DEF n, x
  <1>11. RightFile'
    <2>1. ASSUME NEW s \in Threads, s # t PROVE CallRight(s)'
      <3>1. CallRight(s) /\ op'[s] = op[s]
        BY <1>7, <2>1 DEF FilesInv, RightFile
      <3>2. op[s].fn \in FdCalls \cup {"alloc"} => op[s].x \in Fds
        BY DEF CallType, CallOf, FdCalls, FileCalls, SetCalls, Owners
      <3>3. ASSUME op[s].fn \in FdCalls \cup {"alloc"}, op[s].x = n
            PROVE  op[s].fn \in FileCalls /\ op[s].h = n
        <4>1. ~Borrowed(n) /\ ~CallOwns(s, n)
          BY <1>1, <1>4 DEF FilesInv, Owned
        <4>2. op[s].fn # "alloc"
          BY <3>3, <4>1 DEF CallOwns, Owners
        <4> QED BY <3>3, <4>1, <4>2 DEF FilesInv, Kept, UseKept
      <3>4. op[s].fn \in FdCalls \cup {"alloc"} => fds'[op[s].x] \in op[s].m
        BY <1>6, <3>1, <3>2, <3>3 DEF CallRight
      <3>5. op[s].fn \in SetCalls => op[s].m = {fds'[op[s].x]}
        <4>1. op[s].fn \in SetCalls => op[s].fn \in FdCalls /\ op[s].fn \notin FileCalls
          BY DEF SetCalls, FdCalls, FileCalls
        <4> QED BY <1>6, <3>1, <3>2, <3>3, <4>1 DEF CallRight
      <3> QED BY <1>5, <3>1, <3>4, <3>5 DEF CallRight
    <2>2. CallRight(t)'
      BY <1>8 DEF CallRight, FdCalls, FileCalls, SetCalls
    <2>3. ASSUME NEW k \in Std PROVE StdRight(k)'
      <3>1. StdRight(k) /\ k \in Fds
        BY Ranges DEF FilesInv, RightFile
      <3>2. \A r \in Threads : SetsStd(r, k)' => SetsStd(r, k)
        BY <1>7, <1>8 DEF SetsStd, SetCalls
      <3>3. \A r, s \in Threads : SetsStd(r, k)' /\ SetsStd(s, k)' => r = s
        BY <3>1, <3>2 DEF StdRight
      <3>4. CASE k = n
        <4>1. fds'[k] = means'[k] /\ means'[k] # Closed
          BY <1>3, <1>5, <1>6, <3>1, <3>4
        <4>2. fds'[table'[k].ptr] = means'[k]
          BY <1>1, <1>3, <1>4, <1>5, <1>6, <3>4
        <4> QED BY <3>3, <4>1, <4>2 DEF StdRight
      <3>5. CASE k # n
        <4>1. table[k].ptr \in Fds
          BY Ranges DEF SlotType, SlotOf, Free
        <4>2. table[k].ptr # n
          BY <1>4, <3>5, <4>1 DEF FilesInv, Kept, StdKept
        <4>3. fds'[k] = fds[k] /\ fds'[table'[k].ptr] = fds[table[k].ptr] /\ means'[k] = means[k]
          BY <1>5, <1>6, <3>1, <3>5, <4>1, <4>2
        <4>4. ASSUME NEW s \in Threads, op[s].fn = "set_fd", op[s].h = k
              PROVE  op'[s].fn = "set_fd" /\ op'[s].h = k
          BY <1>7, <3>5, <4>4 DEF n
        <4> QED BY <3>1, <3>3, <4>3, <4>4 DEF StdRight
      <3> QED BY <3>4, <3>5
    <2> QED BY <2>1, <2>2, <2>3 DEF RightFile
  <1> QED BY <1>9, <1>10, <1>11 DEF FilesInv

(* A slot is emptied by a call that may close it. *)
LEMMA SlotClosed ==
  ASSUME CallType, SlotType, HeapType, Reserved, FilesInv, NEW t \in Threads, NEW h \in Slots,
         op[t].fn \in {"none", "close_source"}, table[h].kind # "H_FREE", Close(t, h),
         \A s \in Threads \ {t} : ~WillClose(s, h),
         table[h].kind = "H_FILE" =>
           /\ \A n \in Std : table[n].ptr # table[h].ptr
           /\ \A s \in Threads : op[s].fn \in FdCalls => op[s].x # table[h].ptr
  PROVE  FilesInv'
  <1>1. h \in Handles /\ h \notin Std
    BY Ranges
  <1>2. /\ \A s \in Threads \ {t} : op'[s] = op[s]
        /\ op'[t] = AfterTake(h) /\ fds' = fds
        /\ table' = [table EXCEPT ![h] = Free] /\ means' = [means EXCEPT ![h] = Closed]
    BY DEF Close, Go, CallType
  <1>3. op[t].fn \notin FdCalls /\ op[t].fn \notin Owners /\ op[t].fn \notin SetCalls
    BY DEF FdCalls, Owners, SetCalls
  <1>4. CASE table[h].kind = "H_FILE"
    <2>1. op'[t] = Call("close", None, table[h].ptr, {})
      BY <1>2, <1>4 DEF AfterTake
    <2> QED BY <1>2, <1>3, <1>4, <2>1, FileTaken
  <1>5. CASE table[h].kind # "H_FILE"
    <2>1. op'[t].fn \in {"release", "dlclose"}
      BY <1>1, <1>2, <1>5 DEF AfterTake, Call, SlotType
    <2>2. op'[t].fn \notin FdCalls \cup Owners \cup {"close_source"}
      BY <2>1 DEF FdCalls, Owners
    <2>3. \A g \in Handles : table'[g] = IF g = h THEN Free ELSE table[g]
      BY <1>1, <1>2 DEF SlotType
    <2>4. \A g \in Handles : g # h => means'[g] = means[g]
      BY <1>1, <1>2 DEF HeapType
    <2>5. \A k \in Std : table'[k] = table[k]
      BY <1>1, <2>3, Ranges
    <2>6. \A g \in Slots : table'[g] = table[g] \/ (table[g].kind # "H_FILE" /\ table'[g].kind # "H_FILE")
      BY <1>5, <2>3, Ranges DEF Free
    <2>7. \A g \in Handles : table[g].kind = "H_FILE" => means'[g] = means[g]
      BY <1>5, <2>4
    <2> QED BY <1>2, <1>3, <2>2, <2>5, <2>6, <2>7, Unconcerned
  <1> QED BY <1>4, <1>5

(* Every step keeps the ownership of the descriptors, the uses and the     *)
(* files they lead to, as long as SetStdHandle is given no standard handle. *)
LEMMA FilesStep ==
  ASSUME ~StdFromStd, SlotType, HeapType, CallType, Reserved, FilesInv, [Next]_vars
  PROVE  FilesInv'
<1>0. CASE UNCHANGED vars
  BY <1>0 DEF FilesInv, Owned, SlotOwns, CallOwns, Kept, UseKept, Borrowed, StdKept, CloseKept,
    WillClose, RightFile, CallRight, StdRight, SetsStd, vars
<1>1. ASSUME NEW t \in Threads, CreateFile(t) PROVE FilesInv'
  <2> DEFINE i == Lowest(FreeFds)
             f == Lowest(NewFiles)
  <2>1. i \in Fds /\ fds[i] = Closed /\ f # Closed /\ op[t].fn = "none"
    BY <1>1, LowestIn, Ranges DEF CreateFile, Idle
  <2>2. \A s \in Threads \ {t} : op'[s] = op[s]
    BY <1>1 DEF CreateFile, Go, CallType
  <2>3. op'[t].fn = "alloc" /\ op'[t].h = None /\ op'[t].x = i /\ f \in op'[t].m
    BY <1>1 DEF CreateFile, Go, Call, CallType
  <2>4. /\ \A k \in Fds : fds'[k] = IF k = i THEN f ELSE fds[k]
        /\ table' = table /\ means' = means
    BY <1>1, <2>1 DEF CreateFile, HeapType
  <2>5. op[t].fn \notin Owners \cup SetCalls
    BY <2>1 DEF Owners, SetCalls
  <2> HIDE DEF i, f
  <2> QED BY <2>1, <2>2, <2>3, <2>4, <2>5, Opened
<1>2. ASSUME NEW t \in Threads, NEW n \in Std, CreateFileConsole(t, n) PROVE FilesInv'
  <2> DEFINE i == Lowest(FreeFds)
  <2>1. i \in Fds /\ fds[i] = Closed /\ fds[n] # Closed /\ op[t].fn = "none"
    BY <1>2, LowestIn DEF CreateFileConsole, Idle, FilesInv, RightFile, StdRight
  <2>2. \A s \in Threads \ {t} : op'[s] = op[s]
    BY <1>2 DEF CreateFileConsole, Go, CallType
  <2>3. op'[t].fn = "alloc" /\ op'[t].h = None /\ op'[t].x = i /\ fds[n] \in op'[t].m
    BY <1>2 DEF CreateFileConsole, Go, Call, CallType
  <2>4. /\ \A k \in Fds : fds'[k] = IF k = i THEN fds[n] ELSE fds[k]
        /\ table' = table /\ means' = means
    BY <1>2, <2>1 DEF CreateFileConsole, HeapType
  <2>5. op[t].fn \notin Owners \cup SetCalls
    BY <2>1 DEF Owners, SetCalls
  <2> HIDE DEF i
  <2> QED BY <2>1, <2>2, <2>3, <2>4, <2>5, Opened
<1>3. ASSUME NEW t \in Threads, AllocFile(t) PROVE FilesInv'
  <2>1. op[t].fn = "alloc" /\ fds' = fds /\ \A s \in Threads \ {t} : op'[s] = op[s]
    BY <1>3 DEF AllocFile, Go, CallType
  <2>2. CASE FreeSlots # {}
    <3> DEFINE i == Lowest(FreeSlots)
    <3>1. i \in Slots /\ table[i].kind = "H_FREE"
      BY <2>2, LowestIn
    <3>2. /\ table' = [table EXCEPT ![i] = [kind |-> "H_FILE", ptr |-> op[t].x]]
          /\ means' = [means EXCEPT ![i] = fds[op[t].x]]
      BY <1>3, <2>2 DEF AllocFile, Filled
    <3>3. /\ op'[t].fn \in {"none", "close_source"}
          /\ op'[t].fn = "close_source" => op'[t].h = op[t].h
      BY <1>3, <2>2 DEF AllocFile, Go, CallType, Call, Idle
    <3> HIDE DEF i
    <3> QED BY <2>1, <3>1, <3>2, <3>3, Placed
  <2>3. CASE FreeSlots = {}
    <3>1. op'[t] = Call("close", None, op[t].x, {}) /\ table' = table /\ means' = means
      BY <1>3, <2>3 DEF AllocFile, FileUnplaced, Go, CallType
    <3> QED BY <2>1, <3>1, Unplaced
  <2> QED BY <2>2, <2>3
<1>4. ASSUME NEW t \in Threads, NEW h \in Handles, CloseHandle(t, h) PROVE FilesInv'
  <2>1. h \in Slots /\ table[h].kind # "H_FREE" /\ op[t].fn = "none" /\ \A s \in Threads : ~WillClose(s, h)
    BY <1>4 DEF CloseHandle, Closable, Ready, Idle
  <2>2. Close(t, h)
    BY <1>4 DEF CloseHandle
  <2>3. table[h].kind = "H_FILE" =>
          /\ \A n \in Std : table[n].ptr # table[h].ptr
          /\ \A s \in Threads : op[s].fn \in FdCalls => op[s].x # table[h].ptr
    BY <1>4 DEF CloseHandle, Closable
  <2> QED BY <2>1, <2>2, <2>3, SlotClosed
<1>5. ASSUME NEW t \in Threads, CloseSource(t) PROVE FilesInv'
  <2>1. CASE op[t].h \in Slots
    <3>1. PICK h \in Slots : h = op[t].h
      BY <2>1
    <3>2. WillClose(t, h) /\ op[t].fn = "close_source"
      BY <1>5, <3>1 DEF CloseSource, WillClose
    <3>3. ClosesAlone(t, h) /\ CloseKept(t, h)
      BY <3>2 DEF Reserved, FilesInv, Kept
    <3>4. table[h].kind = "H_FILE" /\ \A s \in Threads \ {t} : ~WillClose(s, h)
      BY <3>3 DEF ClosesAlone
    <3>5. /\ \A n \in Std : table[n].ptr # table[h].ptr
          /\ \A s \in Threads : op[s].fn \in FdCalls => op[s].x # table[h].ptr
      BY <3>2, <3>3 DEF CloseKept, FdCalls
    <3>6. Close(t, h)
      BY <1>5, <3>1, Ranges DEF CloseSource
    <3> QED BY <3>2, <3>4, <3>5, <3>6, SlotClosed
  <2>2. CASE op[t].h \in Std
    <3>1. op[t].fn = "close_source" /\ op'[t].fn = "none" /\ \A s \in Threads \ {t} : op'[s] = op[s]
      BY <1>5, <2>2, Ranges DEF CloseSource, Go, Idle, CallType
    <3>2. table' = table /\ means' = means /\ fds' = fds
      BY <1>5, <2>2, Ranges DEF CloseSource
    <3>3. op[t].fn \notin Owners \cup SetCalls /\ op'[t].fn \notin FdCalls \cup Owners \cup {"close_source"}
      BY <3>1 DEF FdCalls, Owners, SetCalls
    <3> QED BY <3>1, <3>2, <3>3, Unconcerned
  <2> QED BY <1>5, <2>1, <2>2 DEF CloseSource
<1>6. ASSUME NEW t \in Threads, CloseFd(t) PROVE FilesInv'
  <2>1. op[t].fn = "close" /\ op'[t].fn = "none" /\ \A s \in Threads \ {t} : op'[s] = op[s]
    BY <1>6 DEF CloseFd, Go, Idle, CallType
  <2> QED BY <1>6, <2>1, FdClosed DEF CloseFd
<1>7. ASSUME NEW t \in Threads, NEW h \in Handles, StartIo(t, h) PROVE FilesInv'
  <2>1. op[t].fn = "none" /\ table[h].kind = "H_FILE" /\ \A s \in Threads : ~WillClose(s, h)
    BY <1>7 DEF StartIo, GetFd, Ready, Idle
  <2>2. \A s \in Threads \ {t} : op'[s] = op[s]
    BY <1>7 DEF StartIo, GetFd, Go, CallType
  <2>3. op'[t].fn = "io" /\ op'[t].h = h /\ op'[t].x = table[h].ptr /\ op'[t].m = {means[h]}
    BY <1>7 DEF StartIo, GetFd, Go, Call, CallType
  <2>4. table' = table /\ means' = means /\ fds' = fds
    BY <1>7 DEF StartIo, GetFd
  <2>5. op'[t].fn \in FdCalls \ {"set_fd"} /\ op'[t].fn \notin SetCalls /\ op'[t].fn # "dup_close"
    BY <2>3 DEF FdCalls, SetCalls
  <2> QED BY <2>1, <2>2, <2>3, <2>4, <2>5, UseStarted
<1>8. ASSUME NEW t \in Threads, Io(t) PROVE FilesInv'
  <2>1. \A s \in Threads \ {t} : op'[s] = op[s]
    BY <1>8 DEF Io, Go, CallType
  <2>2. op[t].fn \notin Owners \cup SetCalls
    BY <1>8 DEF Io, Idle, Owners, SetCalls
  <2>3. op'[t].fn \notin FdCalls \cup Owners \cup {"close_source"}
    BY <1>8 DEF Io, Go, Call, Idle, CallType, FdCalls, Owners
  <2>4. /\ \A k \in Std : table'[k] = table[k]
        /\ \A g \in Slots : table'[g] = table[g] \/ (table[g].kind # "H_FILE" /\ table'[g].kind # "H_FILE")
    BY <1>8 DEF Io, SlotType
  <2>5. fds' = fds /\ means' = means
    BY <1>8 DEF Io
  <2> QED BY <2>1, <2>2, <2>3, <2>4, <2>5, Unconcerned
<1>9. ASSUME NEW t \in Threads, NEW n \in Std, NEW h \in Handles,
             SetStdHandle(t, n, h)
      PROVE  FilesInv'
  <2>1. op[t].fn = "none" /\ table[h].kind = "H_FILE" /\ \A s \in Threads : ~WillClose(s, h)
    BY <1>9 DEF SetStdHandle, Ready, Idle
  <2>2. \A s \in Threads \ {t} : op'[s] = op[s]
    BY <1>9 DEF SetStdHandle, Go, CallType
  <2>3. op'[t].fn = "set_slot" /\ op'[t].h = n /\ op'[t].x = table[h].ptr /\ op'[t].m = {means[h]}
    BY <1>9 DEF SetStdHandle, Go, Call, CallType
  <2>4. table' = table /\ means' = means /\ fds' = fds
    BY <1>9 DEF SetStdHandle
  <2>5. op'[t].fn \in FdCalls \ {"set_fd"} /\ op'[t].fn \notin FileCalls /\ op'[t].fn # "dup_close"
    BY <2>3 DEF FdCalls, FileCalls
  <2>6. h \in Slots /\ \A s \in Threads : ~SetsStd(s, n)
    BY <1>9, Ranges DEF SetStdHandle, SetsStd, SetCalls
  <2> QED BY <2>1, <2>2, <2>3, <2>4, <2>5, <2>6, UseStarted
<1>10. ASSUME NEW t \in Threads, SetSlot(t) PROVE FilesInv'
  BY <1>10, SlotSet
<1>11. ASSUME NEW t \in Threads, SetFd(t) PROVE FilesInv'
  BY <1>11, FdSet
<1>12. ASSUME NEW t \in Threads, NEW h \in Handles, NEW b \in BOOLEAN,
              DuplicateHandle(t, h, b)
       PROVE  FilesInv'
  <2>1. op[t].fn = "none" /\ table[h].kind = "H_FILE" /\ \A s \in Threads : ~WillClose(s, h)
    BY <1>12 DEF DuplicateHandle, GetFd, Ready, Idle
  <2>2. \A s \in Threads \ {t} : op'[s] = op[s]
    BY <1>12 DEF DuplicateHandle, GetFd, Go, CallType
  <2>3. op'[t].fn = (IF b THEN "dup_close" ELSE "dup") /\ op'[t].h = h /\ op'[t].x = table[h].ptr /\ op'[t].m = {means[h]}
    BY <1>12 DEF DuplicateHandle, GetFd, Go, Call, CallType
  <2>4. table' = table /\ means' = means /\ fds' = fds
    BY <1>12 DEF DuplicateHandle, GetFd
  <2>5. op'[t].fn \in FdCalls \ {"set_fd"} /\ op'[t].fn \notin SetCalls
    BY <2>3 DEF FdCalls, SetCalls
  <2>6. op'[t].fn = "dup_close" => h \in Std \/ Closable(h)
    BY <1>12, <2>3 DEF DuplicateHandle
  <2> QED BY <2>1, <2>2, <2>3, <2>4, <2>5, <2>6, UseStarted
<1>13. ASSUME NEW t \in Threads, Dup(t) PROVE FilesInv'
  <2>1. op[t].fn \in {"dup", "dup_close"} /\ \A s \in Threads \ {t} : op'[s] = op[s]
    BY <1>13 DEF Dup, Go, CallType
  <2>2. op[t].fn \notin Owners \cup SetCalls /\ op[t].x \in Fds /\ table' = table /\ means' = means
    BY <1>13, <2>1 DEF Dup, Owners, SetCalls, CallType, CallOf, FileCalls
  <2>3. CASE FreeFds # {} /\ fds[op[t].x] # Closed
    <3> DEFINE i == Lowest(FreeFds)
    <3>1. i \in Fds /\ fds[i] = Closed
      BY <2>3, LowestIn
    <3>2. op'[t] = DupTo(t) /\ \A k \in Fds : fds'[k] = IF k = i THEN fds[op[t].x] ELSE fds[k]
      BY <1>13, <2>3, <3>1 DEF Dup, Go, CallType, HeapType
    <3>3. op'[t].fn = "alloc" /\ op'[t].x = i /\ op'[t].m = op[t].m
      BY <3>2 DEF DupTo, Call
    <3>4. op'[t].h = None \/ (op'[t].h = op[t].h /\ op[t].fn = "dup_close")
      BY <3>2 DEF DupTo, Call
    <3>5. fds[op[t].x] \in op[t].m
      BY <2>1 DEF FilesInv, RightFile, CallRight, FdCalls
    <3> HIDE DEF i
    <3> QED BY <2>1, <2>2, <2>3, <3>1, <3>2, <3>3, <3>4, <3>5, Opened
  <2>4. CASE FreeFds = {} \/ fds[op[t].x] = Closed
    <3>1. fds' = fds /\ op'[t].fn = "none"
      BY <1>13, <2>4 DEF Dup, Go, CallType, Idle
    <3>2. op'[t].fn \notin FdCalls \cup Owners \cup {"close_source"}
      BY <3>1 DEF FdCalls, Owners
    <3> QED BY <2>1, <2>2, <3>1, <3>2, Unconcerned
  <2> QED BY <2>3, <2>4
<1>14. ASSUME NEW t \in Threads, FindFirstFile(t) PROVE FilesInv'
  <2>1. \A s \in Threads \ {t} : op'[s] = op[s]
    BY <1>14 DEF FindFirstFile, Go, CallType
  <2>2. op[t].fn \notin Owners \cup SetCalls
    BY <1>14 DEF FindFirstFile, Idle, Owners, SetCalls
  <2>3. op'[t].fn \notin FdCalls \cup Owners \cup {"close_source"}
    BY <1>14 DEF FindFirstFile, Go, Call, Idle, CallType, FdCalls, Owners
  <2>4. /\ \A k \in Std : table'[k] = table[k]
        /\ \A g \in Slots : table'[g] = table[g] \/ (table[g].kind # "H_FILE" /\ table'[g].kind # "H_FILE")
    BY <1>14 DEF FindFirstFile, SlotType
  <2>5. fds' = fds /\ means' = means
    BY <1>14 DEF FindFirstFile
  <2> QED BY <2>1, <2>2, <2>3, <2>4, <2>5, Unconcerned
<1>15. ASSUME NEW t \in Threads, AllocFind(t) PROVE FilesInv'
  <2>1. \A s \in Threads \ {t} : op'[s] = op[s]
    BY <1>15 DEF AllocFind, Go, CallType
  <2>2. op[t].fn \notin Owners \cup SetCalls
    BY <1>15 DEF AllocFind, Idle, Owners, SetCalls
  <2>3. op'[t].fn \notin FdCalls \cup Owners \cup {"close_source"}
    BY <1>15 DEF AllocFind, Filled, Go, Call, Idle, CallType, FdCalls, Owners
  <2>4. /\ \A k \in Std : table'[k] = table[k]
        /\ \A g \in Slots : table'[g] = table[g] \/ (table[g].kind # "H_FILE" /\ table'[g].kind # "H_FILE")
    BY <1>15, LowestIn, Ranges DEF AllocFind, Filled, SlotType
  <2>5. fds' = fds /\ means' = means
    BY <1>15 DEF AllocFind
  <2> QED BY <2>1, <2>2, <2>3, <2>4, <2>5, Unconcerned
<1>16. ASSUME NEW t \in Threads, NEW h \in Handles, FindNextFile(t, h) PROVE FilesInv'
  <2>1. \A s \in Threads \ {t} : op'[s] = op[s]
    BY <1>16 DEF FindNextFile, Go, CallType
  <2>2. op[t].fn \notin Owners \cup SetCalls
    BY <1>16 DEF FindNextFile, Idle, Owners, SetCalls
  <2>3. op'[t].fn \notin FdCalls \cup Owners \cup {"close_source"}
    BY <1>16 DEF FindNextFile, Retained, Go, Call, Idle, CallType, FdCalls, Owners
  <2>4. /\ \A k \in Std : table'[k] = table[k]
        /\ \A g \in Slots : table'[g] = table[g] \/ (table[g].kind # "H_FILE" /\ table'[g].kind # "H_FILE")
    BY <1>16 DEF FindNextFile, SlotType
  <2>5. fds' = fds /\ means' = means
    BY <1>16 DEF FindNextFile
  <2> QED BY <2>1, <2>2, <2>3, <2>4, <2>5, Unconcerned
<1>17. ASSUME NEW t \in Threads, NextEntry(t) PROVE FilesInv'
  <2>1. \A s \in Threads \ {t} : op'[s] = op[s]
    BY <1>17 DEF NextEntry, Go, CallType
  <2>2. op[t].fn \notin Owners \cup SetCalls
    BY <1>17 DEF NextEntry, Idle, Owners, SetCalls
  <2>3. op'[t].fn \notin FdCalls \cup Owners \cup {"close_source"}
    BY <1>17 DEF NextEntry, Stepped, Go, Call, Idle, CallType, FdCalls, Owners
  <2>4. /\ \A k \in Std : table'[k] = table[k]
        /\ \A g \in Slots : table'[g] = table[g] \/ (table[g].kind # "H_FILE" /\ table'[g].kind # "H_FILE")
    BY <1>17 DEF NextEntry, SlotType
  <2>5. fds' = fds /\ means' = means
    BY <1>17 DEF NextEntry
  <2> QED BY <2>1, <2>2, <2>3, <2>4, <2>5, Unconcerned
<1>18. ASSUME NEW t \in Threads, ReleaseFindCtx(t) PROVE FilesInv'
  <2>1. \A s \in Threads \ {t} : op'[s] = op[s]
    BY <1>18 DEF ReleaseFindCtx, Go, CallType
  <2>2. op[t].fn \notin Owners \cup SetCalls
    BY <1>18 DEF ReleaseFindCtx, Idle, Owners, SetCalls
  <2>3. op'[t].fn \notin FdCalls \cup Owners \cup {"close_source"}
    BY <1>18 DEF ReleaseFindCtx, Go, Call, Idle, CallType, FdCalls, Owners
  <2>4. /\ \A k \in Std : table'[k] = table[k]
        /\ \A g \in Slots : table'[g] = table[g] \/ (table[g].kind # "H_FILE" /\ table'[g].kind # "H_FILE")
    BY <1>18 DEF ReleaseFindCtx, SlotType
  <2>5. fds' = fds /\ means' = means
    BY <1>18 DEF ReleaseFindCtx
  <2> QED BY <2>1, <2>2, <2>3, <2>4, <2>5, Unconcerned
<1>19. ASSUME NEW t \in Threads, FindCtxFree(t) PROVE FilesInv'
  <2>1. \A s \in Threads \ {t} : op'[s] = op[s]
    BY <1>19 DEF FindCtxFree, Go, CallType
  <2>2. op[t].fn \notin Owners \cup SetCalls
    BY <1>19 DEF FindCtxFree, Idle, Owners, SetCalls
  <2>3. op'[t].fn \notin FdCalls \cup Owners \cup {"close_source"}
    BY <1>19 DEF FindCtxFree, NoCtx, Go, Call, Idle, CallType, FdCalls, Owners
  <2>4. /\ \A k \in Std : table'[k] = table[k]
        /\ \A g \in Slots : table'[g] = table[g] \/ (table[g].kind # "H_FILE" /\ table'[g].kind # "H_FILE")
    BY <1>19 DEF FindCtxFree, SlotType
  <2>5. fds' = fds /\ means' = means
    BY <1>19 DEF FindCtxFree
  <2> QED BY <2>1, <2>2, <2>3, <2>4, <2>5, Unconcerned
<1>20. ASSUME NEW t \in Threads, NEW l \in Libs, LoadLibrary(t, l) PROVE FilesInv'
  <2>1. \A s \in Threads \ {t} : op'[s] = op[s]
    BY <1>20 DEF LoadLibrary, Go, CallType
  <2>2. op[t].fn \notin Owners \cup SetCalls
    BY <1>20 DEF LoadLibrary, Idle, Owners, SetCalls
  <2>3. op'[t].fn \notin FdCalls \cup Owners \cup {"close_source"}
    BY <1>20 DEF LoadLibrary, Go, Call, Idle, CallType, FdCalls, Owners
  <2>4. /\ \A k \in Std : table'[k] = table[k]
        /\ \A g \in Slots : table'[g] = table[g] \/ (table[g].kind # "H_FILE" /\ table'[g].kind # "H_FILE")
    BY <1>20 DEF LoadLibrary, SlotType
  <2>5. fds' = fds /\ means' = means
    BY <1>20 DEF LoadLibrary
  <2> QED BY <2>1, <2>2, <2>3, <2>4, <2>5, Unconcerned
<1>21. ASSUME NEW t \in Threads, AllocModule(t) PROVE FilesInv'
  <2>1. \A s \in Threads \ {t} : op'[s] = op[s]
    BY <1>21 DEF AllocModule, Go, CallType
  <2>2. op[t].fn \notin Owners \cup SetCalls
    BY <1>21 DEF AllocModule, Idle, Owners, SetCalls
  <2>3. op'[t].fn \notin FdCalls \cup Owners \cup {"close_source"}
    BY <1>21 DEF AllocModule, Filled, ModuleUnplaced, Go, Call, Idle, CallType, FdCalls, Owners
  <2>4. /\ \A k \in Std : table'[k] = table[k]
        /\ \A g \in Slots : table'[g] = table[g] \/ (table[g].kind # "H_FILE" /\ table'[g].kind # "H_FILE")
    BY <1>21, LowestIn, Ranges DEF AllocModule, Filled, SlotType
  <2>5. fds' = fds /\ means' = means
    BY <1>21 DEF AllocModule
  <2> QED BY <2>1, <2>2, <2>3, <2>4, <2>5, Unconcerned
<1>22. ASSUME NEW t \in Threads, DlClose(t) PROVE FilesInv'
  <2>1. \A s \in Threads \ {t} : op'[s] = op[s]
    BY <1>22 DEF DlClose, Go, CallType
  <2>2. op[t].fn \notin Owners \cup SetCalls
    BY <1>22 DEF DlClose, Idle, Owners, SetCalls
  <2>3. op'[t].fn \notin FdCalls \cup Owners \cup {"close_source"}
    BY <1>22 DEF DlClose, Go, Call, Idle, CallType, FdCalls, Owners
  <2>4. /\ \A k \in Std : table'[k] = table[k]
        /\ \A g \in Slots : table'[g] = table[g] \/ (table[g].kind # "H_FILE" /\ table'[g].kind # "H_FILE")
    BY <1>22 DEF DlClose, SlotType
  <2>5. fds' = fds /\ means' = means
    BY <1>22 DEF DlClose
  <2> QED BY <2>1, <2>2, <2>3, <2>4, <2>5, Unconcerned
<1>23. ASSUME NEW t \in Threads, NEW h \in Handles, GetProcAddress(t, h) PROVE FilesInv'
  <2>1. \A s \in Threads \ {t} : op'[s] = op[s]
    BY <1>23 DEF GetProcAddress, Go, CallType
  <2>2. op[t].fn \notin Owners \cup SetCalls
    BY <1>23 DEF GetProcAddress, Ready, Idle, Owners, SetCalls
  <2>3. op'[t].fn \notin FdCalls \cup Owners \cup {"close_source"}
    BY <1>23 DEF GetProcAddress, Ready, Go, Call, Idle, CallType, FdCalls, Owners
  <2>4. /\ \A k \in Std : table'[k] = table[k]
        /\ \A g \in Slots : table'[g] = table[g] \/ (table[g].kind # "H_FILE" /\ table'[g].kind # "H_FILE")
    BY <1>23 DEF GetProcAddress, SlotType
  <2>5. fds' = fds /\ means' = means
    BY <1>23 DEF GetProcAddress
  <2> QED BY <2>1, <2>2, <2>3, <2>4, <2>5, Unconcerned
<1>24. ASSUME NEW t \in Threads, DlSym(t) PROVE FilesInv'
  <2>1. \A s \in Threads \ {t} : op'[s] = op[s]
    BY <1>24 DEF DlSym, Go, CallType
  <2>2. op[t].fn \notin Owners \cup SetCalls
    BY <1>24 DEF DlSym, Idle, Owners, SetCalls
  <2>3. op'[t].fn \notin FdCalls \cup Owners \cup {"close_source"}
    BY <1>24 DEF DlSym, Go, Call, Idle, CallType, FdCalls, Owners
  <2>4. /\ \A k \in Std : table'[k] = table[k]
        /\ \A g \in Slots : table'[g] = table[g] \/ (table[g].kind # "H_FILE" /\ table'[g].kind # "H_FILE")
    BY <1>24 DEF DlSym, SlotType
  <2>5. fds' = fds /\ means' = means
    BY <1>24 DEF DlSym
  <2> QED BY <2>1, <2>2, <2>3, <2>4, <2>5, Unconcerned
<1> QED BY NextCases, <1>0, <1>1, <1>2, <1>3, <1>4, <1>5, <1>6, <1>7, <1>8, <1>9, <1>10, <1>11,
    <1>12, <1>13, <1>14, <1>15, <1>16, <1>17, <1>18, <1>19, <1>20, <1>21, <1>22, <1>23, <1>24

-----------------------------------------------------------------------------
(* The initial states. *)

(* The types hold at first, and no call needs a handle.                    *)
LEMMA InitTyped ==
  ASSUME Init
  PROVE  TypeInv /\ Reserved
  <1>1. SlotType
    BY Ranges DEF Init, SlotType, SlotOf, Free, Ptrs
  <1>2. HeapType
    <2>1. \A i \in Std : i + 1 \in 0 .. MaxFiles
      BY FileAssumption DEF Std
    <2>2. fds \in [Fds -> 0 .. MaxFiles] /\ means \in [Handles -> 0 .. MaxFiles]
      BY <2>1, Ranges DEF Init
    <2>3. ctxs \in [Ctxs -> [live : BOOLEAN, refcount : Int, next : Nat]] /\ libs \in [Libs -> Int]
      BY DEF Init, NoCtx
    <2> QED BY <2>2, <2>3 DEF HeapType
  <1>3. CallType
    BY IdleTyped DEF Init, CallType
  <1>4. Reserved
    BY DEF Init, Reserved, HandleKept, WillClose, Idle, FileCalls
  <1> QED BY <1>1, <1>2, <1>3, <1>4 DEF TypeInv

(* At first there are no searches and no open libraries.                   *)
LEMMA InitUnreferenced ==
  ASSUME Init
  PROVE  Searches /\ Libraries
  <1>1. \A h \in Slots : table[h].kind = "H_FREE"
    BY Ranges DEF Init, Free
  <1>2. \A t \in Threads : op[t].fn = "none"
    BY DEF Init, Idle
  <1>3. \A c : FindSlots(c) = {} /\ FindCalls(c) = {} /\ Freers(c) = {} /\ LibSlots(c) = {} /\ LibHolds(c) = {}
    BY <1>1, <1>2 DEF FindSlots, FindCalls, Freers, LibSlots, LibHolds, SlotsWith, CallsWith
  <1>4. (\A c \in Ctxs : ~ctxs[c].live) /\ \A l \in Libs : libs[l] = 0
    BY DEF Init, NoCtx
  <1>5. Searches
    BY <1>2, <1>3, <1>4 DEF Searches, CtxSound, Unshared
  <1>6. Libraries
    BY <1>3, <1>4, FS_EmptySet DEF Libraries
  <1> QED BY <1>5, <1>6

(* At first only the standard descriptors are open, each under its own     *)
(* handle.                                                                 *)
LEMMA InitFiles ==
  ASSUME Init
  PROVE  FilesInv
  <1>1. \A h \in Slots : table[h].kind = "H_FREE"
    BY Ranges DEF Init, Free
  <1>2. \A t \in Threads : op[t].fn = "none"
    BY DEF Init, Idle
  <1>3. /\ \A n \in Fds \ Std : fds[n] = Closed
        /\ \A n \in Std : fds[n] = n + 1 /\ means[n] = n + 1 /\ table[n].ptr = n
    BY Ranges DEF Init
  <1>4. \A n \in Std : n + 1 # Closed
    BY FileAssumption DEF Std, Closed
  <1>5. Owned
    BY <1>1, <1>2, <1>3 DEF Owned, SlotOwns, CallOwns, Owners
  <1>6. Kept
    BY <1>2, <1>3 DEF Kept, UseKept, StdKept, CloseKept, WillClose, FdCalls
  <1>7. RightFile
    BY <1>2, <1>3, <1>4 DEF RightFile, CallRight, StdRight, SetsStd, FdCalls, FileCalls, SetCalls
  <1> QED BY <1>5, <1>6, <1>7 DEF FilesInv

-----------------------------------------------------------------------------
(* Searches and libraries, whatever SetStdHandle is given. *)

CountInv == TypeInv /\ Reserved /\ Searches /\ Libraries

(* CountInv is inductive.                                                  *)
LEMMA CountInductive ==
  ASSUME CountInv, [Next]_vars
  PROVE  CountInv'
  <1>1. SlotType /\ HeapType /\ CallType /\ Reserved /\ Searches /\ Libraries
    BY DEF CountInv, TypeInv
  <1>2. TypeInv'
    BY <1>1, SlotStep, HeapStep, CallStep DEF TypeInv
  <1>3. Reserved' /\ Searches' /\ Libraries'
    BY <1>1, ReservedStep, SearchStep, LibraryStep
  <1> QED BY <1>2, <1>3 DEF CountInv

(* The references of a search are the ones its count says. *)
LEMMA SearchesAgree ==
  ASSUME Searches, NEW c \in Ctxs
  PROVE  SearchCounted(c)
  <1> DEFINE S == FindSlots(c)
             C == FindCalls(c)
             F == Freers(c)
  <1>1. S = SlotsWith("H_FIND", c) /\ C = CallsWith({"alloc_find", "next", "release"}, c)
        /\ F = CallsWith({"free_ctx"}, c)
    BY DEF FindSlots, FindCalls, Freers
  <1>2. IsFiniteSet(S) /\ IsFiniteSet(C) /\ IsFiniteSet(F)
    BY <1>1, HoldersFinite
  <1>3. CtxSound(c)
    BY DEF Searches
  <1>4. /\ Cardinality(S) \in Nat /\ (Cardinality(S) = 0 <=> S = {})
        /\ Cardinality(C) \in Nat /\ (Cardinality(C) = 0 <=> C = {})
        /\ Cardinality(F) = 0 <=> F = {}
    BY <1>2, NoneOrSome
  <1>5. (\E t \in Threads : F = {t}) => Cardinality(F) = 1
    BY <1>2, NoneOrSome
  <1>6. \/ /\ ctxs[c].live /\ Cardinality(F) = 0 /\ Cardinality(S) + Cardinality(C) > 0
           /\ ctxs[c].refcount = Cardinality(S) + Cardinality(C)
        \/ ctxs[c].live /\ Cardinality(F) = 1 /\ Cardinality(S) + Cardinality(C) = 0
        \/ ~ctxs[c].live /\ Cardinality(F) = 0 /\ Cardinality(S) + Cardinality(C) = 0
    <2>1. CASE /\ ctxs[c].live /\ F = {} /\ S \cup C # {}
               /\ ctxs[c].refcount = Cardinality(S) + Cardinality(C)
      <3>1. S # {} \/ C # {} BY <2>1
      <3>2. Cardinality(S) + Cardinality(C) > 0 BY <1>4, <3>1
      <3> QED BY <1>4, <2>1, <3>2
    <2>2. CASE /\ ctxs[c].live /\ \E t \in Threads : F = {t}
               /\ S = {} /\ C = {}
      BY <1>4, <1>5, <2>2
    <2>3. CASE ~ctxs[c].live /\ F = {} /\ S = {} /\ C = {}
      BY <1>4, <2>3
    <2> QED BY <1>3, <2>1, <2>2, <2>3 DEF CtxSound
  <1> QED BY <1>1, <1>6 DEF SearchCounted

(* A symbol is looked up through the handle of its library, which counts. *)
LEMMA LibrariesAgree ==
  ASSUME Reserved, Libraries, NEW l \in Libs
  PROVE  LibraryCounted(l)
  <1>1. libs[l] = Cardinality(LibSlots(l)) + Cardinality(LibHolds(l))
    BY DEF Libraries
  <1>2. LibSlots(l) = SlotsWith("H_MODULE", l) /\ LibHolds(l) = CallsWith({"alloc_module", "dlclose"}, l)
    BY DEF LibSlots, LibHolds
  <1>3. ASSUME CallsWith({"dlsym"}, l) # {} PROVE libs[l] > 0
    <2>1. PICK t \in Threads : op[t].fn = "dlsym" /\ op[t].x = l
      BY <1>3 DEF CallsWith
    <2>2. HandleKept(t)
      BY DEF Reserved
    <2>3. op[t].h \in Slots /\ table[op[t].h] = [kind |-> "H_MODULE", ptr |-> l]
      BY <2>1, <2>2 DEF HandleKept
    <2>4. op[t].h \in LibSlots(l)
      BY <2>3, LibMembership
    <2>5. Cardinality(LibSlots(l)) # 0
      BY <2>4, NamedFinite, NoneOrSome
    <2> QED BY <1>1, <2>5, NamedFinite
  <1> QED BY <1>1, <1>2, <1>3 DEF LibraryCounted

(* For any threads, table and contexts the count of a search is the number *)
(* of its handles and of the calls that hold it, one call frees it when    *)
(* there are none, and libraries are open as often as handles and calls    *)
(* account for: FindNextFile is safe against a concurrent FindClose, and   *)
(* GetProcAddress never looks into a library that was closed.              *)
THEOREM ReferencesCountedHolds == Spec => []ReferencesCounted
  <1>1. Init => CountInv
    BY InitTyped, InitUnreferenced DEF CountInv
  <1>2. CountInv /\ [Next]_vars => CountInv'
    BY CountInductive
  <1>3. CountInv => ReferencesCounted
    BY SearchesAgree, LibrariesAgree DEF CountInv, ReferencesCounted
  <1> QED BY <1>1, <1>2, <1>3, PTL DEF Spec

-----------------------------------------------------------------------------
(* Files, if SetStdHandle is given no standard handle. *)

FileInv == TypeInv /\ Reserved /\ FilesInv

(* FileInv is inductive.                                                   *)
LEMMA FileInductive ==
  ASSUME ~StdFromStd, FileInv, [Next]_vars
  PROVE  FileInv'
  <1>1. SlotType /\ HeapType /\ CallType /\ Reserved /\ FilesInv
    BY DEF FileInv, TypeInv
  <1>2. TypeInv'
    BY <1>1, SlotStep, HeapStep, CallStep DEF TypeInv
  <1>3. Reserved'
    BY <1>1, ReservedStep
  <1>4. FilesInv'
    BY <1>1, FilesStep
  <1> QED BY <1>2, <1>3, <1>4 DEF FileInv

(* Every descriptor has the one owner that Owned gives it. *)
LEMMA OwnersCounted ==
  ASSUME Owned, NEW n \in Fds
  PROVE  Cardinality(SlotsWith("H_FILE", n)) + Cardinality(CallsWith({"alloc", "close"}, n))
           = IF n \in Std \/ fds[n] = Closed THEN 0 ELSE 1
  <1> DEFINE S == SlotsWith("H_FILE", n)
             C == CallsWith({"alloc", "close"}, n)
  <1>1. S \subseteq Slots /\ C \subseteq Threads
    BY DEF SlotsWith, CallsWith
  <1>2. (\A h \in Slots : h \in S <=> SlotOwns(h, n)) /\ (\A t \in Threads : t \in C <=> CallOwns(t, n))
    BY DEF SlotsWith, CallsWith, SlotOwns, CallOwns, Owners
  <1>3. IsFiniteSet(S) /\ IsFiniteSet(C)
    BY HoldersFinite
  <1> HIDE DEF S, C
  <1>4. Cardinality({}) = 0 /\ \A x : Cardinality({x}) = 1
    BY FS_EmptySet, FS_Singleton
  <1>5. CASE n \in Std \/ fds[n] = Closed
    <2>1. S = {} /\ C = {}
      BY <1>1, <1>2, <1>5 DEF Owned
    <2> QED BY <1>4, <1>5, <2>1 DEF S, C
  <1>6. CASE ~(n \in Std \/ fds[n] = Closed)
    <2>1. (\E h \in Slots : SlotOwns(h, n)) \/ (\E t \in Threads : CallOwns(t, n))
      BY <1>6 DEF Owned
    <2>2. CASE \E h \in Slots : SlotOwns(h, n)
      <3>1. PICK h \in Slots : SlotOwns(h, n)
        BY <2>2
      <3>2. (\A g \in Slots : SlotOwns(g, n) => g = h) /\ \A t \in Threads : ~CallOwns(t, n)
        BY <3>1 DEF Owned
      <3>3. S = {h} /\ C = {}
        BY <1>1, <1>2, <3>1, <3>2
      <3>4. Cardinality(S) = 1 /\ Cardinality(C) = 0
        BY <1>4, <3>3
      <3>5. Cardinality(S) + Cardinality(C) = 1
        BY <3>4
      <3> QED BY <1>6, <3>5 DEF S, C
    <2>3. CASE \E t \in Threads : CallOwns(t, n)
      <3>1. PICK t \in Threads : CallOwns(t, n)
        BY <2>3
      <3>2. \A s \in Threads : CallOwns(s, n) => s = t
        BY <3>1 DEF Owned
      <3>3. \A h \in Slots : ~SlotOwns(h, n)
        BY <3>1 DEF Owned
      <3>4. C = {t} /\ S = {}
        BY <1>1, <1>2, <3>1, <3>2, <3>3
      <3>5. Cardinality(S) + Cardinality(C) = 1
        BY <1>4, <3>4
      <3> QED BY <1>6, <3>5 DEF S, C
    <2> QED BY <2>1, <2>2, <2>3
  <1> QED BY <1>5, <1>6

(* FileInv always holds.                                                   *)
LEMMA FilesAlways == ~StdFromStd /\ Spec => []FileInv
  <1> SUFFICES ASSUME ~StdFromStd PROVE Spec => []FileInv
    OBVIOUS
  <1>1. Init => FileInv
    BY InitTyped, InitFiles DEF FileInv
  <1>2. FileInv /\ [Next]_vars => FileInv'
    BY FileInductive
  <1> QED BY <1>1, <1>2, PTL DEF Spec

(* For any number of threads, slots and descriptors, every descriptor      *)
(* above the standard ones is owned by exactly one handle or call: no path *)
(* through CreateFile, DuplicateHandle, CloseHandle and a full table leaks *)
(* one, closes one twice or puts one in two slots.                         *)
THEOREM DescriptorsOwnedHolds == ~StdFromStd /\ Spec => []DescriptorsOwned
  <1>1. FileInv => DescriptorsOwned
    BY OwnersCounted DEF FileInv, FilesInv, DescriptorsOwned
  <1> QED BY <1>1, FilesAlways, PTL

(* A call that took a descriptor out of the table operates, steps after it *)
(* gave up the lock, on a file its handle has stood for since, however     *)
(* descriptors are closed and reused by other threads meanwhile.           *)
THEOREM IoRightFileHolds == ~StdFromStd /\ Spec => []IoRightFile
  <1>1. FileInv => IoRightFile
    BY DEF FileInv, FilesInv, RightFile, CallRight, IoRightFile
  <1> QED BY <1>1, FilesAlways, PTL

(* Once SetStdHandle has returned, the handle and the descriptor lead to   *)
(* the same file.  The condition is needed: a standard handle that         *)
(* SetStdHandle is given lends its own descriptor, and a later dup2 onto   *)
(* that one redirects both.                                                *)
THEOREM StdAgreesHolds == ~StdFromStd /\ Spec => []StdAgrees
  <1>1. ASSUME FileInv, NEW n \in Std,
               \A t \in Threads : ~(op[t].fn \in {"set_slot", "set_fd"} /\ op[t].h = n)
        PROVE  fds[n] = means[n] /\ fds[table[n].ptr] = means[n]
    <2>1. StdRight(n)
      BY <1>1 DEF FileInv, FilesInv, RightFile
    <2> QED BY <1>1, <2>1 DEF StdRight
  <1>2. FileInv => StdAgrees
    BY <1>1 DEF StdAgrees
  <1> QED BY <1>2, FilesAlways, PTL

=============================================================================
