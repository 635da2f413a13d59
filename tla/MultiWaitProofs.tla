--------------------------- MODULE MultiWaitProofs ---------------------------
(***************************************************************************)
(* Proofs about SyncHandles and MultiWait, for every finite set of threads *)
(* and slots, every set of objects and lists of any length.                *)
(*                                                                         *)
(* About SyncHandles: type correctness, and, for a program that does not   *)
(* race on DuplicateHandle, that reference counts are exact, that no freed *)
(* object is reached, that each object is destroyed once, and that no      *)
(* thread sleeps through the signal of an event.                           *)
(*                                                                         *)
(* About MultiWait: wait-all gives its caller everything or nothing, no    *)
(* semaphore token is lost or invented, and no wakeup is lost.  The        *)
(* invariant says which positions of its list a call has acquired at every *)
(* step (Taken), that the handles at those positions are open, and that    *)
(* mutexes and semaphores account for them one by one.                     *)
(***************************************************************************)
EXTENDS MultiWait, FunctionTheorems, FiniteSetTheorems, TLAPS

-----------------------------------------------------------------------------
(* Type correctness: what the building blocks of the actions do to each of *)
(* the four groups of variables.                                           *)

(* Leaving a group of variables alone keeps its type. *)
LEMMA SlotStutter == SlotType /\ UNCHANGED slotVars => SlotType'
  BY DEF SlotType, slotVars

LEMMA HeapStutter == HeapType /\ UNCHANGED heapVars => HeapType'
  BY DEF HeapType, heapVars

LEMMA DataStutter == DataType /\ UNCHANGED dataVars => DataType'
  BY DEF DataType, dataVars

(* Counting references keeps the heap well typed. *)
LEMMA CountTyped ==
  ASSUME HeapType, NEW o, Retain(o) \/ DropRef(o), UNCHANGED <<life, okind>>
  PROVE  HeapType'
  <1>1. CASE o \in Objs
    BY <1>1 DEF HeapType, Retain, DropRef
  <1>2. CASE o \notin Objs
    BY <1>2 DEF HeapType, Retain, DropRef
  <1> QED BY <1>1, <1>2

(* Setting or clearing an event keeps the contents well typed. *)
LEMMA SignaledTyped ==
  ASSUME DataType, NEW o, NEW b, o \in Objs => b \in BOOLEAN,
         signaled' = [signaled EXCEPT ![o] = b], UNCHANGED <<owner, depth, manual, count>>
  PROVE  DataType'
  <1>1. signaled' \in [Objs -> BOOLEAN]
    BY DEF DataType
  <1> QED BY <1>1 DEF DataType

(* A thread that moves on inside its call keeps the frames well typed. *)
LEMMA FrameGoto ==
  ASSUME FrameType, NEW t \in Threads, NEW where \in PCs, Goto(t, where),
         where \in {"dup", "dupclose"} => hnd[t] \in Slots,
         UNCHANGED <<op, hnd, knd, ptr, inf, left, ret>>
  PROVE  FrameType'
  BY DEF FrameType, Goto

(* So does one that has decided the result of its call ... *)
LEMMA FrameDone ==
  ASSUME FrameType, NEW t \in Threads, NEW value \in Rets, Done(t, value), UNCHANGED left
  PROVE  FrameType'
  BY DEF FrameType, Done, Goto, PCs

(* ... and one that leaves it. *)
LEMMA FrameLeave ==
  ASSUME FrameType, NEW t \in Threads, Leave(t), ret' \in [Threads -> Rets]
  PROVE  FrameType'
  <1>1. /\ pc' \in [Threads -> PCs] /\ op' \in [Threads -> Ops]
        /\ knd' \in [Threads -> SyncKinds \cup {"H_FREE"}]
    BY DEF FrameType, Leave, Goto, PCs, Ops
  <1>2. /\ hnd' \in [Threads -> Slots \cup {Null}] /\ ptr' \in [Threads -> Objs \cup {Null}]
        /\ inf' \in [Threads -> BOOLEAN] /\ left' \in [Threads -> Nat]
    BY DEF FrameType, Leave
  <1>3. \A u \in Threads : pc'[u] \in {"dup", "dupclose"} => hnd'[u] \in Slots
    BY DEF FrameType, Leave, Goto
  <1> QED BY <1>1, <1>2, <1>3 DEF FrameType

(* Returning a value of the API keeps the frames well typed too. *)
LEMMA FrameReturn ==
  ASSUME FrameType, NEW t \in Threads, NEW value \in Rets, Return(t, value)
  PROVE  FrameType'
  <1>1. ret' \in [Threads -> Rets]
    BY DEF Return, FrameType
  <1> QED BY <1>1, FrameLeave DEF Return

(* A call that fails at its lookup changes its frame only. *)
LEMMA FailsTyped ==
  ASSUME TypeOK, NEW t \in Threads, NEW value \in Rets, LookupFails(t, value)
  PROVE  TypeOK'
  BY FrameReturn, SlotStutter, HeapStutter, DataStutter
  DEF TypeOK, LookupFails, slotVars, heapVars, dataVars

(* free() leaves heap and contents well typed. *)
LEMMA FreeTyped ==
  ASSUME HeapType, DataType, NEW o, Free(o), UNCHANGED rc
  PROVE  HeapType' /\ DataType'
  <1>1. HeapType'
    BY DEF Free, HeapType, SyncKinds
  <1>2. DataType'
    BY DEF Free, DataType
  <1> QED BY <1>1, <1>2

(* The lookup under g_handles_mu starts a well typed frame. *)
LEMMA LookupTyped ==
  ASSUME TypeOK, NEW t \in Threads, NEW name \in Ops, NEW s \in Slots,
         LookupRetain(t, name, s), inf' \in [Threads -> BOOLEAN], left' \in [Threads -> Nat]
  PROVE  TypeOK'
  <1>1. HeapType'
    BY CountTyped DEF TypeOK, LookupRetain
  <1>2. /\ pc' \in [Threads -> PCs] /\ op' \in [Threads -> Ops] /\ ret' \in [Threads -> Rets]
        /\ hnd' \in [Threads -> Slots \cup {Null}]
    BY DEF TypeOK, FrameType, LookupRetain, Goto, PCs
  <1>3. /\ knd' \in [Threads -> SyncKinds \cup {"H_FREE"}]
        /\ ptr' \in [Threads -> Objs \cup {Null}]
    BY DEF TypeOK, FrameType, SlotType, LookupRetain
  <1>4. \A u \in Threads : pc'[u] \in {"dup", "dupclose"} => hnd'[u] \in Slots
    BY DEF TypeOK, FrameType, LookupRetain, Goto
  <1>5. FrameType'
    BY <1>2, <1>3, <1>4 DEF FrameType
  <1> QED BY <1>1, <1>5, SlotStutter, DataStutter DEF TypeOK, LookupRetain, slotVars, dataVars

(* pthread_mutex_unlock never takes a recursion count below zero. *)
LEMMA UnlockTyped ==
  ASSUME DataType, NEW t \in Threads, NEW o, Unlocked(t, o),
         UNCHANGED <<signaled, manual, count>>
  PROVE  DataType'
  <1>1. CASE o \notin Objs
    BY <1>1 DEF DataType, Unlocked
  <1>2. CASE o \in Objs
    BY <1>2, ThreadsAssumption DEF DataType, Unlocked
  <1> QED BY <1>1, <1>2

(* Clearing a slot starts a well typed frame. *)
LEMMA ClearTyped ==
  ASSUME TypeOK, NEW t \in Threads, NEW name \in Ops, NEW s \in Slots, ClearSlot(t, name, s)
  PROVE  TypeOK'
  <1>1. SlotType'
    BY DEF TypeOK, SlotType, ClearSlot
  <1>2. FrameType'
    BY DEF TypeOK, FrameType, SlotType, ClearSlot, Goto, PCs, Rets
  <1> QED BY <1>1, <1>2, HeapStutter, DataStutter DEF TypeOK, ClearSlot, heapVars, dataVars

(* Allocating and initialising an object. *)
LEMMA NewObjectTyped ==
  ASSUME TypeOK, NEW t \in Threads, NEW o \in Objs, NEW kind \in SyncKinds,
         NewObject(t, o, kind), DataType'
  PROVE  TypeOK'
  <1>1. HeapType'
    BY DEF TypeOK, HeapType, NewObject
  <1>2. FrameType'
    BY DEF TypeOK, FrameType, NewObject, Goto, PCs, Ops
  <1> QED BY <1>1, <1>2, SlotStutter DEF TypeOK, NewObject, slotVars

(* Every step of the table and of the calls keeps the state well typed. *)
LEMMA TypeStep == TypeOK /\ [Next]_vars => TypeOK'
<1> SUFFICES ASSUME TypeOK, [Next]_vars PROVE TypeOK'
  OBVIOUS
<1> USE DEF slotVars, heapVars, dataVars
<1> TypeOK' <=> SlotType' /\ HeapType' /\ DataType' /\ FrameType'
  BY DEF TypeOK
<1>0. SlotType /\ HeapType /\ DataType /\ FrameType
  BY DEF TypeOK
<1>r. {"TRUE", "FALSE", "WAIT_OBJECT_0", "WAIT_TIMEOUT", "WAIT_FAILED"} \subseteq Rets
  BY DEF Rets
<1>1. CASE UNCHANGED vars
  <2>1. FrameType'
    BY <1>0, <1>1 DEF vars, frameVars, FrameType
  <2> QED BY <1>0, <1>1, <2>1, SlotStutter, HeapStutter, DataStutter DEF vars
<1>2. ASSUME NEW t \in Threads, Create(t) PROVE TypeOK'
  <2>1. ASSUME NEW o \in Objs, NEW b \in BOOLEAN, CreateMutexA(t, o, b) PROVE TypeOK'
    <3>1. DataType'
      BY <1>0, <2>1, ThreadsAssumption DEF CreateMutexA, DataType
    <3> QED BY <2>1, <3>1, NewObjectTyped DEF CreateMutexA, SyncKinds
  <2>2. ASSUME NEW o \in Objs, NEW m \in BOOLEAN, NEW b \in BOOLEAN, CreateEventA(t, o, m, b) PROVE TypeOK'
    <3>1. DataType'
      BY <1>0, <2>2 DEF CreateEventA, DataType
    <3> QED BY <2>2, <3>1, NewObjectTyped DEF CreateEventA, SyncKinds
  <2>3. ASSUME NEW o \in Objs, NEW n \in 0 .. MaxCount, CreateSemaphoreA(t, o, n) PROVE TypeOK'
    <3>1. DataType'
      BY <1>0, <2>3, BoundsAssumption DEF CreateSemaphoreA, DataType
    <3> QED BY <2>3, <3>1, NewObjectTyped DEF CreateSemaphoreA, SyncKinds
  <2> QED BY <1>2, <2>1, <2>2, <2>3 DEF Create
<1>3. ASSUME NEW t \in Threads, Call(t) PROVE TypeOK'
  <2> PICK s \in Slots : \/ \E b \in BOOLEAN : WaitForSingleObject(t, s, b)
                         \/ ReleaseMutex(t, s)
                         \/ SetEvent(t, s)
                         \/ ResetEvent(t, s)
                         \/ \E n \in 1 .. MaxRelease : ReleaseSemaphore(t, s, n)
                         \/ CloseHandle(t, s)
                         \/ \E b \in BOOLEAN : DuplicateHandle(t, s, b)
    BY <1>3 DEF Call
  <2>1. ASSUME NEW b \in BOOLEAN, WaitForSingleObject(t, s, b) PROVE TypeOK'
    <3>1. CASE LookupFails(t, "WAIT_FAILED")
      BY <1>r, <3>1, FailsTyped
    <3>2. CASE /\ LookupRetain(t, "WaitForSingleObject", s)
               /\ inf' = [inf EXCEPT ![t] = b] /\ left' = left
      <4>1. inf' \in [Threads -> BOOLEAN] /\ left' \in [Threads -> Nat]
        BY <1>0, <3>2 DEF FrameType
      <4> QED BY <3>2, <4>1, LookupTyped DEF Ops
    <3> QED BY <2>1, <3>1, <3>2 DEF WaitForSingleObject
  <2>2. ASSUME NEW name \in Ops, NEW kind, NEW n \in Nat, SignalCall(t, name, kind, s, n)
        PROVE TypeOK'
    <3>1. CASE LookupFails(t, "FALSE")
      BY <1>r, <3>1, FailsTyped
    <3>2. CASE /\ LookupRetain(t, name, s)
               /\ left' = [left EXCEPT ![t] = n] /\ inf' = inf
      <4>1. inf' \in [Threads -> BOOLEAN] /\ left' \in [Threads -> Nat]
        BY <1>0, <3>2 DEF FrameType
      <4> QED BY <2>2, <3>2, <4>1, LookupTyped
    <3> QED BY <2>2, <3>1, <3>2 DEF SignalCall
  <2>3. CASE CloseHandle(t, s)
    BY <1>r, <2>3, ClearTyped, FailsTyped DEF CloseHandle, Ops
  <2>4. ASSUME NEW b \in BOOLEAN, DuplicateHandle(t, s, b) PROVE TypeOK'
    <3>1. FrameType'
      BY <1>0, <2>4 DEF DuplicateHandle, Goto, FrameType, SlotType, PCs, Ops
    <3> QED BY <1>0, <2>4, <3>1, SlotStutter, HeapStutter, DataStutter DEF DuplicateHandle
  <2>5. /\ 1 .. MaxRelease \subseteq Nat /\ 0 \in Nat
        /\ {"ReleaseMutex", "SetEvent", "ResetEvent", "ReleaseSemaphore"} \subseteq Ops
    BY BoundsAssumption DEF Ops
  <2> QED BY <2>1, <2>2, <2>3, <2>4, <2>5 DEF ReleaseMutex, SetEvent, ResetEvent, ReleaseSemaphore
<1>4. ASSUME NEW t \in Threads, Progress(t) PROVE TypeOK'
  <2>1. CASE HandleAllocSync(t)
    <3>1. SlotType'
      BY <1>0, <2>1 DEF HandleAllocSync, SlotType, FrameType, FreeSlots
    <3> QED BY <1>0, <1>r, <2>1, <3>1, FrameReturn, HeapStutter, DataStutter DEF HandleAllocSync
  <2>2. CASE HandleAllocSyncFull(t)
    BY <1>0, <1>r, <2>2, FreeTyped, FrameReturn, SlotStutter DEF HandleAllocSyncFull
  <2>3. CASE AcquireMutex(t)
    <3>1. DataType'
      <4>1. CASE ptr[t] \in Objs
        BY <4>1, <1>0, <2>3, ThreadsAssumption DEF AcquireMutex, DataType
      <4>2. CASE ptr[t] \notin Objs
        BY <4>2, <1>0, <2>3, ThreadsAssumption DEF AcquireMutex, DataType
      <4> QED BY <4>1, <4>2
    <3> QED BY <1>0, <1>r, <2>3, <3>1, FrameDone, SlotStutter, HeapStutter DEF AcquireMutex
  <2>4. CASE AcquireSemaphore(t)
    <3>1. DataType'
      <4>1. CASE ptr[t] \in Objs
        BY <4>1, <1>0, <2>4 DEF AcquireSemaphore, DataType
      <4>2. CASE ptr[t] \notin Objs
        BY <4>2, <1>0, <2>4 DEF AcquireSemaphore, DataType
      <4> QED BY <4>1, <4>2
    <3> QED BY <1>0, <1>r, <2>4, <3>1, FrameDone, SlotStutter, HeapStutter DEF AcquireSemaphore
  <2>5. CASE AcquireEvent(t)
    <3>1. DataType'
      <4>1. ptr[t] \in Objs => manual[ptr[t]] \in BOOLEAN
        BY <1>0 DEF DataType
      <4> QED BY <1>0, <2>5, <4>1, SignaledTyped DEF AcquireEvent, TakeEvent
    <3> QED BY <1>0, <1>r, <2>5, <3>1, FrameDone, SlotStutter, HeapStutter DEF AcquireEvent, TakeEvent
  <2>6. CASE SleepOnEvent(t)
    BY <1>0, <2>6, FrameGoto, SlotStutter, HeapStutter, DataStutter DEF SleepOnEvent, PCs
  <2>7. CASE EventTimesOut(t)
    BY <1>0, <1>r, <2>7, FrameDone, SlotStutter, HeapStutter, DataStutter DEF EventTimesOut
  <2>8. CASE EventSignal(t)
    <3>1. DataType'
      BY <1>0, <2>8, SignaledTyped DEF EventSignal
    <3>2. FrameType'
      BY <1>0, <2>8 DEF EventSignal, FrameType, PCs, Rets
    <3> QED BY <1>0, <2>8, <3>1, <3>2, SlotStutter, HeapStutter DEF EventSignal
  <2>9. CASE EventReset(t)
    <3>1. DataType'
      BY <1>0, <2>9, SignaledTyped DEF EventReset
    <3> QED BY <1>0, <1>r, <2>9, <3>1, FrameDone, SlotStutter, HeapStutter DEF EventReset
  <2>10. CASE MutexUnlock(t)
    BY <1>0, <1>r, <2>10, UnlockTyped, FrameDone, SlotStutter, HeapStutter DEF MutexUnlock
  <2>11. CASE SemaphorePost(t)
    <3>1. DataType'
      <4>1. CASE ptr[t] \in Objs
        BY <4>1, <1>0, <2>11 DEF SemaphorePost, DataType
      <4>2. CASE ptr[t] \notin Objs
        BY <4>2, <1>0, <2>11 DEF SemaphorePost, DataType
      <4> QED BY <4>1, <4>2
    <3>2. FrameType'
      BY <1>0, <2>11 DEF SemaphorePost, FrameType
    <3> QED BY <1>0, <2>11, <3>1, <3>2, SlotStutter, HeapStutter DEF SemaphorePost
  <2>12. CASE SemaphorePosted(t)
    BY <1>0, <1>r, <2>12, FrameDone, SlotStutter, HeapStutter, DataStutter DEF SemaphorePosted
  <2>13. CASE ReleaseRef(t)
    <3>1. HeapType'
      BY <1>0, <2>13, CountTyped DEF ReleaseRef
    <3>2. ret' \in [Threads -> Rets]
      BY <1>0, <2>13 DEF ReleaseRef, FrameType
    <3>3. FrameType'
      BY <1>0, <2>13, <3>2, FrameLeave, FrameGoto DEF ReleaseRef, PCs
    <3> QED BY <1>0, <2>13, <3>1, <3>3, SlotStutter, DataStutter DEF ReleaseRef
  <2>14. CASE UnlockLast(t)
    BY <1>0, <2>14, UnlockTyped, FrameGoto, SlotStutter, HeapStutter DEF UnlockLast, PCs
  <2>15. CASE SyncObjDestroy(t)
    <3>1. ret' \in [Threads -> Rets]
      BY <1>0, <2>15 DEF SyncObjDestroy, FrameType
    <3> QED BY <1>0, <2>15, <3>1, FreeTyped, FrameLeave, SlotStutter DEF SyncObjDestroy
  <2>16. CASE DuplicateSlot(t)
    <3>1. SlotType'
      <4>1. PICK s \in FreeSlots : /\ slotKind' = [slotKind EXCEPT ![s] = slotKind[hnd[t]]]
                                   /\ slotPtr'  = [slotPtr EXCEPT ![s] = slotPtr[hnd[t]]]
        BY <2>16 DEF DuplicateSlot
      <4>2. hnd[t] \in Slots
        BY <1>0, <2>16 DEF DuplicateSlot, FrameType
      <4> QED BY <1>0, <4>1, <4>2 DEF SlotType, FreeSlots
    <3>2. HeapType'
      BY <1>0, <2>16, CountTyped, HeapStutter DEF DuplicateSlot
    <3>3. FrameType'
      BY <1>0, <1>r, <2>16, FrameReturn, FrameGoto DEF DuplicateSlot, PCs, FrameType
    <3> QED BY <1>0, <2>16, <3>1, <3>2, <3>3, DataStutter DEF DuplicateSlot
  <2>17. CASE DuplicateFull(t)
    BY <1>r, <2>17, FailsTyped DEF DuplicateFull
  <2>18. CASE DuplicateCloses(t)
    <3>1. hnd[t] \in Slots
      BY <1>0, <2>18 DEF DuplicateCloses, FrameType
    <3> QED BY <1>r, <2>18, <3>1, ClearTyped, FailsTyped DEF DuplicateCloses, Ops
  <2> QED BY <1>4, <2>1, <2>2, <2>3, <2>4, <2>5, <2>6, <2>7, <2>8, <2>9, <2>10, <2>11,
             <2>12, <2>13, <2>14, <2>15, <2>16, <2>17, <2>18 DEF Progress
<1>5. ASSUME NEW t \in Threads, Deadline(t) PROVE TypeOK'
  BY <1>0, <1>r, <1>5, FrameDone, FrameGoto, SlotStutter, HeapStutter, DataStutter
  DEF Deadline, WaitTimesOut, EventDeadline, PCs
<1>6. ASSUME NEW t \in Threads, Disturbed(t) PROVE TypeOK'
  BY <1>0, <1>r, <1>6, FrameDone, FrameGoto, SlotStutter, HeapStutter, DataStutter
  DEF Disturbed, SpuriousWakeup, SemaphoreWaitInterrupted, PCs
<1> QED BY <1>1, <1>2, <1>3, <1>4, <1>5, <1>6 DEF Next

(* The model is type correct: Spec => []TypeOK, whether or not the program *)
(* races on DuplicateHandle.                                               *)
THEOREM TypeCorrect == Spec => []TypeOK
<1>1. Init => TypeOK
  BY DEF Init, TypeOK, SlotType, HeapType, DataType, FrameType, SyncKinds, Ops, Rets, PCs
<1> QED BY <1>1, TypeStep, PTL DEF Spec

-----------------------------------------------------------------------------
(* Reference counting.  First, what IndInv says about one object.          *)

(* The references to an object can be counted. *)
LEMMA RefsFinite ==
  ASSUME NEW o \in Objs
  PROVE  /\ IsFiniteSet(SlotRefs(o)) /\ Cardinality(SlotRefs(o)) \in Nat
         /\ IsFiniteSet(FrameRefs(o)) /\ Cardinality(FrameRefs(o)) \in Nat
  <1>1. SlotRefs(o) \subseteq Slots /\ FrameRefs(o) \subseteq Threads
    BY DEF SlotRefs, FrameRefs
  <1> QED BY <1>1, SlotsAssumption, ThreadsAssumption, FS_Subset, FS_CardinalityType

(* A set with a member has a positive cardinality. *)
LEMMA MemberCounts ==
  ASSUME NEW S, IsFiniteSet(S), NEW x \in S
  PROVE  Cardinality(S) >= 1
  <1>1. S # {} /\ Cardinality(S) \in Nat
    BY FS_CardinalityType
  <1>2. Cardinality(S) # 0
    BY <1>1, FS_EmptySet
  <1> QED BY <1>1, <1>2

(* The object behind an open slot is live and counted. *)
LEMMA OpenCounted ==
  ASSUME TypeOK, IndInv, NEW s \in Slots, slotKind[s] # "H_FREE"
  PROVE  slotPtr[s] \in Objs /\ life[slotPtr[s]] = "live" /\ rc[slotPtr[s]] >= 1
  <1>1. slotPtr[s] \in Objs /\ life[slotPtr[s]] = "live"
    BY DEF IndInv, NoUseAfterFree
  <1>2. s \in SlotRefs(slotPtr[s])
    BY DEF SlotRefs
  <1>3. rc[slotPtr[s]] = Cardinality(SlotRefs(slotPtr[s])) + Cardinality(FrameRefs(slotPtr[s]))
    BY <1>1 DEF IndInv, RefCountExact
  <1> QED BY <1>1, <1>2, <1>3, RefsFinite, MemberCounts

(* So is the object a call in flight holds. *)
LEMMA HeldCounted ==
  ASSUME TypeOK, IndInv, NEW t \in Threads, pc[t] \in Holding
  PROVE  ptr[t] \in Objs /\ life[ptr[t]] = "live" /\ rc[ptr[t]] >= 1
  <1>1. ptr[t] \in Objs /\ life[ptr[t]] = "live"
    BY DEF IndInv, NoUseAfterFree
  <1>2. t \in FrameRefs(ptr[t])
    BY DEF FrameRefs
  <1>3. rc[ptr[t]] = Cardinality(SlotRefs(ptr[t])) + Cardinality(FrameRefs(ptr[t]))
    BY <1>1 DEF IndInv, RefCountExact
  <1> QED BY <1>1, <1>2, <1>3, RefsFinite, MemberCounts

(* The object a call destroys is live and has no references. *)
LEMMA DestroyedUnreferenced ==
  ASSUME TypeOK, IndInv, NEW t \in Threads, pc[t] \in Destroying
  PROVE  /\ ptr[t] \in Objs /\ life[ptr[t]] = "live" /\ rc[ptr[t]] = 0
         /\ \A s \in Slots : slotKind[s] # "H_FREE" => slotPtr[s] # ptr[t]
         /\ \A u \in Threads : pc[u] \in Holding => ptr[u] # ptr[t]
  <1>1. ptr[t] \in Objs /\ life[ptr[t]] = "live" /\ rc[ptr[t]] = 0
    BY DEF IndInv, NoUseAfterFree, DestroyerCount, Destroying
  <1>2. ASSUME NEW s \in Slots, slotKind[s] # "H_FREE" PROVE slotPtr[s] # ptr[t]
    BY <1>1, <1>2, OpenCounted
  <1>3. ASSUME NEW u \in Threads, pc[u] \in Holding PROVE ptr[u] # ptr[t]
    BY <1>1, <1>3, HeldCounted
  <1> QED BY <1>1, <1>2, <1>3

-----------------------------------------------------------------------------
(* Steps that change neither the table nor a count nor who holds what.     *)

Busy    == {"act", "asleep", "timedout", "release"}
Outside == {"idle", "dup", "dupclose"}

Calm(u) ==
  \/ pc'[u] = pc[u] /\ hnd'[u] = hnd[u] /\ knd'[u] = knd[u] /\ ptr'[u] = ptr[u]
  \/ pc[u] \in Busy /\ pc'[u] \in Busy /\ ptr'[u] = ptr[u]
  \/ pc[u] \in Destroying /\ pc'[u] \in Destroying /\ ptr'[u] = ptr[u]
  \/ pc[u] \in Outside /\ pc'[u] = "idle"
  \/ /\ pc[u] \in Outside /\ pc'[u] = "dup"
     /\ hnd'[u] \in Slots /\ knd'[u] \in SyncKinds /\ slotKind[hnd'[u]] # "H_FREE"

Quiet == UNCHANGED <<slotKind, slotPtr, life, rc>> /\ \A u \in Threads : Calm(u)

(* Such a step keeps the inductive invariant. *)
LEMMA QuietStep ==
  ASSUME TypeOK, IndInv, Quiet
  PROVE  IndInv'
  <1>0. slotKind' = slotKind /\ slotPtr' = slotPtr /\ life' = life /\ rc' = rc
    BY DEF Quiet
  <1>1. \A u \in Threads : /\ pc[u] \in Holding <=> pc'[u] \in Holding
                           /\ pc[u] \in Destroying <=> pc'[u] \in Destroying
                           /\ pc[u] \in Holding \cup Destroying => ptr'[u] = ptr[u]
                           /\ pc'[u] = "alloc" => pc[u] = "alloc" /\ knd'[u] = knd[u]
    BY DEF Quiet, Calm, Holding, Destroying, Busy, Outside
  <1>2. RefCountExact'
    <2>1. ASSUME NEW o \in Objs PROVE SlotRefs(o)' = SlotRefs(o) /\ FrameRefs(o)' = FrameRefs(o)
      BY <1>0, <1>1 DEF SlotRefs, FrameRefs, Holding
    <2> QED BY <1>0, <2>1 DEF IndInv, RefCountExact
  <1>3. NoUseAfterFree'
    BY <1>0, <1>1 DEF IndInv, NoUseAfterFree, Holding, Destroying
  <1>4. DestroyerCount'
    BY <1>0, <1>1 DEF IndInv, DestroyerCount, Destroying
  <1>5. AllocExclusive'
    BY <1>0, <1>1 DEF IndInv, AllocExclusive, Holding, Destroying, SyncKinds
  <1>6. DupSourceOpen'
    BY DEF IndInv, DupSourceOpen, Quiet, Calm, Busy, Outside, Destroying
  <1> QED BY <1>2, <1>3, <1>4, <1>5, <1>6 DEF IndInv

-----------------------------------------------------------------------------
(* Steps that do change them, one lemma each.  Others says that only t's   *)
(* frame changes.                                                          *)

Others(t) == \A u \in Threads : u # t =>
               pc'[u] = pc[u] /\ hnd'[u] = hnd[u] /\ knd'[u] = knd[u] /\ ptr'[u] = ptr[u]

(* Leaving a call changes the caller's frame only ... *)
LEMMA OthersLeave == ASSUME TypeOK, NEW t \in Threads, Leave(t)
                     PROVE  Others(t) /\ pc'[t] = "idle"
  BY DEF TypeOK, FrameType, Leave, Goto, Others

(* ... and so does moving on inside it. *)
LEMMA OthersGoto == ASSUME TypeOK, NEW t \in Threads, NEW where, Goto(t, where), UNCHANGED <<hnd, knd, ptr>>
                    PROVE  Others(t) /\ pc'[t] = where
  BY DEF TypeOK, FrameType, Goto, Others

(* malloc: the new object's one reference is its creator's. *)
LEMMA NewObjectStep ==
  ASSUME TypeOK, IndInv, NEW t \in Threads, NEW o \in Objs, NEW kind \in SyncKinds,
         NewObject(t, o, kind)
  PROVE  IndInv'
  <1>1. /\ Others(t) /\ pc'[t] = "alloc" /\ ptr'[t] = o /\ knd'[t] = kind
        /\ pc[t] = "idle" /\ life[o] = "unborn"
        /\ slotKind' = slotKind /\ slotPtr' = slotPtr
    BY DEF TypeOK, FrameType, NewObject, Goto, Others, slotVars
  <1>2. /\ life'[o] = "live" /\ rc'[o] = 1
        /\ \A x \in Objs : x # o => life'[x] = life[x] /\ rc'[x] = rc[x]
    BY DEF TypeOK, HeapType, NewObject
  <1>3. /\ \A s \in Slots : slotKind[s] # "H_FREE" => slotPtr[s] # o
        /\ \A u \in Threads : pc[u] \in Holding \cup Destroying => ptr[u] # o
    BY <1>1 DEF IndInv, NoUseAfterFree, Destroying
  <1>4. RefCountExact'
    <2> SUFFICES ASSUME NEW x \in Objs, life'[x] = "live"
                 PROVE  rc'[x] = Cardinality(SlotRefs(x)') + Cardinality(FrameRefs(x)')
      BY DEF RefCountExact
    <2>1. SlotRefs(x)' = SlotRefs(x)
      BY <1>1 DEF SlotRefs
    <2>2. CASE x = o
      <3>1. SlotRefs(x) = {}
        BY <1>3, <2>2 DEF SlotRefs
      <3>2. FrameRefs(x)' = {t}
        BY <1>1, <1>3, <2>2 DEF FrameRefs, Others, Holding
      <3> QED BY <1>2, <2>1, <2>2, <3>1, <3>2, FS_EmptySet, FS_Singleton
    <2>3. CASE x # o
      <3>1. FrameRefs(x)' = FrameRefs(x)
        BY <1>1, <2>3 DEF FrameRefs, Others, Holding
      <3> QED BY <1>2, <2>1, <2>3, <3>1 DEF IndInv, RefCountExact
    <2> QED BY <2>2, <2>3
  <1>5. NoUseAfterFree'
    BY <1>1, <1>2, <1>3 DEF IndInv, NoUseAfterFree, Others, Holding
  <1>6. DestroyerCount'
    <2>1. \A u \in Threads : pc'[u] \in Destroying => u # t /\ pc[u] \in Destroying /\ ptr'[u] = ptr[u]
      BY <1>1 DEF Others, Destroying
    <2>2. \A u \in Threads : pc[u] \in Destroying => u # t /\ pc'[u] \in Destroying /\ ptr'[u] = ptr[u]
      BY <1>1 DEF Others, Destroying
    <2>3. \A u \in Threads : pc[u] \in Destroying => ptr[u] \in Objs /\ ptr[u] # o
      BY <1>3 DEF IndInv, NoUseAfterFree, Destroying
    <2>4. \A u \in Threads : pc'[u] \in Destroying => rc'[ptr'[u]] = 0
      BY <1>2, <2>1, <2>3 DEF IndInv, DestroyerCount
    <2>5. \A u, v \in Threads : pc'[u] \in Destroying /\ pc'[v] \in Destroying /\ ptr'[u] = ptr'[v] => u = v
      BY <2>1 DEF IndInv, DestroyerCount
    <2>6. ASSUME NEW x \in Objs, life'[x] = "live", rc'[x] = 0
          PROVE  \E u \in Threads : pc'[u] \in Destroying /\ ptr'[u] = x
      BY <1>2, <2>2, <2>6 DEF IndInv, DestroyerCount
    <2> QED BY <2>4, <2>5, <2>6 DEF DestroyerCount, Destroying
  <1>7. AllocExclusive'
    BY <1>1, <1>3 DEF IndInv, AllocExclusive, Others, Holding, Destroying, SyncKinds
  <1>8. DupSourceOpen'
    BY <1>1 DEF IndInv, DupSourceOpen, Others
  <1> QED BY <1>4, <1>5, <1>6, <1>7, <1>8 DEF IndInv

(* handle_alloc_sync: the reference passes from the call to the slot. *)
LEMMA AllocStep ==
  ASSUME TypeOK, IndInv, NEW t \in Threads, HandleAllocSync(t)
  PROVE  IndInv'
  <1>1. PICK s \in FreeSlots : /\ slotKind' = [slotKind EXCEPT ![s] = knd[t]]
                               /\ slotPtr'  = [slotPtr EXCEPT ![s] = ptr[t]]
    BY DEF HandleAllocSync
  <1>2. /\ Others(t) /\ pc'[t] = "idle" /\ pc[t] = "alloc"
        /\ life' = life /\ rc' = rc
    BY OthersLeave DEF HandleAllocSync, Return, heapVars
  <1>3. /\ s \in Slots /\ slotKind[s] = "H_FREE"
        /\ slotKind'[s] # "H_FREE" /\ slotPtr'[s] = ptr[t]
        /\ \A x \in Slots : x # s => slotKind'[x] = slotKind[x] /\ slotPtr'[x] = slotPtr[x]
    BY <1>1, <1>2 DEF FreeSlots, TypeOK, SlotType, IndInv, AllocExclusive, SyncKinds
  <1>4. ptr[t] \in Objs /\ life[ptr[t]] = "live" /\ rc[ptr[t]] >= 1
    BY <1>2, HeldCounted DEF Holding
  <1>5. RefCountExact'
    <2> SUFFICES ASSUME NEW x \in Objs, life[x] = "live"
                 PROVE  rc[x] = Cardinality(SlotRefs(x)') + Cardinality(FrameRefs(x)')
      BY <1>2 DEF RefCountExact
    <2>1. rc[x] = Cardinality(SlotRefs(x)) + Cardinality(FrameRefs(x))
      BY DEF IndInv, RefCountExact
    <2>2. CASE x = ptr[t]
      <3>1. SlotRefs(x)' = SlotRefs(x) \cup {s} /\ s \notin SlotRefs(x)
        BY <1>3, <2>2 DEF SlotRefs
      <3>2. FrameRefs(x)' = FrameRefs(x) \ {t} /\ t \in FrameRefs(x)
        BY <1>2, <2>2 DEF FrameRefs, Others, Holding
      <3>3. Cardinality(SlotRefs(x)') = Cardinality(SlotRefs(x)) + 1
        BY <3>1, RefsFinite, FS_AddElement
      <3>4. Cardinality(FrameRefs(x)') = Cardinality(FrameRefs(x)) - 1
        BY <3>2, RefsFinite, FS_RemoveElement
      <3> QED BY <2>1, <3>3, <3>4, RefsFinite
    <2>3. CASE x # ptr[t]
      <3>1. SlotRefs(x)' = SlotRefs(x)
        BY <1>3, <2>3 DEF SlotRefs
      <3>2. FrameRefs(x)' = FrameRefs(x)
        BY <1>2, <2>3 DEF FrameRefs, Others, Holding
      <3> QED BY <2>1, <3>1, <3>2
    <2> QED BY <2>2, <2>3
  <1>6. NoUseAfterFree'
    BY <1>2, <1>3, <1>4 DEF IndInv, NoUseAfterFree, Others, Holding
  <1>7. DestroyerCount'
    BY <1>2 DEF IndInv, DestroyerCount, Others, Destroying
  <1>8. AllocExclusive'
    BY <1>2, <1>3 DEF IndInv, AllocExclusive, Others, Holding, Destroying, SyncKinds
  <1>9. DupSourceOpen'
    BY <1>2, <1>3 DEF IndInv, DupSourceOpen, Others
  <1> QED BY <1>5, <1>6, <1>7, <1>8, <1>9 DEF IndInv

(* The table is full: the creator frees the object it alone knows. *)
LEMMA AllocFullStep ==
  ASSUME TypeOK, IndInv, NEW t \in Threads, HandleAllocSyncFull(t)
  PROVE  IndInv'
  <1>1. /\ Others(t) /\ pc'[t] = "idle" /\ pc[t] = "alloc"
        /\ slotKind' = slotKind /\ slotPtr' = slotPtr /\ rc' = rc
    BY OthersLeave DEF HandleAllocSyncFull, Return, slotVars
  <1>2. ptr[t] \in Objs /\ rc[ptr[t]] >= 1
    BY <1>1, HeldCounted DEF Holding
  <1>3. life'[ptr[t]] = "freed" /\ \A x \in Objs : x # ptr[t] => life'[x] = life[x]
    BY <1>2 DEF HandleAllocSyncFull, Free, TypeOK, HeapType
  <1>4. /\ \A s \in Slots : slotKind[s] # "H_FREE" => slotPtr[s] # ptr[t]
        /\ \A u \in Threads : pc[u] \in Holding \cup Destroying /\ ptr[u] = ptr[t] => u = t
    BY <1>1 DEF IndInv, AllocExclusive
  <1>5. RefCountExact'
    <2> SUFFICES ASSUME NEW x \in Objs, life'[x] = "live"
                 PROVE  rc[x] = Cardinality(SlotRefs(x)') + Cardinality(FrameRefs(x)')
      BY <1>1 DEF RefCountExact
    <2>1. x # ptr[t] /\ life[x] = "live"
      BY <1>3
    <2>2. SlotRefs(x)' = SlotRefs(x) /\ FrameRefs(x)' = FrameRefs(x)
      BY <1>1, <2>1 DEF SlotRefs, FrameRefs, Others, Holding
    <2> QED BY <2>1, <2>2 DEF IndInv, RefCountExact
  <1>6. NoUseAfterFree'
    BY <1>1, <1>3, <1>4 DEF IndInv, NoUseAfterFree, Others, Holding, Destroying
  <1>7. DestroyerCount'
    BY <1>1, <1>3 DEF IndInv, DestroyerCount, Others, Destroying
  <1>8. AllocExclusive'
    BY <1>1 DEF IndInv, AllocExclusive, Others, Holding, Destroying, SyncKinds
  <1>9. DupSourceOpen'
    BY <1>1 DEF IndInv, DupSourceOpen, Others
  <1> QED BY <1>5, <1>6, <1>7, <1>8, <1>9 DEF IndInv

(* A lookup under g_handles_mu adds the reference of the call. *)
LEMMA LookupStep ==
  ASSUME TypeOK, IndInv, NEW t \in Threads, NEW name, NEW s \in Slots,
         pc[t] = "idle", slotKind[s] # "H_FREE", LookupRetain(t, name, s)
  PROVE  IndInv'
  <1>1. slotPtr[s] \in Objs /\ life[slotPtr[s]] = "live" /\ rc[slotPtr[s]] >= 1
    BY OpenCounted
  <1>2. /\ Others(t) /\ pc'[t] = "act" /\ ptr'[t] = slotPtr[s]
        /\ slotKind' = slotKind /\ slotPtr' = slotPtr /\ life' = life
    BY DEF TypeOK, FrameType, LookupRetain, Goto, Others, slotVars
  <1>3. /\ rc'[slotPtr[s]] = rc[slotPtr[s]] + 1
        /\ \A x \in Objs : x # slotPtr[s] => rc'[x] = rc[x]
    BY <1>1 DEF LookupRetain, Retain, TypeOK, HeapType
  <1>4. RefCountExact'
    <2> SUFFICES ASSUME NEW x \in Objs, life[x] = "live"
                 PROVE  rc'[x] = Cardinality(SlotRefs(x)') + Cardinality(FrameRefs(x)')
      BY <1>2 DEF RefCountExact
    <2>1. rc[x] = Cardinality(SlotRefs(x)) + Cardinality(FrameRefs(x))
      BY DEF IndInv, RefCountExact
    <2>2. SlotRefs(x)' = SlotRefs(x)
      BY <1>2 DEF SlotRefs
    <2>3. CASE x = slotPtr[s]
      <3>1. FrameRefs(x)' = FrameRefs(x) \cup {t} /\ t \notin FrameRefs(x)
        BY <1>2, <2>3 DEF FrameRefs, Others, Holding
      <3>2. Cardinality(FrameRefs(x)') = Cardinality(FrameRefs(x)) + 1
        BY <3>1, RefsFinite, FS_AddElement
      <3> QED BY <1>3, <2>1, <2>2, <2>3, <3>2, RefsFinite
    <2>4. CASE x # slotPtr[s]
      <3>1. FrameRefs(x)' = FrameRefs(x)
        BY <1>2, <2>4 DEF FrameRefs, Others, Holding
      <3> QED BY <1>3, <2>1, <2>2, <2>4, <3>1
    <2> QED BY <2>3, <2>4
  <1>5. NoUseAfterFree'
    BY <1>1, <1>2 DEF IndInv, NoUseAfterFree, Others, Holding
  <1>6. DestroyerCount'
    <2>1. \A u \in Threads : pc[u] \in Destroying => ptr[u] \in Objs /\ ptr[u] # slotPtr[s]
      BY <1>1, DestroyedUnreferenced
    <2>2. \A u \in Threads : pc'[u] \in Destroying => rc'[ptr'[u]] = 0
      BY <1>2, <1>3, <2>1 DEF IndInv, DestroyerCount, Others, Destroying
    <2>3. ASSUME NEW x \in Objs, life'[x] = "live", rc'[x] = 0
          PROVE  \E u \in Threads : pc'[u] \in Destroying /\ ptr'[u] = x
      <3>1. rc[slotPtr[s]] \in Int /\ x # slotPtr[s]
        BY <1>1, <1>3, <2>3 DEF TypeOK, HeapType
      <3>2. PICK u \in Threads : pc[u] \in Destroying /\ ptr[u] = x
        BY <1>2, <1>3, <2>3, <3>1 DEF IndInv, DestroyerCount
      <3> QED BY <1>2, <3>2 DEF Others, Destroying
    <2>4. \A u, v \in Threads : pc'[u] \in Destroying /\ pc'[v] \in Destroying /\ ptr'[u] = ptr'[v] => u = v
      BY <1>2 DEF IndInv, DestroyerCount, Others, Destroying
    <2> QED BY <2>2, <2>3, <2>4 DEF DestroyerCount, Destroying
  <1>7. AllocExclusive'
    BY <1>2 DEF IndInv, AllocExclusive, Others, Holding, Destroying, SyncKinds
  <1>8. DupSourceOpen'
    BY <1>2 DEF IndInv, DupSourceOpen, Others
  <1> QED BY <1>4, <1>5, <1>6, <1>7, <1>8 DEF IndInv

(* The decrement at the bottom of a call drops the call's reference, and   *)
(* the one thread that drops the last one goes on to destroy the object.   *)
LEMMA ReleaseStep ==
  ASSUME TypeOK, IndInv, NEW t \in Threads, ReleaseRef(t)
  PROVE  IndInv'
  <1>1. pc[t] = "release" /\ slotKind' = slotKind /\ slotPtr' = slotPtr /\ life' = life
    BY DEF ReleaseRef, slotVars
  <1>2. ptr[t] \in Objs /\ life[ptr[t]] = "live" /\ rc[ptr[t]] >= 1
    BY <1>1, HeldCounted DEF Holding
  <1>3. /\ rc'[ptr[t]] = rc[ptr[t]] - 1
        /\ \A x \in Objs : x # ptr[t] => rc'[x] = rc[x]
    BY <1>2 DEF ReleaseRef, DropRef, TypeOK, HeapType
  <1>4. /\ Others(t)
        /\ \/ rc[ptr[t]] # 1 /\ pc'[t] = "idle"
           \/ rc[ptr[t]] = 1 /\ pc'[t] \in Destroying /\ ptr'[t] = ptr[t]
    <2>1. CASE ~LastRef(t)
      BY <2>1, OthersLeave DEF ReleaseRef, LastRef
    <2>2. CASE LastRef(t)
      BY <2>2, OthersGoto DEF ReleaseRef, LastRef, Destroying
    <2> QED BY <2>1, <2>2
  <1>5. \A u \in Threads : pc[u] \in Destroying => ptr[u] \in Objs /\ ptr[u] # ptr[t]
    BY <1>2, DestroyedUnreferenced
  <1>6. RefCountExact'
    <2> SUFFICES ASSUME NEW x \in Objs, life[x] = "live"
                 PROVE  rc'[x] = Cardinality(SlotRefs(x)') + Cardinality(FrameRefs(x)')
      BY <1>1 DEF RefCountExact
    <2>1. rc[x] = Cardinality(SlotRefs(x)) + Cardinality(FrameRefs(x))
      BY DEF IndInv, RefCountExact
    <2>2. SlotRefs(x)' = SlotRefs(x)
      BY <1>1 DEF SlotRefs
    <2>3. CASE x = ptr[t]
      <3>1. FrameRefs(x)' = FrameRefs(x) \ {t} /\ t \in FrameRefs(x)
        BY <1>1, <1>4, <2>3 DEF FrameRefs, Others, Holding, Destroying
      <3>2. Cardinality(FrameRefs(x)') = Cardinality(FrameRefs(x)) - 1
        BY <3>1, RefsFinite, FS_RemoveElement
      <3> QED BY <1>3, <2>1, <2>2, <2>3, <3>2, RefsFinite
    <2>4. CASE x # ptr[t]
      <3>1. FrameRefs(x)' = FrameRefs(x)
        BY <1>1, <1>4, <2>4 DEF FrameRefs, Others, Holding, Destroying
      <3> QED BY <1>3, <2>1, <2>2, <2>4, <3>1
    <2> QED BY <2>3, <2>4
  <1>7. NoUseAfterFree'
    BY <1>1, <1>2, <1>4 DEF IndInv, NoUseAfterFree, Others, Holding, Destroying
  <1>8. DestroyerCount'
    <2>1. \A u \in Threads : pc'[u] \in Destroying =>
             \/ u = t /\ ptr'[u] = ptr[t] /\ rc[ptr[t]] = 1
             \/ u # t /\ pc[u] \in Destroying /\ ptr'[u] = ptr[u]
      BY <1>4 DEF Others, Destroying
    <2>2. \A u \in Threads : pc[u] \in Destroying => u # t /\ pc'[u] \in Destroying /\ ptr'[u] = ptr[u]
      BY <1>1, <1>4 DEF Others, Destroying
    <2>3. \A u \in Threads : pc'[u] \in Destroying => rc'[ptr'[u]] = 0
      BY <1>2, <1>3, <1>5, <2>1 DEF IndInv, DestroyerCount
    <2>4. \A u, v \in Threads : pc'[u] \in Destroying /\ pc'[v] \in Destroying /\ ptr'[u] = ptr'[v] => u = v
      BY <1>5, <2>1 DEF IndInv, DestroyerCount
    <2>5. ASSUME NEW x \in Objs, life'[x] = "live", rc'[x] = 0
          PROVE  \E u \in Threads : pc'[u] \in Destroying /\ ptr'[u] = x
      <3>1. CASE x = ptr[t]
        <4>1. rc[ptr[t]] \in Int
          BY <1>2 DEF TypeOK, HeapType
        <4> QED BY <1>3, <1>4, <2>5, <3>1, <4>1
      <3>2. CASE x # ptr[t]
        BY <1>1, <1>3, <2>2, <2>5, <3>2 DEF IndInv, DestroyerCount
      <3> QED BY <3>1, <3>2
    <2> QED BY <2>3, <2>4, <2>5 DEF DestroyerCount, Destroying
  <1>9. AllocExclusive'
    BY <1>1, <1>4 DEF IndInv, AllocExclusive, Others, Holding, Destroying, SyncKinds
  <1>10. DupSourceOpen'
    BY <1>1, <1>4 DEF IndInv, DupSourceOpen, Others, Destroying
  <1> QED BY <1>6, <1>7, <1>8, <1>9, <1>10 DEF IndInv

(* sync_obj_destroy frees an object nobody refers to. *)
LEMMA DestroyStep ==
  ASSUME TypeOK, IndInv, NEW t \in Threads, SyncObjDestroy(t)
  PROVE  IndInv'
  <1>1. /\ Others(t) /\ pc'[t] = "idle" /\ pc[t] = "destroy"
        /\ slotKind' = slotKind /\ slotPtr' = slotPtr /\ rc' = rc
    BY OthersLeave DEF SyncObjDestroy, slotVars
  <1>2. /\ ptr[t] \in Objs
        /\ \A s \in Slots : slotKind[s] # "H_FREE" => slotPtr[s] # ptr[t]
        /\ \A u \in Threads : pc[u] \in Holding => ptr[u] # ptr[t]
    BY <1>1, DestroyedUnreferenced DEF Destroying
  <1>3. life'[ptr[t]] = "freed" /\ \A x \in Objs : x # ptr[t] => life'[x] = life[x]
    BY <1>2 DEF SyncObjDestroy, Free, TypeOK, HeapType
  <1>4. \A u \in Threads : pc[u] \in Destroying /\ u # t => ptr[u] # ptr[t]
    BY <1>1 DEF IndInv, DestroyerCount, Destroying
  <1>5. RefCountExact'
    <2> SUFFICES ASSUME NEW x \in Objs, life'[x] = "live"
                 PROVE  rc[x] = Cardinality(SlotRefs(x)') + Cardinality(FrameRefs(x)')
      BY <1>1 DEF RefCountExact
    <2>1. x # ptr[t] /\ life[x] = "live"
      BY <1>3
    <2>2. SlotRefs(x)' = SlotRefs(x) /\ FrameRefs(x)' = FrameRefs(x)
      BY <1>1, <2>1 DEF SlotRefs, FrameRefs, Others, Holding
    <2> QED BY <2>1, <2>2 DEF IndInv, RefCountExact
  <1>6. NoUseAfterFree'
    BY <1>1, <1>2, <1>3, <1>4 DEF IndInv, NoUseAfterFree, Others, Holding, Destroying
  <1>7. DestroyerCount'
    BY <1>1, <1>3 DEF IndInv, DestroyerCount, Others, Destroying
  <1>8. AllocExclusive'
    BY <1>1 DEF IndInv, AllocExclusive, Others, Holding, Destroying, SyncKinds
  <1>9. DupSourceOpen'
    BY <1>1 DEF IndInv, DupSourceOpen, Others
  <1> QED BY <1>5, <1>6, <1>7, <1>8, <1>9 DEF IndInv

(* CloseHandle: the slot's reference passes to the call. *)
LEMMA ClearStep ==
  ASSUME TypeOK, IndInv, NEW t \in Threads, NEW name, NEW s \in Slots,
         pc[t] \in {"idle", "dupclose"}, ~Duplicating(s), slotKind[s] # "H_FREE",
         ClearSlot(t, name, s)
  PROVE  IndInv'
  <1>1. /\ Others(t) /\ pc'[t] = "release" /\ ptr'[t] = slotPtr[s]
        /\ slotPtr' = slotPtr /\ life' = life /\ rc' = rc
    BY DEF TypeOK, FrameType, ClearSlot, Goto, Others, heapVars
  <1>2. slotKind'[s] = "H_FREE" /\ \A x \in Slots : x # s => slotKind'[x] = slotKind[x]
    BY DEF ClearSlot, TypeOK, SlotType
  <1>3. slotPtr[s] \in Objs /\ life[slotPtr[s]] = "live" /\ rc[slotPtr[s]] >= 1
    BY OpenCounted
  <1>4. RefCountExact'
    <2> SUFFICES ASSUME NEW x \in Objs, life[x] = "live"
                 PROVE  rc[x] = Cardinality(SlotRefs(x)') + Cardinality(FrameRefs(x)')
      BY <1>1 DEF RefCountExact
    <2>1. rc[x] = Cardinality(SlotRefs(x)) + Cardinality(FrameRefs(x))
      BY DEF IndInv, RefCountExact
    <2>2. CASE x = slotPtr[s]
      <3>1. SlotRefs(x)' = SlotRefs(x) \ {s} /\ s \in SlotRefs(x)
        BY <1>1, <1>2, <2>2 DEF SlotRefs
      <3>2. FrameRefs(x)' = FrameRefs(x) \cup {t} /\ t \notin FrameRefs(x)
        BY <1>1, <2>2 DEF FrameRefs, Others, Holding
      <3>3. Cardinality(SlotRefs(x)') = Cardinality(SlotRefs(x)) - 1
        BY <3>1, RefsFinite, FS_RemoveElement
      <3>4. Cardinality(FrameRefs(x)') = Cardinality(FrameRefs(x)) + 1
        BY <3>2, RefsFinite, FS_AddElement
      <3> QED BY <2>1, <3>3, <3>4, RefsFinite
    <2>3. CASE x # slotPtr[s]
      <3>1. SlotRefs(x)' = SlotRefs(x)
        BY <1>1, <1>2, <2>3 DEF SlotRefs
      <3>2. FrameRefs(x)' = FrameRefs(x)
        BY <1>1, <2>3 DEF FrameRefs, Others, Holding
      <3> QED BY <2>1, <3>1, <3>2
    <2> QED BY <2>2, <2>3
  <1>5. NoUseAfterFree'
    BY <1>1, <1>2, <1>3 DEF IndInv, NoUseAfterFree, Others, Holding
  <1>6. DestroyerCount'
    BY <1>1 DEF IndInv, DestroyerCount, Others, Destroying
  <1>7. AllocExclusive'
    BY <1>1, <1>2 DEF IndInv, AllocExclusive, Others, Holding, Destroying, SyncKinds
  <1>8. DupSourceOpen'
    BY <1>1, <1>2 DEF IndInv, DupSourceOpen, Others, Duplicating
  <1> QED BY <1>4, <1>5, <1>6, <1>7, <1>8 DEF IndInv

(* DuplicateHandle: the new slot's reference is added with the slot. *)
LEMMA DuplicateStep ==
  ASSUME TypeOK, IndInv, NEW t \in Threads, DuplicateSlot(t)
  PROVE  IndInv'
  <1> DEFINE src == hnd[t]
             o   == slotPtr[src]
  <1>1. pc[t] = "dup" /\ src \in Slots /\ slotKind[src] # "H_FREE" /\ knd[t] \in SyncKinds
    BY DEF DuplicateSlot, IndInv, DupSourceOpen
  <1>2. o \in Objs /\ life[o] = "live" /\ rc[o] >= 1
    BY <1>1, OpenCounted
  <1>3. PICK s \in FreeSlots : /\ slotKind' = [slotKind EXCEPT ![s] = slotKind[src]]
                               /\ slotPtr'  = [slotPtr EXCEPT ![s] = o]
    BY DEF DuplicateSlot
  <1>4. /\ s \in Slots /\ slotKind[s] = "H_FREE"
        /\ slotKind'[s] # "H_FREE" /\ slotPtr'[s] = o
        /\ \A x \in Slots : x # s => slotKind'[x] = slotKind[x] /\ slotPtr'[x] = slotPtr[x]
    BY <1>1, <1>3 DEF FreeSlots, TypeOK, SlotType
  <1>5. /\ life' = life
        /\ rc'[o] = rc[o] + 1
        /\ \A x \in Objs : x # o => rc'[x] = rc[x]
    BY <1>1, <1>2 DEF DuplicateSlot, Retain, TypeOK, HeapType
  <1>6. /\ Others(t) /\ pc'[t] \in {"idle", "dupclose"}
        /\ pc'[t] = "dupclose" => hnd'[t] = src
    BY OthersLeave, OthersGoto DEF DuplicateSlot, Return
  <1> HIDE DEF src, o
  <1>7. RefCountExact'
    <2> SUFFICES ASSUME NEW x \in Objs, life[x] = "live"
                 PROVE  rc'[x] = Cardinality(SlotRefs(x)') + Cardinality(FrameRefs(x)')
      BY <1>5 DEF RefCountExact
    <2>1. rc[x] = Cardinality(SlotRefs(x)) + Cardinality(FrameRefs(x))
      BY DEF IndInv, RefCountExact
    <2>2. FrameRefs(x)' = FrameRefs(x)
      BY <1>1, <1>6 DEF FrameRefs, Others, Holding
    <2>3. CASE x = o
      <3>1. SlotRefs(x)' = SlotRefs(x) \cup {s} /\ s \notin SlotRefs(x)
        BY <1>4, <2>3 DEF SlotRefs
      <3>2. Cardinality(SlotRefs(x)') = Cardinality(SlotRefs(x)) + 1
        BY <3>1, RefsFinite, FS_AddElement
      <3> QED BY <1>5, <2>1, <2>2, <2>3, <3>2, RefsFinite
    <2>4. CASE x # o
      <3>1. SlotRefs(x)' = SlotRefs(x)
        BY <1>4, <2>4 DEF SlotRefs
      <3> QED BY <1>5, <2>1, <2>2, <2>4, <3>1
    <2> QED BY <2>3, <2>4
  <1>8. NoUseAfterFree'
    BY <1>2, <1>4, <1>5, <1>6 DEF IndInv, NoUseAfterFree, Others, Holding
  <1>9. DestroyerCount'
    <2>1. \A u \in Threads : pc[u] \in Destroying => ptr[u] \in Objs /\ ptr[u] # o
      BY <1>2, DestroyedUnreferenced
    <2>2. \A u \in Threads : /\ pc'[u] \in Destroying <=> pc[u] \in Destroying
                             /\ pc[u] \in Destroying => ptr'[u] = ptr[u]
      BY <1>1, <1>6 DEF Others, Destroying
    <2>3. \A u \in Threads : pc'[u] \in Destroying => rc'[ptr'[u]] = 0
      BY <1>5, <2>1, <2>2 DEF IndInv, DestroyerCount
    <2>4. ASSUME NEW x \in Objs, life'[x] = "live", rc'[x] = 0
          PROVE  \E u \in Threads : pc'[u] \in Destroying /\ ptr'[u] = x
      <3>1. rc[o] \in Int /\ x # o
        BY <1>2, <1>5, <2>4 DEF TypeOK, HeapType
      <3>2. PICK u \in Threads : pc[u] \in Destroying /\ ptr[u] = x
        BY <1>5, <2>4, <3>1 DEF IndInv, DestroyerCount
      <3> QED BY <2>2, <3>2
    <2>5. \A u, v \in Threads : pc'[u] \in Destroying /\ pc'[v] \in Destroying /\ ptr'[u] = ptr'[v] => u = v
      BY <2>2 DEF IndInv, DestroyerCount
    <2> QED BY <2>3, <2>4, <2>5 DEF DestroyerCount, Destroying
  <1>10. AllocExclusive'
    <2>1. \A u \in Threads : pc[u] = "alloc" => ptr[u] # o
      BY <1>1 DEF IndInv, AllocExclusive, o
    <2> QED BY <1>1, <1>4, <1>6, <2>1 DEF IndInv, AllocExclusive, Others, Holding, Destroying, SyncKinds
  <1>11. DupSourceOpen'
    BY <1>1, <1>4, <1>6 DEF IndInv, DupSourceOpen, Others
  <1> QED BY <1>7, <1>8, <1>9, <1>10, <1>11 DEF IndInv

-----------------------------------------------------------------------------
(* All steps together. *)

(* IndInv is inductive for a program that does not race on DuplicateHandle. *)
LEMMA IndInvStep ==
  ASSUME ~RacyDup, TypeOK, IndInv, [Next]_vars
  PROVE  IndInv'
<1> USE DEF slotVars, heapVars
<1>1. CASE UNCHANGED vars
  BY <1>1, QuietStep DEF vars, frameVars, Quiet, Calm
<1>f. ASSUME NEW t \in Threads, pc[t] \in Outside, NEW value, LookupFails(t, value) PROVE IndInv'
  <2>1. Others(t) /\ pc'[t] = "idle"
    BY <1>f, OthersLeave DEF LookupFails, Return
  <2>2. Quiet
    BY <1>f, <2>1 DEF LookupFails, Quiet, Calm, Others
  <2> QED BY <2>2, QuietStep
<1>2. ASSUME NEW t \in Threads, Create(t) PROVE IndInv'
  BY <1>2, NewObjectStep DEF Create, CreateMutexA, CreateEventA, CreateSemaphoreA, SyncKinds
<1>3. ASSUME NEW t \in Threads, Call(t) PROVE IndInv'
  <2>1. ASSUME NEW s \in Slots, NEW b, WaitForSingleObject(t, s, b) PROVE IndInv'
    BY <1>f, <2>1, LookupStep DEF WaitForSingleObject, Outside, SyncKinds
  <2>2. ASSUME NEW s \in Slots, NEW name, NEW kind \in SyncKinds, NEW n, SignalCall(t, name, kind, s, n)
        PROVE IndInv'
    BY <1>f, <2>2, LookupStep DEF SignalCall, Outside, SyncKinds
  <2>3. ASSUME NEW s \in Slots, CloseHandle(t, s) PROVE IndInv'
    BY <1>f, <2>3, ClearStep DEF CloseHandle, Outside
  <2>4. ASSUME NEW s \in Slots, NEW b, DuplicateHandle(t, s, b) PROVE IndInv'
    <3>1. /\ pc[t] = "idle" /\ pc'[t] = "dup" /\ hnd'[t] = s /\ knd'[t] = slotKind[s]
          /\ slotKind[s] # "H_FREE" /\ slotKind[s] \in SyncKinds
          /\ Others(t) /\ UNCHANGED <<slotKind, slotPtr, life, rc>>
      BY <2>4 DEF DuplicateHandle, Goto, Others, TypeOK, FrameType, SlotType
    <3>2. Quiet
      BY <3>1 DEF Quiet, Calm, Others, Outside
    <3> QED BY <3>2, QuietStep
  <2>5. {"H_MUTEX", "H_EVENT", "H_SEMAPHORE"} = SyncKinds
    BY DEF SyncKinds
  <2> QED BY <1>3, <2>1, <2>2, <2>3, <2>4, <2>5
          DEF Call, ReleaseMutex, SetEvent, ResetEvent, ReleaseSemaphore
<1>q. ASSUME NEW t \in Threads, pc[t] \in Busy, NEW where \in Busy, Goto(t, where),
             UNCHANGED <<slotKind, slotPtr, life, rc, hnd, knd, ptr>>
      PROVE  IndInv'
  <2>1. Others(t) /\ pc'[t] \in Busy
    BY <1>q, OthersGoto
  <2>2. Quiet
    BY <1>q, <2>1 DEF Quiet, Calm, Others
  <2> QED BY <2>2, QuietStep
<1>d. ASSUME NEW t \in Threads, pc[t] \in Busy, NEW value, Done(t, value),
             UNCHANGED <<slotKind, slotPtr, life, rc>>
      PROVE  IndInv'
  BY <1>d, <1>q DEF Done, Busy
<1>4. ASSUME NEW t \in Threads, Progress(t) PROVE IndInv'
  <2> USE DEF Acting, Waiting
  <2>1. CASE AcquireMutex(t) \/ AcquireSemaphore(t) \/ AcquireEvent(t) \/ EventTimesOut(t)
    BY <1>d, <2>1 DEF AcquireMutex, AcquireSemaphore, AcquireEvent, TakeEvent, EventTimesOut, Busy
  <2>2. CASE EventReset(t) \/ MutexUnlock(t) \/ SemaphorePosted(t)
    BY <1>d, <2>2 DEF EventReset, MutexUnlock, SemaphorePosted, Busy
  <2>3. CASE SleepOnEvent(t)
    BY <1>q, <2>3 DEF SleepOnEvent, Busy
  <2>4. CASE SemaphorePost(t)
    <3>1. Quiet
      BY <2>4 DEF SemaphorePost, Quiet, Calm
    <3> QED BY <3>1, QuietStep
  <2>5. CASE EventSignal(t)
    <3>1. PICK W \in Woken(ptr[t]) :
            pc' = [u \in Threads |-> IF u = t THEN "release" ELSE IF u \in W THEN "act" ELSE pc[u]]
      BY <2>5 DEF EventSignal
    <3>2. \A u \in W : u \in Threads /\ pc[u] = "asleep"
      BY <3>1 DEF Woken, Sleepers
    <3>3. Quiet
      BY <2>5, <3>1, <3>2 DEF EventSignal, Quiet, Calm, Busy
    <3> QED BY <3>3, QuietStep
  <2>6. CASE UnlockLast(t)
    <3>1. Others(t) /\ pc[t] = "unlock" /\ pc'[t] = "destroy"
      BY <2>6, OthersGoto DEF UnlockLast
    <3>2. Quiet
      BY <2>6, <3>1 DEF UnlockLast, Quiet, Calm, Others, Destroying
    <3> QED BY <3>2, QuietStep
  <2>7. CASE DuplicateFull(t)
    BY <1>f, <2>7 DEF DuplicateFull, Outside
  <2>8. CASE DuplicateCloses(t)
    <3>1. hnd[t] \in Slots
      BY <2>8 DEF DuplicateCloses, IndInv, DupSourceOpen
    <3> QED BY <1>f, <2>8, <3>1, ClearStep DEF DuplicateCloses, Outside
  <2> QED BY <1>4, <2>1, <2>2, <2>3, <2>4, <2>5, <2>6, <2>7, <2>8,
             AllocStep, AllocFullStep, ReleaseStep, DestroyStep, DuplicateStep DEF Progress
<1>5. ASSUME NEW t \in Threads, Deadline(t) PROVE IndInv'
  BY <1>5, <1>d, <1>q DEF Deadline, WaitTimesOut, EventDeadline, Acting, Waiting, Busy
<1>6. ASSUME NEW t \in Threads, Disturbed(t) PROVE IndInv'
  BY <1>6, <1>d, <1>q DEF Disturbed, SpuriousWakeup, SemaphoreWaitInterrupted, Acting, Waiting, Busy
<1> QED BY <1>1, <1>2, <1>3, <1>4, <1>5, <1>6 DEF Next

(* Every state of such a program satisfies the inductive invariant. *)
LEMMA IndInvAlways == ASSUME ~RacyDup PROVE Spec => [](TypeOK /\ IndInv)
<1>1. Init => TypeOK /\ IndInv
  <2>1. Init => TypeOK
    BY DEF Init, TypeOK, SlotType, HeapType, DataType, FrameType, SyncKinds, Ops, Rets, PCs
  <2>2. Init => IndInv
    BY DEF Init, IndInv, RefCountExact, NoUseAfterFree, DestroyerCount, AllocExclusive,
           DupSourceOpen, Holding, Destroying
  <2> QED BY <2>1, <2>2
<1>2. TypeOK /\ IndInv /\ [Next]_vars => (TypeOK /\ IndInv)'
  BY TypeStep, IndInvStep
<1> QED BY <1>1, <1>2, PTL DEF Spec

(* For every number of threads, slots and objects, and whatever the        *)
(* program creates, waits for, signals, duplicates and closes, as long as  *)
(* it does not race on DuplicateHandle: the refcount of every live object  *)
(* is the number of open slots plus the number of calls in flight on it.   *)
THEOREM CountsExact == ASSUME ~RacyDup PROVE Spec => []RefCountExact
<1>1. IndInv => RefCountExact
  BY DEF IndInv
<1> QED BY <1>1, IndInvAlways, PTL

(* Under the same assumption no call touches a freed object: the retain    *)
(* under g_handles_mu in every lookup is enough to keep it alive while     *)
(* another thread closes the handle.                                       *)
THEOREM NoFreedAccess == ASSUME ~RacyDup PROVE Spec => []NoUseAfterFree
<1>1. IndInv => NoUseAfterFree
  BY DEF IndInv
<1> QED BY <1>1, IndInvAlways, PTL

(* And exactly one thread destroys an object, when it is unreachable.      *)
THEOREM DestroyedOnce == ASSUME ~RacyDup PROVE Spec => []DestroyedOnceUnreachable
<1>1. TypeOK /\ IndInv => DestroyedOnceUnreachable
  <2> SUFFICES ASSUME TypeOK, IndInv, NEW o \in Objs
               PROVE  /\ \A t, u \in Destroyers(o) : t = u
                      /\ Destroyers(o) # {} => SlotRefs(o) = {} /\ FrameRefs(o) = {}
                      /\ life[o] = "live" => \/ SlotRefs(o) \cup FrameRefs(o) # {}
                                             \/ Destroyers(o) # {}
    BY DEF DestroyedOnceUnreachable
  <2>1. \A t, u \in Destroyers(o) : t = u
    BY DEF Destroyers, IndInv, DestroyerCount, Destroying
  <2>2. ASSUME NEW t \in Destroyers(o) PROVE SlotRefs(o) = {} /\ FrameRefs(o) = {}
    BY <2>2, DestroyedUnreferenced DEF Destroyers, SlotRefs, FrameRefs, Destroying
  <2>3. ASSUME life[o] = "live", SlotRefs(o) = {}, FrameRefs(o) = {} PROVE Destroyers(o) # {}
    <3>1. rc[o] = 0
      BY <2>3, FS_EmptySet DEF IndInv, RefCountExact
    <3> QED BY <2>3, <3>1 DEF IndInv, DestroyerCount, Destroyers, Destroying
  <2> QED BY <2>1, <2>2, <2>3
<1> QED BY <1>1, IndInvAlways, PTL

-----------------------------------------------------------------------------
(* No lost wakeup.  A thread in the event branch of WaitForSingleObject is *)
(* awake when it will test the flag before it sleeps (again) or gives up.  *)

EventWait(t) == op[t] = "WaitForSingleObject" /\ knd[t] = "H_EVENT"
Awake(t, o)  == ptr[t] = o /\ EventWait(t) /\ pc[t] \in {"act", "timedout"}

\* Only that branch sleeps; and a set event somebody sleeps on is auto-reset
\* and has a waiter awake, so the flag is about to be taken.
WakeInv ==
  /\ \A t \in Threads : pc[t] \in {"asleep", "timedout"} => EventWait(t)
  /\ \A o \in Objs : signaled[o] /\ Sleepers(o) # {} =>
       ~manual[o] /\ \E t \in Threads : Awake(t, o)

\* Only t's frame changes.
OnlyFrame(t) == \A u \in Threads : u # t =>
                  pc'[u] = pc[u] /\ op'[u] = op[u] /\ knd'[u] = knd[u] /\ ptr'[u] = ptr[u]

(* A step of one thread that sets no event keeps WakeInv, if it puts the   *)
(* thread to sleep on a clear event only, and takes it from among those    *)
(* awake only when it has cleared the event or the event is manual-reset.  *)
LEMMA WakeFrame ==
  ASSUME WakeInv, NEW t \in Threads, OnlyFrame(t),
         pc'[t] \in {"asleep", "timedout"} => EventWait(t)',
         pc'[t] = "asleep" => ~signaled'[ptr'[t]],
         \A o \in Objs : Awake(t, o) /\ signaled'[o] => manual[o] \/ Awake(t, o)',
         \A o \in Objs : signaled'[o] => signaled[o] /\ manual'[o] = manual[o]
  PROVE  WakeInv'
  <1>1. \A u \in Threads : pc'[u] \in {"asleep", "timedout"} => EventWait(u)'
    BY DEF WakeInv, OnlyFrame, EventWait
  <1>2. ASSUME NEW o \in Objs, signaled'[o], NEW w \in Threads, pc'[w] = "asleep", ptr'[w] = o
        PROVE  ~manual'[o] /\ \E u \in Threads : Awake(u, o)'
    <2>1. w # t
      BY <1>2
    <2>2. pc[w] = "asleep" /\ ptr[w] = o /\ signaled[o] /\ manual'[o] = manual[o]
      BY <1>2, <2>1 DEF OnlyFrame
    <2>3. Sleepers(o) # {}
      BY <2>2 DEF Sleepers
    <2>4. PICK u \in Threads : Awake(u, o)
      BY <2>2, <2>3 DEF WakeInv
    <2>5. ~manual[o]
      BY <2>2, <2>3 DEF WakeInv
    <2>6. Awake(u, o)'
      <3>1. CASE u = t
        BY <1>2, <2>4, <2>5, <3>1
      <3>2. CASE u # t
        BY <2>4, <3>2 DEF Awake, EventWait, OnlyFrame
      <3> QED BY <3>1, <3>2
    <2> QED BY <2>2, <2>5, <2>6
  <1> QED BY <1>1, <1>2 DEF WakeInv, Sleepers

(* What the ends and beginnings of calls do to the frames. *)
LEMMA LeaveFrame ==
  ASSUME TypeOK, NEW t \in Threads, Leave(t)
  PROVE  OnlyFrame(t) /\ pc'[t] = "idle"
  BY DEF TypeOK, FrameType, Leave, Goto, OnlyFrame

(* Moving on inside a call changes its program counter only. *)
LEMMA MoveFrame ==
  ASSUME TypeOK, NEW t \in Threads, NEW where, Goto(t, where), UNCHANGED <<op, knd, ptr>>
  PROVE  OnlyFrame(t) /\ pc'[t] = where /\ op'[t] = op[t] /\ knd'[t] = knd[t] /\ ptr'[t] = ptr[t]
  BY DEF TypeOK, FrameType, Goto, OnlyFrame

(* A step of a thread outside the event branch that does not take it there *)
(* and sets no event keeps WakeInv.                                        *)
LEMMA WakeElsewhere ==
  ASSUME WakeInv, NEW t \in Threads, OnlyFrame(t),
         ~(EventWait(t) /\ pc[t] \in {"act", "timedout"}),
         pc'[t] \notin {"asleep", "timedout"},
         \A o \in Objs : signaled'[o] => signaled[o] /\ manual'[o] = manual[o]
  PROVE  WakeInv'
  <1>1. \A o \in Objs : ~Awake(t, o)
    BY DEF Awake
  <1> QED BY <1>1, WakeFrame

(* A lookup that finds an object keeps WakeInv. *)
LEMMA WakeLookup ==
  ASSUME TypeOK, WakeInv, NEW t \in Threads, NEW name, NEW s, pc[t] = "idle", LookupRetain(t, name, s)
  PROVE  WakeInv'
  <1>1. OnlyFrame(t) /\ pc'[t] = "act"
    BY DEF LookupRetain, OnlyFrame, Goto, TypeOK, FrameType
  <1> QED BY <1>1, WakeElsewhere DEF LookupRetain, dataVars

(* A lookup that finds no object keeps it as well ... *)
LEMMA WakeFails ==
  ASSUME TypeOK, WakeInv, NEW t \in Threads, NEW value, pc[t] \in Outside, LookupFails(t, value)
  PROVE  WakeInv'
  <1>1. OnlyFrame(t) /\ pc'[t] = "idle"
    BY LeaveFrame DEF LookupFails, Return
  <1> QED BY <1>1, WakeElsewhere DEF LookupFails, dataVars, Outside

(* ... and so does clearing a slot. *)
LEMMA WakeClear ==
  ASSUME TypeOK, WakeInv, NEW t \in Threads, NEW name, NEW s, pc[t] \in Outside, ClearSlot(t, name, s)
  PROVE  WakeInv'
  <1>1. OnlyFrame(t) /\ pc'[t] = "release"
    BY DEF ClearSlot, OnlyFrame, Goto, TypeOK, FrameType
  <1> QED BY <1>1, WakeElsewhere DEF ClearSlot, dataVars, Outside

(* event_signal wakes every sleeper of a manual-reset event, and of an     *)
(* auto-reset one a thread that will test the flag.                        *)
LEMMA WakeSignal ==
  ASSUME TypeOK, WakeInv, NEW t \in Threads, EventSignal(t)
  PROVE  WakeInv'
  <1> DEFINE e == ptr[t]
  <1>1. PICK W \in Woken(e) :
          pc' = [u \in Threads |-> IF u = t THEN "release" ELSE IF u \in W THEN "act" ELSE pc[u]]
    BY DEF EventSignal
  <1>2. \A u \in W : u \in Threads /\ pc[u] = "asleep" /\ ptr[u] = e
    BY <1>1 DEF Woken, Sleepers
  <1>3. op' = op /\ knd' = knd /\ ptr' = ptr /\ manual' = manual
    BY DEF EventSignal
  <1>4. \A o \in Objs : o # e => signaled'[o] = signaled[o]
    BY DEF EventSignal, TypeOK, DataType
  <1>5. op[t] # "WaitForSingleObject" /\ pc[t] = "act"
    BY DEF EventSignal, Acting
  <1>6. \A u \in Threads : pc'[u] \in {"asleep", "timedout"} => EventWait(u)'
    BY <1>1, <1>3 DEF WakeInv, EventWait
  <1>7. ASSUME NEW o \in Objs, signaled'[o], NEW w \in Threads, pc'[w] = "asleep", ptr'[w] = o
        PROVE  ~manual'[o] /\ \E u \in Threads : Awake(u, o)'
    <2>1. pc[w] = "asleep" /\ ptr[w] = o /\ w \notin W
      BY <1>1, <1>3, <1>7
    <2>2. w \in Sleepers(o)
      BY <2>1 DEF Sleepers
    <2>3. CASE o = e
      <3>1. ~manual[o] /\ W \in {{x} : x \in Sleepers(o)}
        BY <1>1, <2>1, <2>2, <2>3 DEF Woken
      <3>2. PICK x \in Sleepers(o) : W = {x}
        BY <3>1
      <3>3. x \in Threads /\ x # t /\ pc'[x] = "act" /\ ptr'[x] = o /\ pc[x] = "asleep"
        BY <1>1, <1>2, <1>3, <1>5, <2>3, <3>2
      <3>4. Awake(x, o)'
        BY <1>3, <3>3 DEF Awake, EventWait, WakeInv
      <3> QED BY <1>3, <3>1, <3>3, <3>4
    <2>4. CASE o # e
      <3>1. signaled[o] /\ Sleepers(o) # {}
        BY <1>4, <1>7, <2>2, <2>4
      <3>2. PICK u \in Threads : Awake(u, o)
        BY <3>1 DEF WakeInv
      <3>3. ~manual[o]
        BY <3>1 DEF WakeInv
      <3>4. u # t /\ u \notin W
        BY <1>2, <1>5, <3>2 DEF Awake, EventWait
      <3>5. Awake(u, o)'
        BY <1>1, <1>3, <3>2, <3>4 DEF Awake, EventWait
      <3> QED BY <1>3, <3>3, <3>5
    <2> QED BY <2>3, <2>4
  <1> QED BY <1>6, <1>7 DEF WakeInv, Sleepers

(* Nobody sleeps on an object that is not there yet. *)
LEMMA WakeCreate ==
  ASSUME TypeOK, IndInv, WakeInv, NEW t \in Threads, Create(t)
  PROVE  WakeInv'
  <1>1. PICK x \in Objs : \/ \E b \in BOOLEAN : CreateMutexA(t, x, b)
                          \/ \E m, b \in BOOLEAN : CreateEventA(t, x, m, b)
                          \/ \E n \in 0 .. MaxCount : CreateSemaphoreA(t, x, n)
    BY DEF Create
  <1>2. \E kind : NewObject(t, x, kind)
    BY <1>1 DEF CreateMutexA, CreateEventA, CreateSemaphoreA
  <1>3. pc[t] = "idle" /\ life[x] = "unborn" /\ OnlyFrame(t) /\ pc'[t] = "alloc"
    BY <1>2 DEF NewObject, Goto, OnlyFrame, TypeOK, FrameType
  <1>4. \A o \in Objs : o # x => signaled'[o] = signaled[o] /\ manual'[o] = manual[o]
    BY <1>1 DEF CreateMutexA, CreateEventA, CreateSemaphoreA, TypeOK, DataType
  <1>5. \A u \in Threads : pc[u] = "asleep" => ptr[u] # x
    BY <1>3 DEF IndInv, NoUseAfterFree, Holding
  <1>6. \A u \in Threads : pc'[u] \in {"asleep", "timedout"} => EventWait(u)'
    BY <1>3 DEF WakeInv, OnlyFrame, EventWait
  <1>7. ASSUME NEW o \in Objs, signaled'[o], NEW w \in Threads, pc'[w] = "asleep", ptr'[w] = o
        PROVE  ~manual'[o] /\ \E u \in Threads : Awake(u, o)'
    <2>1. w # t /\ pc[w] = "asleep" /\ ptr[w] = o /\ o # x
      BY <1>3, <1>5, <1>7 DEF OnlyFrame
    <2>2. signaled[o] /\ manual'[o] = manual[o] /\ Sleepers(o) # {}
      BY <1>4, <1>7, <2>1 DEF Sleepers
    <2>3. PICK u \in Threads : Awake(u, o)
      BY <2>2 DEF WakeInv
    <2>4. u # t
      BY <1>3, <2>3 DEF Awake
    <2>5. Awake(u, o)'
      BY <1>3, <2>3, <2>4 DEF Awake, EventWait, OnlyFrame
    <2> QED BY <2>2, <2>5 DEF WakeInv
  <1> QED BY <1>6, <1>7 DEF WakeInv, Sleepers

(* The steps inside a call keep WakeInv. *)
LEMMA WakeProgress ==
  ASSUME TypeOK, WakeInv, NEW t \in Threads, Progress(t) \/ Deadline(t) \/ Disturbed(t)
  PROVE  WakeInv'
<1> USE DEF slotVars, heapVars, dataVars, Acting, Waiting
<1>e. ASSUME NEW where, Goto(t, where), where \notin {"asleep", "timedout"},
             ~(EventWait(t) /\ pc[t] \in {"act", "timedout"}),
             UNCHANGED <<op, knd, ptr, signaled, manual>>
      PROVE  WakeInv'
  BY <1>e, MoveFrame, WakeElsewhere
<1>d. ASSUME NEW value, Done(t, value), ~(EventWait(t) /\ pc[t] \in {"act", "timedout"}),
             UNCHANGED <<signaled, manual>>
      PROVE  WakeInv'
  BY <1>d, <1>e DEF Done
<1>l. ASSUME Leave(t), ~(EventWait(t) /\ pc[t] \in {"act", "timedout"}),
             \A o \in Objs : signaled'[o] => signaled[o] /\ manual'[o] = manual[o]
      PROVE  WakeInv'
  BY <1>l, LeaveFrame, WakeElsewhere
<1>f. ASSUME NEW x, Free(x) PROVE \A o \in Objs : signaled'[o] => signaled[o] /\ manual'[o] = manual[o]
  BY <1>f DEF Free, TypeOK, DataType
<1>1. CASE HandleAllocSync(t)
  BY <1>1, <1>l DEF HandleAllocSync, Return
<1>2. CASE HandleAllocSyncFull(t) \/ SyncObjDestroy(t)
  BY <1>2, <1>l, <1>f DEF HandleAllocSyncFull, SyncObjDestroy, Return
<1>3. CASE AcquireMutex(t) \/ AcquireSemaphore(t) \/ MutexUnlock(t) \/ SemaphorePosted(t)
  BY <1>3, <1>d DEF AcquireMutex, AcquireSemaphore, MutexUnlock, SemaphorePosted, EventWait
<1>4. CASE AcquireEvent(t)
  <2>1. OnlyFrame(t) /\ pc'[t] = "release"
    BY <1>4, MoveFrame DEF AcquireEvent, TakeEvent, Done
  <2>2. \A o \in Objs : signaled'[o] => signaled[o] /\ manual'[o] = manual[o]
    BY <1>4 DEF AcquireEvent, TakeEvent, TypeOK, DataType
  <2>3. \A o \in Objs : Awake(t, o) /\ signaled'[o] => manual[o]
    BY <1>4 DEF AcquireEvent, TakeEvent, Awake, TypeOK, DataType
  <2> QED BY <2>1, <2>2, <2>3, WakeFrame
<1>5. CASE SleepOnEvent(t)
  <2>1. OnlyFrame(t) /\ pc'[t] = "asleep" /\ op'[t] = op[t] /\ knd'[t] = knd[t] /\ ptr'[t] = ptr[t]
    BY <1>5, MoveFrame DEF SleepOnEvent
  <2>2. \A o \in Objs : Awake(t, o) => ~signaled'[o]
    BY <1>5 DEF SleepOnEvent, Awake
  <2> QED BY <1>5, <2>1, <2>2, WakeFrame DEF SleepOnEvent, EventWait
<1>6. CASE EventTimesOut(t)
  <2>1. OnlyFrame(t) /\ pc'[t] = "release"
    BY <1>6, MoveFrame DEF EventTimesOut, Done
  <2>2. \A o \in Objs : Awake(t, o) => ~signaled'[o]
    BY <1>6 DEF EventTimesOut, Awake
  <2> QED BY <1>6, <2>1, <2>2, WakeFrame DEF EventTimesOut
<1>7. CASE EventSignal(t)
  BY <1>7, WakeSignal
<1>8. CASE EventReset(t)
  <2>1. OnlyFrame(t) /\ pc'[t] = "release"
    BY <1>8, MoveFrame DEF EventReset, Done
  <2>2. \A o \in Objs : signaled'[o] => signaled[o] /\ manual'[o] = manual[o]
    BY <1>8 DEF EventReset, TypeOK, DataType
  <2> QED BY <1>8, <2>1, <2>2, WakeElsewhere DEF EventReset, EventWait
<1>9. CASE SemaphorePost(t)
  <2>1. OnlyFrame(t) /\ pc'[t] = "act" /\ ~EventWait(t)
    BY <1>9 DEF SemaphorePost, OnlyFrame, EventWait
  <2> QED BY <1>9, <2>1, WakeElsewhere DEF SemaphorePost
<1>10. CASE ReleaseRef(t)
  BY <1>10, <1>l, <1>e DEF ReleaseRef
<1>11. CASE UnlockLast(t)
  BY <1>11, <1>e DEF UnlockLast
<1>12. CASE DuplicateSlot(t)
  BY <1>12, <1>l, <1>e DEF DuplicateSlot, Return
<1>13. CASE DuplicateFull(t)
  BY <1>13, WakeFails DEF DuplicateFull, Outside
<1>14. CASE DuplicateCloses(t)
  BY <1>14, WakeFails, WakeClear DEF DuplicateCloses, Outside
<1>15. CASE WaitTimesOut(t) \/ SemaphoreWaitInterrupted(t)
  BY <1>15, <1>d DEF WaitTimesOut, SemaphoreWaitInterrupted, EventWait
<1>16. CASE EventDeadline(t)
  <2>1. OnlyFrame(t) /\ pc'[t] = "timedout" /\ op'[t] = op[t] /\ knd'[t] = knd[t] /\ ptr'[t] = ptr[t]
    BY <1>16, MoveFrame DEF EventDeadline
  <2>2. EventWait(t)' /\ \A o \in Objs : ~Awake(t, o)
    BY <1>16, <2>1 DEF EventDeadline, WakeInv, EventWait, Awake
  <2> QED BY <1>16, <2>1, <2>2, WakeFrame DEF EventDeadline
<1>17. CASE SpuriousWakeup(t)
  BY <1>17, <1>e DEF SpuriousWakeup
<1> QED BY <1>1, <1>2, <1>3, <1>4, <1>5, <1>6, <1>7, <1>8, <1>9, <1>10, <1>11, <1>12, <1>13,
           <1>14, <1>15, <1>16, <1>17 DEF Progress, Deadline, Disturbed

(* Every step keeps it. *)
LEMMA WakeStep ==
  ASSUME TypeOK, IndInv, WakeInv, [Next]_vars
  PROVE  WakeInv'
<1>1. CASE UNCHANGED vars
  BY <1>1 DEF vars, frameVars, dataVars, WakeInv, Sleepers, Awake, EventWait
<1>2. ASSUME NEW t \in Threads, Call(t) PROVE WakeInv'
  <2>1. ASSUME NEW s, NEW b, WaitForSingleObject(t, s, b) PROVE WakeInv'
    BY <2>1, WakeLookup, WakeFails DEF WaitForSingleObject, Outside
  <2>2. ASSUME NEW s, NEW name, NEW kind, NEW n, SignalCall(t, name, kind, s, n) PROVE WakeInv'
    BY <2>2, WakeLookup, WakeFails DEF SignalCall, Outside
  <2>3. ASSUME NEW s, CloseHandle(t, s) PROVE WakeInv'
    BY <2>3, WakeClear, WakeFails DEF CloseHandle, Outside
  <2>4. ASSUME NEW s, NEW b, DuplicateHandle(t, s, b) PROVE WakeInv'
    <3>1. pc[t] = "idle" /\ OnlyFrame(t) /\ pc'[t] = "dup"
      BY <2>4 DEF DuplicateHandle, Goto, OnlyFrame, TypeOK, FrameType
    <3> QED BY <2>4, <3>1, WakeElsewhere DEF DuplicateHandle, dataVars
  <2> QED BY <1>2, <2>1, <2>2, <2>3, <2>4
          DEF Call, ReleaseMutex, SetEvent, ResetEvent, ReleaseSemaphore
<1> QED BY <1>1, <1>2, WakeCreate, WakeProgress DEF Next

(* For every number of threads, slots and objects, as long as the program  *)
(* does not race on DuplicateHandle: no wakeup is lost between             *)
(* event_signal and the wait loop of WaitForSingleObject.                  *)
THEOREM WakeupsKept == ASSUME ~RacyDup PROVE Spec => []NoLostWakeup
<1>1. Init => WakeInv
  BY DEF Init, WakeInv, Sleepers
<1>2. WakeInv => NoLostWakeup
  BY DEF WakeInv, NoLostWakeup, Awake, EventWait
<1>3. TypeOK /\ IndInv /\ WakeInv /\ [Next]_vars => WakeInv'
  BY WakeStep
<1> QED BY <1>1, <1>2, <1>3, IndInvAlways, PTL DEF Spec

-----------------------------------------------------------------------------
(* The inductive invariant. *)

Polling(t) == multi[t].fn \in {"any", "all"}

Ats == {"poll", "polled", "undo", "check", "done"}

WaitFrames   == [fn : {"any", "all"}, hs : Lists, i : Nat, n_acq : Nat, at : Ats,
                 inf : BOOLEAN, fail : Rets, entry : [Objs -> Nat]]
SignalFrames == [fn : {"signal"}, hs : Slots \X Slots, inf : BOOLEAN,
                 at : SyncKinds \cup {"wait"}]

MultiType == /\ multi \in [Threads -> {Idle} \cup SignalFrames \cup WaitFrames]
             /\ tokens \in [Objs -> Int]

\* The positions of its list that t has acquired and not given back: in a
\* round of wait-all all those before i, in the roll-back those from i on, and
\* the one the single call in flight is about, once or until it is done.
Polled(t) == /\ pc[t] \in {"idle", "release"}
             /\ ret[t] = "WAIT_OBJECT_0"
Undoing(t) == /\ pc[t] = "act"
              /\ knd[t] = "H_SEMAPHORE" => left[t] > 0

TakenPolled(t) == (IF multi[t].fn = "all" THEN 1 .. multi[t].i - 1 ELSE {})
                    \cup (IF Polled(t) THEN {multi[t].i} ELSE {})
TakenUndo(t)   == (multi[t].i .. multi[t].n_acq)
                    \cup (IF Undoing(t) THEN {multi[t].i - 1} ELSE {})

Taken(t) == IF ~Polling(t) THEN {}
            ELSE IF multi[t].at = "polled" THEN TakenPolled(t)
            ELSE IF multi[t].at = "undo" THEN TakenUndo(t)
            ELSE IF multi[t].at = "done" THEN Given(multi[t]) ELSE {}

TakenOn(t, o) == {k \in Taken(t) : slotPtr[multi[t].hs[k]] = o}

\* The single call t is in is about the object behind the open slot s.
BoundTo(t, s) == /\ slotKind[s] \in SyncKinds
                 /\ ptr[t] = slotPtr[s]
                 /\ knd[t] = slotKind[s]

InFlight(t) ==
  \/ /\ multi[t].at = "polled" /\ op[t] = "WaitForSingleObject"
     /\ BoundTo(t, multi[t].hs[multi[t].i])
  \/ /\ multi[t].at = "undo" /\ op[t] = "undo_wait_acquire"
     /\ pc[t] \in {"act", "release"} /\ left[t] <= 1
     /\ multi[t].i > 1 /\ BoundTo(t, multi[t].hs[multi[t].i - 1])

\* Where in its round a call may be.
RoundInv(t) ==
  /\ multi[t].i \in 1 .. Len(multi[t].hs)
  /\ multi[t].at = "undo" => /\ multi[t].fn = "all" /\ multi[t].fail # "WAIT_OBJECT_0"
                             /\ multi[t].n_acq < Len(multi[t].hs) /\ multi[t].i <= multi[t].n_acq + 1
  /\ multi[t].at \in {"poll", "polled"} => multi[t].fail = "WAIT_OBJECT_0"

CallInv(t) == pc[t] # "idle" => pc[t] \in Busy /\ InFlight(t)

OpenInv(t) == \A k \in Taken(t) : slotKind[multi[t].hs[k]] # "H_FREE"

WaitInv == \A t \in Threads : Polling(t) => RoundInv(t) /\ CallInv(t) /\ OpenInv(t)

\* A handle's kind is the kind of its object; no handle is created any more.
KindInv ==
  /\ slotPtr \in [Slots -> Objs]
  /\ \A s \in Slots : slotKind[s] # "H_FREE" => slotKind[s] = okind[slotPtr[s]]
  /\ \A t \in Threads : pc[t] \in Busy => knd[t] = okind[ptr[t]]
  /\ \A t \in Threads : pc[t] \notin {"alloc", "dup", "dupclose"}
  /\ \A o \in Objs : owner[o] = NoThread => depth[o] = 0

\* A call holds each mutex once more for every acquired position on it.
HeldInv ==
  \A t \in Threads : Polling(t) => \A o \in Objs : life[o] = "live" /\ okind[o] = "H_MUTEX" =>
    Held(t, o) = multi[t].entry[o] + Cardinality(TakenOn(t, o))

\* What the calls in progress have taken from o.
Out(o) == {p \in Threads \X Nat : p[2] \in TakenOn(p[1], o)}

TokenInv ==
  \A o \in Objs :
    /\ IsFiniteSet(Out(o))
    /\ life[o] = "live" /\ okind[o] = "H_SEMAPHORE" => tokens[o] = count[o] + Cardinality(Out(o))

Core == TypeOK /\ IndInv /\ WakeInv
Book == MultiType /\ WaitInv /\ KindInv
MInv == Core /\ Book /\ HeldInv /\ TokenInv

-----------------------------------------------------------------------------
(* Lists and the locals of the composite calls. *)

(* A list of handles is not empty and names slots. *)
LEMMA ListFacts ==
  ASSUME NEW hs \in Lists
  PROVE  /\ Len(hs) \in Nat /\ Len(hs) >= 1
         /\ DOMAIN hs = 1 .. Len(hs)
         /\ \A k \in 1 .. Len(hs) : hs[k] \in Slots
  <1>1. hs \in Seq(Slots) /\ hs # <<>>
    BY ListAssumption
  <1> QED BY <1>1

(* What the locals of a call are, by the call. *)
LEMMA FrameKinds ==
  ASSUME MultiType, NEW t \in Threads
  PROVE  /\ Polling(t) => multi[t] \in WaitFrames
         /\ multi[t].fn = "signal" => multi[t] \in SignalFrames
         /\ multi[t].fn = "none" => multi[t] = Idle
  <1>1. multi[t] \in {Idle} \cup SignalFrames \cup WaitFrames
    BY DEF MultiType
  <1>2. Idle.fn = "none"
    BY DEF Idle
  <1>3. \A m \in SignalFrames : m.fn = "signal"
    BY DEF SignalFrames
  <1>4. \A m \in WaitFrames : m.fn \in {"any", "all"}
    BY DEF WaitFrames
  <1> QED BY <1>1, <1>2, <1>3, <1>4 DEF Polling

(* The locals of a wait, field by field. *)
LEMMA WaitFields ==
  ASSUME NEW m \in WaitFrames
  PROVE  /\ m.fn \in {"any", "all"} /\ m.hs \in Lists /\ m.i \in Nat /\ m.n_acq \in Nat
         /\ m.at \in Ats /\ m.fail \in Rets /\ m.entry \in [Objs -> Nat]
  BY DEF WaitFrames

(* A step of t sets t's locals only. *)
LEMMA SetTyped ==
  ASSUME MultiType, NEW t \in Threads, NEW m \in {Idle} \cup SignalFrames \cup WaitFrames, Set(t, m),
         tokens' \in [Objs -> Int]
  PROVE  MultiType' /\ multi'[t] = m /\ \A u \in Threads : u # t => multi'[u] = multi[u]
  BY DEF MultiType, Set

(* Acquired positions are positions of the list. *)
LEMMA TakenFinite ==
  ASSUME MultiType, NEW t \in Threads, Polling(t) => RoundInv(t) /\ CallInv(t)
  PROVE  /\ Taken(t) \subseteq Nat
         /\ Polling(t) => \A k \in Taken(t) : k \in 1 .. Len(multi[t].hs) /\ multi[t].hs[k] \in Slots
         /\ \A o : IsFiniteSet(TakenOn(t, o)) /\ Cardinality(TakenOn(t, o)) \in Nat
  <1>1. CASE ~Polling(t)
    <2>1. Taken(t) = {} /\ \A o : TakenOn(t, o) = {}
      BY <1>1 DEF Taken, TakenOn
    <2> QED BY <1>1, <2>1, FS_EmptySet
  <1>2. CASE Polling(t)
    <2>1. multi[t] \in WaitFrames
      BY <1>2, FrameKinds
    <2>2. /\ multi[t].hs \in Lists /\ multi[t].i \in Nat /\ multi[t].n_acq \in Nat
      BY <2>1, WaitFields
    <2>3. /\ Len(multi[t].hs) \in Nat /\ DOMAIN multi[t].hs = 1 .. Len(multi[t].hs)
          /\ \A k \in 1 .. Len(multi[t].hs) : multi[t].hs[k] \in Slots
      BY <2>2, ListFacts
    <2>4. /\ multi[t].i \in 1 .. Len(multi[t].hs)
          /\ multi[t].at = "undo" => multi[t].n_acq < Len(multi[t].hs)
      BY <1>2 DEF RoundInv
    <2>5. multi[t].at = "undo" /\ Undoing(t) => multi[t].i > 1
      BY <1>2 DEF CallInv, InFlight, Undoing
    <2>6. TakenPolled(t) \subseteq 1 .. Len(multi[t].hs)
      BY <2>2, <2>3, <2>4 DEF TakenPolled
    <2>7. multi[t].at = "undo" => TakenUndo(t) \subseteq 1 .. Len(multi[t].hs)
      BY <2>2, <2>3, <2>4, <2>5 DEF TakenUndo
    <2>8. Given(multi[t]) \subseteq 1 .. Len(multi[t].hs)
      BY <2>2, <2>3, <2>4 DEF Given
    <2>9. Taken(t) \subseteq 1 .. Len(multi[t].hs)
      BY <2>6, <2>7, <2>8 DEF Taken
    <2>10. ASSUME NEW o PROVE IsFiniteSet(TakenOn(t, o)) /\ Cardinality(TakenOn(t, o)) \in Nat
      <3>1. TakenOn(t, o) \subseteq 1 .. Len(multi[t].hs)
        BY <2>9 DEF TakenOn
      <3>2. IsFiniteSet(1 .. Len(multi[t].hs))
        BY <2>3, FS_Interval
      <3>3. IsFiniteSet(TakenOn(t, o))
        BY <3>1, <3>2, FS_Subset
      <3> QED BY <3>3, FS_CardinalityType
    <2> QED BY <2>3, <2>9, <2>10
  <1> QED BY <1>1, <1>2

(* The same in the state after a step. *)
LEMMA TakenFiniteAfter ==
  ASSUME NEW t \in Threads
  PROVE  (MultiType /\ (Polling(t) => RoundInv(t) /\ CallInv(t)) =>
            /\ Taken(t) \subseteq Nat
            /\ \A o : IsFiniteSet(TakenOn(t, o)) /\ Cardinality(TakenOn(t, o)) \in Nat)'
  <1>1. MultiType /\ (Polling(t) => RoundInv(t) /\ CallInv(t)) =>
            /\ Taken(t) \subseteq Nat
            /\ \A o : IsFiniteSet(TakenOn(t, o)) /\ Cardinality(TakenOn(t, o)) \in Nat
    BY TakenFinite
  <1> QED BY <1>1, PTL

-----------------------------------------------------------------------------
(* Counting the positions taken by all calls together. *)

Pairs(t, S) == {<<t, k>> : k \in S}

(* Pairing a thread with its positions does not change their number. *)
LEMMA PairsCount ==
  ASSUME NEW t, NEW S, IsFiniteSet(S)
  PROVE  IsFiniteSet(Pairs(t, S)) /\ Cardinality(Pairs(t, S)) = Cardinality(S)
  <1> DEFINE f == [k \in S |-> <<t, k>>]
  <1>1. f \in Bijection(S, Pairs(t, S))
    <2>1. f \in [S -> Pairs(t, S)]
      BY DEF Pairs
    <2>2. \A a, b \in S : f[a] = f[b] => a = b
      OBVIOUS
    <2>3. \A p \in Pairs(t, S) : \E a \in S : f[a] = p
      BY DEF Pairs
    <2> QED BY <2>1, <2>2, <2>3 DEF Bijection, Injection, Surjection, IsInjective
  <1>2. ExistsBijection(S, Pairs(t, S))
    BY <1>1 DEF ExistsBijection
  <1> QED BY <1>2, FS_Bijection

(* When only t's acquired positions change, what is out on o changes by as *)
(* many as t's do.                                                         *)
LEMMA OutChanges ==
  ASSUME NEW t \in Threads, NEW o, IsFiniteSet(Out(o)),
         TakenOn(t, o) \subseteq Nat, TakenOn(t, o)' \subseteq Nat,
         IsFiniteSet(TakenOn(t, o)), IsFiniteSet(TakenOn(t, o)'),
         \A u \in Threads : u # t => TakenOn(u, o)' = TakenOn(u, o)
  PROVE  /\ IsFiniteSet(Out(o)')
         /\ Cardinality(Out(o)') = Cardinality(Out(o)) - Cardinality(TakenOn(t, o))
                                                       + Cardinality(TakenOn(t, o)')
         /\ Cardinality(Out(o)) \in Nat
  <1> DEFINE R == {p \in Out(o) : p[1] # t}
             A == TakenOn(t, o)
             B == TakenOn(t, o)'
  <1>1. Out(o) = R \cup Pairs(t, A)
    <2>1. ASSUME NEW p \in Out(o), p[1] = t PROVE p \in Pairs(t, A)
      <3>1. p = <<t, p[2]>> /\ p[2] \in A
        BY <2>1 DEF Out
      <3> QED BY <3>1 DEF Pairs
    <2>2. Pairs(t, A) \subseteq Out(o)
      BY DEF Out, Pairs
    <2> QED BY <2>1, <2>2
  <1>2. Out(o)' = R \cup Pairs(t, B)
    <2>1. ASSUME NEW p \in Out(o)', p[1] = t PROVE p \in Pairs(t, B)
      <3>1. p = <<t, p[2]>> /\ p[2] \in B
        BY <2>1 DEF Out
      <3> QED BY <3>1 DEF Pairs
    <2>2. ASSUME NEW p \in Out(o)', p[1] # t PROVE p \in R
      BY <2>2 DEF Out
    <2>3. ASSUME NEW p \in R PROVE p \in Out(o)'
      BY <2>3 DEF Out
    <2>4. Pairs(t, B) \subseteq Out(o)'
      BY DEF Out, Pairs
    <2> QED BY <2>1, <2>2, <2>3, <2>4
  <1>3. IsFiniteSet(R)
    BY FS_Subset
  <1>4. R \cap Pairs(t, A) = {} /\ R \cap Pairs(t, B) = {}
    BY DEF Pairs
  <1>5. /\ IsFiniteSet(Pairs(t, A)) /\ Cardinality(Pairs(t, A)) = Cardinality(A)
        /\ IsFiniteSet(Pairs(t, B)) /\ Cardinality(Pairs(t, B)) = Cardinality(B)
    BY PairsCount
  <1>6. /\ Cardinality(R) \in Nat /\ Cardinality(A) \in Nat /\ Cardinality(B) \in Nat
    BY <1>3, FS_CardinalityType
  <1>7. Cardinality(R \cap Pairs(t, A)) = 0 /\ Cardinality(R \cap Pairs(t, B)) = 0
    BY <1>4, FS_EmptySet
  <1>8. IsFiniteSet(R \cup Pairs(t, B)) /\ Cardinality(R \cup Pairs(t, B)) = Cardinality(R) + Cardinality(B)
    <2>1. Cardinality(R \cup Pairs(t, B)) = Cardinality(R) + Cardinality(Pairs(t, B)) - Cardinality(R \cap Pairs(t, B))
      BY <1>3, <1>5, FS_Union
    <2>2. IsFiniteSet(R \cup Pairs(t, B))
      BY <1>3, <1>5, FS_Union
    <2> QED BY <1>5, <1>6, <1>7, <2>1, <2>2
  <1>9. Cardinality(R \cup Pairs(t, A)) = Cardinality(R) + Cardinality(A)
    <2>1. Cardinality(R \cup Pairs(t, A)) = Cardinality(R) + Cardinality(Pairs(t, A)) - Cardinality(R \cap Pairs(t, A))
      BY <1>3, <1>5, FS_Union
    <2> QED BY <1>5, <1>6, <1>7, <2>1
  <1> HIDE DEF R, A, B
  <1>10. Cardinality(Out(o)') = Cardinality(R) + Cardinality(B)
    BY <1>2, <1>8
  <1>11. Cardinality(Out(o)) = Cardinality(R) + Cardinality(A)
    BY <1>1, <1>9
  <1>12. IsFiniteSet(Out(o)')
    BY <1>2, <1>8
  <1>13. Cardinality(Out(o)') = Cardinality(Out(o)) - Cardinality(A) + Cardinality(B)
    BY <1>6, <1>10, <1>11
  <1>14. Cardinality(Out(o)) \in Nat
    BY <1>6, <1>11
  <1> QED BY <1>12, <1>13, <1>14 DEF A, B

-----------------------------------------------------------------------------
(* A step of one thread leaves the others' calls alone, except that it may *)
(* wake one that sleeps, and the slots that any composite call lists.      *)

Apart(t) ==
  /\ slotPtr' = slotPtr
  /\ \A s \in Slots : slotKind'[s] = slotKind[s] \/ ~Listed(s)
  /\ \A u \in Threads : u # t =>
       /\ multi'[u] = multi[u]
       /\ op'[u] = op[u] /\ knd'[u] = knd[u] /\ ptr'[u] = ptr[u]
       /\ left'[u] = left[u] /\ ret'[u] = ret[u]
       /\ pc'[u] = pc[u] \/ (pc[u] = "asleep" /\ pc'[u] = "act")

\* No object comes to life; those that stay alive keep their kind.
HeapKept == \A o \in Objs : life'[o] = "live" => life[o] = "live" /\ okind'[o] = okind[o]

\* The others hold their mutexes as before.
LocksKept(t) == \A o \in Objs, u \in Threads : u # t /\ life'[o] = "live" => Held(u, o)' = Held(u, o)

\* What t's step takes or gives is accounted for.
Balance(t) ==
  \A o \in Objs : life'[o] = "live" =>
    /\ okind[o] = "H_MUTEX" /\ Polling(t)' =>
         Held(t, o)' = multi'[t].entry[o] + Cardinality(TakenOn(t, o)')
    /\ okind[o] = "H_SEMAPHORE" =>
         tokens'[o] - count'[o] = tokens[o] - count[o]
                                  + Cardinality(TakenOn(t, o)') - Cardinality(TakenOn(t, o))

(* A step of t changes nothing of what another call has acquired ... *)
LEMMA ApartTaken ==
  ASSUME WaitInv, NEW t \in Threads, Apart(t), NEW u \in Threads, u # t
  PROVE  /\ Taken(u)' = Taken(u) /\ \A o : TakenOn(u, o)' = TakenOn(u, o)
         /\ Polling(u)' <=> Polling(u)
  <1>1. /\ multi'[u] = multi[u] /\ slotPtr' = slotPtr
        /\ knd'[u] = knd[u] /\ left'[u] = left[u] /\ ret'[u] = ret[u]
        /\ pc'[u] = pc[u] \/ (pc[u] = "asleep" /\ pc'[u] = "act")
    BY DEF Apart
  <1>2. Polling(u)' <=> Polling(u)
    BY <1>1 DEF Polling
  <1>3. Polling(u) /\ pc[u] = "asleep" => multi[u].at = "polled"
    BY DEF WaitInv, CallInv, InFlight
  <1>4. Polled(u)' <=> Polled(u)
    BY <1>1 DEF Polled
  <1>5. pc'[u] = pc[u] => (Undoing(u)' <=> Undoing(u))
    BY <1>1 DEF Undoing
  <1>6. TakenPolled(u)' = TakenPolled(u)
    BY <1>1, <1>4 DEF TakenPolled
  <1>7. pc'[u] = pc[u] => TakenUndo(u)' = TakenUndo(u)
    BY <1>1, <1>5 DEF TakenUndo
  <1>8. Given(multi[u])' = Given(multi[u])
    BY <1>1 DEF Given
  <1>9. Taken(u)' = Taken(u)
    BY <1>1, <1>2, <1>3, <1>6, <1>7, <1>8 DEF Taken
  <1>10. ASSUME NEW o PROVE TakenOn(u, o)' = TakenOn(u, o)
    BY <1>1, <1>9 DEF TakenOn
  <1> QED BY <1>2, <1>9, <1>10

(* ... nor what that call knows of its round and of its handles. *)
LEMMA ApartWaits ==
  ASSUME MultiType, WaitInv, NEW t \in Threads, Apart(t), NEW u \in Threads, u # t, Polling(u)
  PROVE  RoundInv(u)' /\ CallInv(u)' /\ OpenInv(u)'
  <1>1. /\ multi'[u] = multi[u] /\ slotPtr' = slotPtr
        /\ op'[u] = op[u] /\ knd'[u] = knd[u] /\ ptr'[u] = ptr[u]
        /\ left'[u] = left[u] /\ ret'[u] = ret[u]
        /\ pc'[u] = pc[u] \/ (pc[u] = "asleep" /\ pc'[u] = "act")
    BY DEF Apart
  <1>2. RoundInv(u) /\ CallInv(u) /\ OpenInv(u)
    BY DEF WaitInv
  <1>3. multi[u] \in WaitFrames
    BY FrameKinds
  <1>4. /\ DOMAIN multi[u].hs = 1 .. Len(multi[u].hs)
        /\ \A k \in 1 .. Len(multi[u].hs) : multi[u].hs[k] \in Slots
        /\ multi[u].i \in Nat /\ Len(multi[u].hs) \in Nat
    BY <1>3, WaitFields, ListFacts
  <1>5. \A k \in 1 .. Len(multi[u].hs) : slotKind'[multi[u].hs[k]] = slotKind[multi[u].hs[k]]
    <2>1. multi[u].fn # "none"
      BY DEF Polling
    <2>2. \A k \in 1 .. Len(multi[u].hs) : Listed(multi[u].hs[k])
      BY <1>4, <2>1 DEF Listed
    <2> QED BY <1>4, <2>2 DEF Apart
  <1>6. RoundInv(u)'
    BY <1>1, <1>2 DEF RoundInv
  <1>7. CallInv(u)'
    <2>1. multi[u].i \in 1 .. Len(multi[u].hs)
      BY <1>2 DEF RoundInv
    <2>2. multi[u].i > 1 => multi[u].i - 1 \in 1 .. Len(multi[u].hs)
      BY <1>4, <2>1
    <2>3. /\ BoundTo(u, multi[u].hs[multi[u].i])' <=> BoundTo(u, multi[u].hs[multi[u].i])
          /\ multi[u].i > 1 => (BoundTo(u, multi[u].hs[multi[u].i - 1])' <=> BoundTo(u, multi[u].hs[multi[u].i - 1]))
      BY <1>1, <1>5, <2>1, <2>2 DEF BoundTo
    <2> QED BY <1>1, <1>2, <2>3 DEF CallInv, InFlight, Busy
  <1>8. OpenInv(u)'
    <2>1. Taken(u)' = Taken(u)
      BY ApartTaken
    <2>2. \A k \in Taken(u) : k \in 1 .. Len(multi[u].hs)
      BY <1>2, TakenFinite
    <2> QED BY <1>1, <1>2, <1>5, <2>1, <2>2 DEF OpenInv
  <1> QED BY <1>6, <1>7, <1>8

(* A step whose effects are accounted for keeps the invariant. *)
LEMMA BalancedStep ==
  ASSUME MInv, NEW t \in Threads, Core', MultiType', KindInv',
         Apart(t), HeapKept, LocksKept(t), Balance(t),
         Polling(t)' => RoundInv(t)' /\ CallInv(t)' /\ OpenInv(t)'
  PROVE  MInv'
  <1>0. MultiType /\ WaitInv /\ KindInv /\ HeldInv /\ TokenInv
    BY DEF MInv, Book
  <1>1. \A u \in Threads : u # t => /\ (Polling(u)' <=> Polling(u)) /\ multi'[u] = multi[u]
                                    /\ \A o : TakenOn(u, o)' = TakenOn(u, o)
    BY <1>0, ApartTaken DEF Apart
  <1>2. WaitInv'
    BY <1>0, <1>1, ApartWaits DEF WaitInv
  <1>3. HeldInv'
    <2> SUFFICES ASSUME NEW u \in Threads, Polling(u)', NEW o \in Objs, life'[o] = "live", okind'[o] = "H_MUTEX"
                 PROVE  Held(u, o)' = multi'[u].entry[o] + Cardinality(TakenOn(u, o)')
      BY DEF HeldInv
    <2>1. life[o] = "live" /\ okind[o] = "H_MUTEX"
      BY DEF HeapKept
    <2>2. CASE u = t
      BY <2>1, <2>2 DEF Balance
    <2>3. CASE u # t
      <3>1. Held(u, o) = multi[u].entry[o] + Cardinality(TakenOn(u, o))
        BY <1>0, <1>1, <2>1, <2>3 DEF HeldInv
      <3>2. Held(u, o)' = Held(u, o)
        BY <2>3 DEF LocksKept
      <3> QED BY <1>1, <2>3, <3>1, <3>2
    <2> QED BY <2>2, <2>3
  <1>4. TokenInv'
    <2> SUFFICES ASSUME NEW o \in Objs
                 PROVE  /\ IsFiniteSet(Out(o)')
                        /\ life'[o] = "live" /\ okind'[o] = "H_SEMAPHORE" =>
                             tokens'[o] = count'[o] + Cardinality(Out(o)')
      BY DEF TokenInv
    <2>1. /\ IsFiniteSet(TakenOn(t, o)) /\ Cardinality(TakenOn(t, o)) \in Nat
          /\ TakenOn(t, o) \subseteq Nat
      BY <1>0, TakenFinite DEF WaitInv, TakenOn
    <2>2. /\ IsFiniteSet(TakenOn(t, o)') /\ Cardinality(TakenOn(t, o)') \in Nat
          /\ TakenOn(t, o)' \subseteq Nat
      <3>1. /\ Taken(t)' \subseteq Nat
            /\ IsFiniteSet(TakenOn(t, o)') /\ Cardinality(TakenOn(t, o)') \in Nat
        BY TakenFiniteAfter
      <3> QED BY <3>1 DEF TakenOn
    <2>3. IsFiniteSet(Out(o))
      BY <1>0 DEF TokenInv
    <2>4. /\ IsFiniteSet(Out(o)') /\ Cardinality(Out(o)) \in Nat
          /\ Cardinality(Out(o)') = Cardinality(Out(o)) - Cardinality(TakenOn(t, o)) + Cardinality(TakenOn(t, o)')
      BY <1>1, <2>1, <2>2, <2>3, OutChanges
    <2>5. ASSUME life'[o] = "live", okind'[o] = "H_SEMAPHORE"
          PROVE  tokens'[o] = count'[o] + Cardinality(Out(o)')
      <3>1. life[o] = "live" /\ okind[o] = "H_SEMAPHORE"
        BY <2>5 DEF HeapKept
      <3>2. tokens[o] = count[o] + Cardinality(Out(o))
        BY <1>0, <3>1 DEF TokenInv
      <3>3. tokens'[o] - count'[o] = tokens[o] - count[o] + Cardinality(TakenOn(t, o)') - Cardinality(TakenOn(t, o))
        BY <2>5, <3>1 DEF Balance
      <3>4. /\ tokens[o] \in Int /\ tokens'[o] \in Int
            /\ count[o] \in Int /\ count'[o] \in Int
        BY <1>0 DEF MultiType, MInv, Core, TypeOK, DataType
      <3> HIDE DEF Out, TakenOn
      <3> QED BY <2>1, <2>2, <2>4, <3>2, <3>3, <3>4
    <2> QED BY <2>4, <2>5
  <1> QED BY <1>2, <1>3, <1>4 DEF MInv, Book

(* So does a step of a thread that is in no composite wait, if it changes  *)
(* the semaphores by what the history records.                             *)
LEMMA AloofStep ==
  ASSUME MInv, NEW t \in Threads, ~Polling(t), ~Polling(t)', Core', MultiType', KindInv',
         Apart(t), HeapKept, LocksKept(t),
         \A o \in Objs : tokens'[o] - count'[o] = tokens[o] - count[o]
  PROVE  MInv'
  <1>1. \A o : TakenOn(t, o) = {} /\ TakenOn(t, o)' = {}
    BY DEF TakenOn, Taken
  <1>2. ASSUME NEW o \in Objs
        PROVE  tokens'[o] - count'[o] = tokens[o] - count[o]
                 + Cardinality(TakenOn(t, o)') - Cardinality(TakenOn(t, o))
    <2>1. Cardinality(TakenOn(t, o)') = 0 /\ Cardinality(TakenOn(t, o)) = 0
      BY <1>1, FS_EmptySet
    <2>2. tokens[o] - count[o] \in Int
      BY DEF MInv, Book, MultiType, Core, TypeOK, DataType
    <2> QED BY <2>1, <2>2
  <1>3. Balance(t)
    BY <1>2 DEF Balance
  <1> QED BY <1>3, BalancedStep

-----------------------------------------------------------------------------
(* The single calls: what a lookup does. *)

(* A failing lookup keeps the invariants of the single calls ... *)
LEMMA FailsCore ==
  ASSUME Core, NEW t \in Threads, pc[t] = "idle", NEW value \in Rets, LookupFails(t, value)
  PROVE  Core'
  <1>1. TypeOK'
    BY FailsTyped DEF Core
  <1>2. WakeInv'
    BY WakeFails DEF Core, Outside
  <1>3. IndInv'
    <2>1. Others(t) /\ pc'[t] = "idle"
      BY OthersLeave DEF Core, LookupFails, Return
    <2>2. Quiet
      BY <2>1 DEF LookupFails, Quiet, Calm, Others, Outside, slotVars, heapVars
    <2> QED BY <2>2, QuietStep DEF Core
  <1> QED BY <1>1, <1>2, <1>3 DEF Core

(* ... and so does one that finds an object. *)
LEMMA LookupCore ==
  ASSUME Core, NEW t \in Threads, pc[t] = "idle", NEW name \in Ops, NEW s \in Slots,
         slotKind[s] \in SyncKinds, LookupRetain(t, name, s),
         inf' \in [Threads -> BOOLEAN], left' \in [Threads -> Nat]
  PROVE  Core'
  <1>1. slotKind[s] # "H_FREE"
    BY DEF SyncKinds
  <1> QED BY <1>1, LookupTyped, LookupStep, WakeLookup DEF Core

(* A failing lookup leaves the objects and the other threads alone ... *)
LEMMA FailsEffect ==
  ASSUME Core, KindInv, NEW t \in Threads, NEW value, LookupFails(t, value),
         \A u \in Threads : u # t => multi'[u] = multi[u]
  PROVE  /\ Apart(t) /\ HeapKept /\ LocksKept(t) /\ KindInv'
         /\ pc'[t] = "idle" /\ ret'[t] = value
         /\ UNCHANGED <<slotKind, slotPtr, life, okind, owner, depth, count>>
  <1>1. /\ pc'[t] = "idle" /\ ret'[t] = value
        /\ \A u \in Threads : u # t => /\ pc'[u] = pc[u] /\ op'[u] = op[u] /\ knd'[u] = knd[u] /\ ptr'[u] = ptr[u]
                                       /\ left'[u] = left[u] /\ ret'[u] = ret[u]
    BY DEF LookupFails, Return, Leave, Goto, Core, TypeOK, FrameType
  <1>2. UNCHANGED <<slotKind, slotPtr, life, okind, owner, depth, count>>
    BY DEF LookupFails, slotVars, heapVars, dataVars
  <1>3. Apart(t)
    BY <1>1, <1>2 DEF Apart
  <1>4. HeapKept /\ LocksKept(t)
    BY <1>2 DEF HeapKept, LocksKept, Held
  <1>5. KindInv'
    BY <1>1, <1>2 DEF KindInv, Busy
  <1> QED BY <1>1, <1>2, <1>3, <1>4, <1>5

(* ... and one that finds an object binds the call to it. *)
LEMMA LookupEffect ==
  ASSUME Core, KindInv, NEW t \in Threads, NEW name, NEW s \in Slots, slotKind[s] \in SyncKinds,
         LookupRetain(t, name, s), \A u \in Threads : u # t => left'[u] = left[u],
         \A u \in Threads : u # t => multi'[u] = multi[u]
  PROVE  /\ Apart(t) /\ HeapKept /\ LocksKept(t) /\ KindInv'
         /\ pc'[t] = "act" /\ op'[t] = name /\ BoundTo(t, s)'
         /\ UNCHANGED <<slotKind, slotPtr, life, okind, owner, depth, count, ret>>
  <1>1. /\ pc'[t] = "act" /\ op'[t] = name /\ ptr'[t] = slotPtr[s] /\ knd'[t] = slotKind[s]
        /\ \A u \in Threads : u # t => /\ pc'[u] = pc[u] /\ op'[u] = op[u] /\ knd'[u] = knd[u] /\ ptr'[u] = ptr[u]
    BY DEF LookupRetain, Goto, Core, TypeOK, FrameType
  <1>2. UNCHANGED <<slotKind, slotPtr, life, okind, owner, depth, count, ret>>
    BY DEF LookupRetain, slotVars, dataVars
  <1>3. Apart(t)
    BY <1>1, <1>2 DEF Apart
  <1>4. HeapKept /\ LocksKept(t)
    BY <1>2 DEF HeapKept, LocksKept, Held
  <1>5. slotKind[s] # "H_FREE"
    BY DEF SyncKinds
  <1>6. KindInv'
    <2>1. slotPtr' \in [Slots -> Objs] /\ \A x \in Slots : slotKind'[x] # "H_FREE" => slotKind'[x] = okind'[slotPtr'[x]]
      BY <1>2 DEF KindInv
    <2>2. \A u \in Threads : pc'[u] \in Busy => knd'[u] = okind'[ptr'[u]]
      BY <1>1, <1>2, <1>5 DEF KindInv
    <2>3. \A u \in Threads : pc'[u] \notin {"alloc", "dup", "dupclose"}
      BY <1>1 DEF KindInv
    <2>4. \A o \in Objs : owner'[o] = NoThread => depth'[o] = 0
      BY <1>2 DEF KindInv
    <2> QED BY <2>1, <2>2, <2>3, <2>4 DEF KindInv
  <1>7. BoundTo(t, s)'
    BY <1>1, <1>2 DEF BoundTo
  <1> QED BY <1>1, <1>2, <1>3, <1>4, <1>6, <1>7

(* A step of a composite call that makes no single call. *)
LEMMA StutterEffect ==
  ASSUME Core, KindInv, NEW t \in Threads, UNCHANGED vars,
         \A u \in Threads : u # t => multi'[u] = multi[u]
  PROVE  /\ Core' /\ Apart(t) /\ HeapKept /\ LocksKept(t) /\ KindInv'
         /\ UNCHANGED <<slotKind, slotPtr, life, okind, owner, depth, count, pc, op, knd, ptr, left, ret>>
  <1>1. /\ UNCHANGED <<slotKind, slotPtr, life, rc, okind, owner, depth, signaled, manual, count>>
        /\ UNCHANGED <<pc, op, hnd, knd, ptr, inf, left, ret>>
    BY DEF vars, slotVars, heapVars, dataVars, frameVars
  <1>2. TypeOK' /\ WakeInv'
    BY TypeStep, WakeStep DEF Core
  <1>3. IndInv'
    BY <1>1, QuietStep DEF Quiet, Calm, Core
  <1>4. Apart(t)
    BY <1>1 DEF Apart
  <1>5. HeapKept /\ LocksKept(t)
    BY <1>1 DEF HeapKept, LocksKept, Held
  <1>6. KindInv'
    BY <1>1 DEF KindInv
  <1> QED BY <1>1, <1>2, <1>3, <1>4, <1>5, <1>6 DEF Core

(* A single call by a thread in no composite wait. *)
LEMMA AloofLookup ==
  ASSUME MInv, NEW t \in Threads, pc[t] = "idle", ~Polling(t), ~Polling(t)', MultiType',
         \A u \in Threads : u # t => multi'[u] = multi[u], tokens' = tokens,
         NEW s \in Slots,
         \/ \E b \in BOOLEAN : WaitForSingleObject(t, s, b)
         \/ \E name \in Ops, kind \in SyncKinds, n \in Nat : SignalCall(t, name, kind, s, n)
  PROVE  MInv'
  <1>0. Core /\ KindInv
    BY DEF MInv, Book
  <1>1. CASE \E value \in Rets : LookupFails(t, value)
    <2>1. Core' /\ Apart(t) /\ HeapKept /\ LocksKept(t) /\ KindInv' /\ count' = count
      BY <1>0, <1>1, FailsCore, FailsEffect
    <2> QED BY <2>1, AloofStep
  <1>2. CASE \E name \in Ops : /\ slotKind[s] \in SyncKinds /\ LookupRetain(t, name, s)
                               /\ inf' \in [Threads -> BOOLEAN] /\ left' \in [Threads -> Nat]
                               /\ \A u \in Threads : u # t => left'[u] = left[u]
    <2>1. Core' /\ Apart(t) /\ HeapKept /\ LocksKept(t) /\ KindInv' /\ count' = count
      BY <1>0, <1>2, LookupCore, LookupEffect
    <2> QED BY <2>1, AloofStep
  <1>3. "WAIT_FAILED" \in Rets /\ "FALSE" \in Rets /\ "WaitForSingleObject" \in Ops
    BY DEF Rets, Ops
  <1>4. inf \in [Threads -> BOOLEAN] /\ left \in [Threads -> Nat]
    BY <1>0 DEF Core, TypeOK, FrameType
  <1>5. CASE \E b \in BOOLEAN : WaitForSingleObject(t, s, b)
    BY <1>1, <1>2, <1>3, <1>4, <1>5 DEF WaitForSingleObject
  <1>6. CASE \E name \in Ops, kind \in SyncKinds, n \in Nat : SignalCall(t, name, kind, s, n)
    <2>1. PICK name \in Ops, kind \in SyncKinds, n \in Nat : SignalCall(t, name, kind, s, n)
      BY <1>6
    <2>2. left' = [left EXCEPT ![t] = n] => left' \in [Threads -> Nat] /\ \A u \in Threads : u # t => left'[u] = left[u]
      BY <1>4
    <2> QED BY <1>1, <1>2, <1>3, <1>4, <2>1, <2>2 DEF SignalCall
  <1> QED BY <1>5, <1>6

-----------------------------------------------------------------------------
(* The steps inside a single call. *)

Step(t) == Progress(t) \/ Deadline(t) \/ Disturbed(t)

\* What such a step does to mutexes.
Locks(t) ==
  \/ UNCHANGED <<owner, depth>>
  \/ /\ owner[ptr[t]] \in {NoThread, t}
     /\ owner' = [owner EXCEPT ![ptr[t]] = t]
     /\ depth' = [depth EXCEPT ![ptr[t]] = @ + 1]
  \/ Unlocked(t, ptr[t])
  \/ Free(ptr[t])

\* What it does to the frames and the heap.
Moved(t) ==
  /\ UNCHANGED <<slotKind, slotPtr>>
  /\ \A u \in Threads : u # t =>
       /\ op'[u] = op[u] /\ knd'[u] = knd[u] /\ ptr'[u] = ptr[u]
       /\ left'[u] = left[u] /\ ret'[u] = ret[u]
       /\ pc'[u] = pc[u] \/ (pc[u] = "asleep" /\ pc'[u] = "act")
  /\ pc'[t] \notin {"alloc", "dup", "dupclose"}
  /\ pc'[t] \in Busy => pc[t] \in Busy /\ knd'[t] = knd[t] /\ ptr'[t] = ptr[t]
  /\ UNCHANGED <<life, okind>> \/ (pc[t] = "destroy" /\ Free(ptr[t]))

(* A step inside a call moves its thread on and locks for it alone. *)
LEMMA StepMoves ==
  ASSUME TypeOK, NEW t \in Threads, pc[t] \notin {"alloc", "dup", "dupclose"}, Step(t)
  PROVE  Moved(t) /\ Locks(t)
<1> USE DEF slotVars, heapVars, dataVars, Acting, Waiting
<1>g. ASSUME NEW where, Goto(t, where), where \in Busy \cup Destroying,
             where \in Busy => pc[t] \in Busy,
             UNCHANGED <<slotKind, slotPtr, op, knd, ptr, left, life, okind>>,
             \A u \in Threads : u # t => ret'[u] = ret[u]
      PROVE  Moved(t)
  <2>1. pc'[t] = where /\ \A u \in Threads : u # t => pc'[u] = pc[u]
    BY <1>g DEF Goto, TypeOK, FrameType
  <2> QED BY <1>g, <2>1 DEF Moved, Busy, Destroying
<1>d. ASSUME NEW value, Done(t, value), pc[t] \in Busy, UNCHANGED <<slotKind, slotPtr, life, okind, left>>
      PROVE  Moved(t)
  <2>1. \A u \in Threads : u # t => ret'[u] = ret[u]
    BY <1>d DEF Done, TypeOK, FrameType
  <2> QED BY <1>d, <1>g, <2>1 DEF Done, Busy
<1>l. ASSUME Leave(t), UNCHANGED <<slotKind, slotPtr, ret>>,
             UNCHANGED <<life, okind>> \/ (pc[t] = "destroy" /\ Free(ptr[t]))
      PROVE  Moved(t)
  <2>1. /\ pc'[t] = "idle"
        /\ \A u \in Threads : u # t => /\ pc'[u] = pc[u] /\ op'[u] = op[u] /\ knd'[u] = knd[u]
                                       /\ ptr'[u] = ptr[u] /\ left'[u] = left[u]
    BY <1>l DEF Leave, Goto, TypeOK, FrameType
  <2> QED BY <1>l, <2>1 DEF Moved, Busy
<1>1. CASE AcquireMutex(t)
  BY <1>1, <1>d DEF AcquireMutex, Busy, Locks
<1>2. CASE AcquireSemaphore(t) \/ SemaphorePosted(t) \/ WaitTimesOut(t) \/ SemaphoreWaitInterrupted(t)
  BY <1>2, <1>d DEF AcquireSemaphore, SemaphorePosted, WaitTimesOut, SemaphoreWaitInterrupted, Busy, Locks
<1>3. CASE AcquireEvent(t) \/ EventTimesOut(t) \/ EventReset(t)
  BY <1>3, <1>d DEF AcquireEvent, TakeEvent, EventTimesOut, EventReset, Busy, Locks
<1>4. CASE MutexUnlock(t)
  BY <1>4, <1>d DEF MutexUnlock, Busy, Locks
<1>5. CASE SleepOnEvent(t) \/ EventDeadline(t) \/ SpuriousWakeup(t)
  BY <1>5, <1>g DEF SleepOnEvent, EventDeadline, SpuriousWakeup, Busy, Locks
<1>6. CASE SemaphorePost(t)
  <2>1. \A u \in Threads : u # t => left'[u] = left[u]
    BY <1>6 DEF SemaphorePost, TypeOK, FrameType
  <2> QED BY <1>6, <2>1 DEF SemaphorePost, Moved, Locks
<1>7. CASE EventSignal(t)
  <2>1. PICK W \in Woken(ptr[t]) :
          pc' = [u \in Threads |-> IF u = t THEN "release" ELSE IF u \in W THEN "act" ELSE pc[u]]
    BY <1>7 DEF EventSignal
  <2>2. \A u \in W : u \in Threads /\ pc[u] = "asleep"
    BY <2>1 DEF Woken, Sleepers
  <2>3. pc'[t] = "release" /\ \A u \in Threads : u # t => pc'[u] = pc[u] \/ (pc[u] = "asleep" /\ pc'[u] = "act")
    BY <2>1, <2>2
  <2>4. \A u \in Threads : u # t => ret'[u] = ret[u]
    BY <1>7 DEF EventSignal, TypeOK, FrameType
  <2> QED BY <1>7, <2>3, <2>4 DEF EventSignal, Moved, Locks, Busy
<1>8. CASE ReleaseRef(t)
  BY <1>8, <1>g, <1>l DEF ReleaseRef, Locks, Busy, Destroying
<1>9. CASE UnlockLast(t)
  BY <1>9, <1>g DEF UnlockLast, Locks, Busy, Destroying
<1>10. CASE SyncObjDestroy(t)
  BY <1>10, <1>l DEF SyncObjDestroy, Locks
<1> QED BY <1>1, <1>2, <1>3, <1>4, <1>5, <1>6, <1>7, <1>8, <1>9, <1>10
        DEF Step, Progress, Deadline, Disturbed, HandleAllocSync, HandleAllocSyncFull,
            DuplicateSlot, DuplicateFull, DuplicateCloses

(* Such a step keeps what the single calls and the other threads rely on. *)
LEMMA StepEffect ==
  ASSUME ~RacyDup, Core, KindInv, NEW t \in Threads, Step(t), UNCHANGED multi
  PROVE  Core' /\ Apart(t) /\ HeapKept /\ LocksKept(t) /\ KindInv'
  <1>1. Moved(t) /\ Locks(t)
    BY StepMoves DEF Core, KindInv
  <1>2. Core'
    <2>1. Next
      BY DEF Step, Next
    <2> QED BY <2>1, TypeStep, IndInvStep, WakeStep DEF Core
  <1>3. Apart(t)
    BY <1>1 DEF Moved, Apart
  <1>4. CASE pc[t] = "destroy" /\ Free(ptr[t])
    <2>1. /\ ptr[t] \in Objs
          /\ \A s \in Slots : slotKind[s] # "H_FREE" => slotPtr[s] # ptr[t]
          /\ \A u \in Threads : pc[u] \in Holding => ptr[u] # ptr[t]
      BY <1>4, DestroyedUnreferenced DEF Core, Destroying
    <2>2. /\ life'[ptr[t]] = "freed"
          /\ \A o \in Objs : o # ptr[t] => life'[o] = life[o] /\ okind'[o] = okind[o]
      BY <1>4, <2>1 DEF Free, Core, TypeOK, HeapType
    <2>3. owner'[ptr[t]] = NoThread /\ depth'[ptr[t]] = 0
      BY <1>4, <2>1 DEF Free, Core, TypeOK, DataType
    <2>4. \A o \in Objs : o # ptr[t] => owner'[o] = owner[o] /\ depth'[o] = depth[o]
      BY <1>4, <2>1 DEF Free, Core, TypeOK, DataType
    <2>5. HeapKept
      BY <2>2 DEF HeapKept
    <2>6. LocksKept(t)
      BY <2>2, <2>4 DEF LocksKept, Held
    <2>7. Busy \subseteq Holding
      BY DEF Busy, Holding
    <2>8. \A s \in Slots : slotKind'[s] # "H_FREE" => slotKind'[s] = okind'[slotPtr'[s]]
      BY <1>1, <2>1, <2>2 DEF Moved, KindInv
    <2>9. \A u \in Threads : pc'[u] \in Busy => pc[u] \in Busy /\ knd'[u] = knd[u] /\ ptr'[u] = ptr[u]
      BY <1>1 DEF Moved, Busy
    <2>10. \A u \in Threads : pc[u] \in Busy => ptr[u] \in Objs /\ ptr[u] # ptr[t]
      BY <2>1, <2>7 DEF Core, IndInv, NoUseAfterFree
    <2>11. \A u \in Threads : pc'[u] \in Busy => knd'[u] = okind'[ptr'[u]]
      BY <2>2, <2>9, <2>10 DEF KindInv
    <2>12. \A u \in Threads : pc'[u] \notin {"alloc", "dup", "dupclose"}
      BY <1>1 DEF Moved, KindInv
    <2>13. \A o \in Objs : owner'[o] = NoThread => depth'[o] = 0
      BY <2>3, <2>4 DEF KindInv
    <2>14. KindInv'
      BY <1>1, <2>8, <2>11, <2>12, <2>13 DEF KindInv, Moved
    <2> QED BY <1>2, <1>3, <2>5, <2>6, <2>14
  <1>5. CASE ~(pc[t] = "destroy" /\ Free(ptr[t]))
    <2>1. UNCHANGED <<life, okind, slotKind, slotPtr>>
      BY <1>1, <1>5 DEF Moved
    <2>2. HeapKept
      BY <2>1 DEF HeapKept
    <2>3. \A u \in Threads : pc'[u] \in Busy => pc[u] \in Busy /\ knd'[u] = knd[u] /\ ptr'[u] = ptr[u]
      BY <1>1 DEF Moved, Busy
    <2>4. LocksKept(t) /\ \A o \in Objs : owner'[o] = NoThread => depth'[o] = 0
      <3>0. /\ owner \in [Objs -> Threads \cup {NoThread}] /\ depth \in [Objs -> Nat]
            /\ \A o \in Objs : owner[o] # NoThread => depth[o] > 0
            /\ \A o \in Objs : owner[o] = NoThread => depth[o] = 0
            /\ NoThread \notin Threads
        BY ThreadsAssumption DEF Core, TypeOK, DataType, KindInv
      <3>1. CASE UNCHANGED <<owner, depth>>
        BY <3>0, <3>1 DEF LocksKept, Held
      <3>2. CASE /\ owner[ptr[t]] \in {NoThread, t}
                 /\ owner' = [owner EXCEPT ![ptr[t]] = t]
                 /\ depth' = [depth EXCEPT ![ptr[t]] = @ + 1]
        BY <3>0, <3>2 DEF LocksKept, Held
      <3>3. CASE Unlocked(t, ptr[t])
        BY <3>0, <3>3 DEF LocksKept, Held, Unlocked
      <3>4. CASE Free(ptr[t])
        <4>1. \A o \in Objs : o # ptr[t] => owner'[o] = owner[o] /\ depth'[o] = depth[o]
          BY <3>0, <3>4 DEF Free
        <4>2. ptr[t] \in Objs => owner'[ptr[t]] = NoThread /\ depth'[ptr[t]] = 0 /\ life'[ptr[t]] = "freed"
          BY <3>0, <3>4 DEF Free, Core, TypeOK, HeapType
        <4> QED BY <3>0, <4>1, <4>2 DEF LocksKept, Held
      <3> QED BY <1>1, <3>1, <3>2, <3>3, <3>4 DEF Locks
    <2>5. \A u \in Threads : pc'[u] \notin {"alloc", "dup", "dupclose"}
      BY <1>1 DEF Moved, KindInv
    <2>6. KindInv'
      BY <2>1, <2>3, <2>4, <2>5 DEF KindInv
    <2> QED BY <1>2, <1>3, <2>2, <2>4, <2>6
  <1> QED BY <1>4, <1>5

(* Acquiring one more position, or giving one back. *)
LEMMA TakeCount ==
  ASSUME NEW t, NEW k, UNCHANGED <<multi, slotPtr>>, \A o : IsFiniteSet(TakenOn(t, o)),
         Taken(t)' = Taken(t) \cup {k}, k \notin Taken(t)
  PROVE  \A o : Cardinality(TakenOn(t, o)')
                  = Cardinality(TakenOn(t, o)) + IF o = slotPtr[multi[t].hs[k]] THEN 1 ELSE 0
  <1> TAKE o
  <1>1. CASE o = slotPtr[multi[t].hs[k]]
    <2>1. TakenOn(t, o)' = TakenOn(t, o) \cup {k} /\ k \notin TakenOn(t, o)
      BY <1>1 DEF TakenOn
    <2> QED BY <1>1, <2>1, FS_AddElement
  <1>2. CASE o # slotPtr[multi[t].hs[k]]
    <2>1. TakenOn(t, o)' = TakenOn(t, o)
      BY <1>2 DEF TakenOn
    <2>2. Cardinality(TakenOn(t, o)) \in Nat
      BY FS_CardinalityType
    <2> QED BY <1>2, <2>1, <2>2
  <1> QED BY <1>1, <1>2

(* The same for a position that is given back. *)
LEMMA GiveCount ==
  ASSUME NEW t, NEW k, UNCHANGED <<multi, slotPtr>>, \A o : IsFiniteSet(TakenOn(t, o)),
         Taken(t)' = Taken(t) \ {k}, k \in Taken(t)
  PROVE  \A o : Cardinality(TakenOn(t, o)')
                  = Cardinality(TakenOn(t, o)) - IF o = slotPtr[multi[t].hs[k]] THEN 1 ELSE 0
  <1> TAKE o
  <1>1. CASE o = slotPtr[multi[t].hs[k]]
    <2>1. TakenOn(t, o)' = TakenOn(t, o) \ {k} /\ k \in TakenOn(t, o)
      BY <1>1 DEF TakenOn
    <2>2. Cardinality(TakenOn(t, o) \ {k}) = Cardinality(TakenOn(t, o)) - 1
      BY <2>1, FS_RemoveElement
    <2> QED BY <1>1, <2>1, <2>2
  <1>2. CASE o # slotPtr[multi[t].hs[k]]
    <2>1. TakenOn(t, o)' = TakenOn(t, o)
      BY <1>2 DEF TakenOn
    <2>2. Cardinality(TakenOn(t, o)) \in Nat
      BY FS_CardinalityType
    <2> QED BY <1>2, <2>1, <2>2
  <1> QED BY <1>1, <1>2

(* A call through an open slot does not drop the object's last reference. *)
LEMMA NotLast ==
  ASSUME Core, NEW t \in Threads, pc[t] \in Holding, NEW s \in Slots, BoundTo(t, s)
  PROVE  ~LastRef(t)
  <1>1. ptr[t] \in Objs /\ life[ptr[t]] = "live"
    BY DEF Core, IndInv, NoUseAfterFree
  <1>2. rc[ptr[t]] = Cardinality(SlotRefs(ptr[t])) + Cardinality(FrameRefs(ptr[t]))
    BY <1>1 DEF Core, IndInv, RefCountExact
  <1>3. s \in SlotRefs(ptr[t]) /\ t \in FrameRefs(ptr[t])
    BY DEF BoundTo, SyncKinds, SlotRefs, FrameRefs
  <1>4. Cardinality(SlotRefs(ptr[t])) >= 1 /\ Cardinality(FrameRefs(ptr[t])) >= 1
    BY <1>1, <1>3, RefsFinite, MemberCounts
  <1> QED BY <1>1, <1>2, <1>4, RefsFinite DEF LastRef

\* The call goes on with the same object, or is over.
Stays(t) == pc'[t] # "idle" => /\ pc'[t] \in Busy /\ op'[t] = op[t]
                               /\ knd'[t] = knd[t] /\ ptr'[t] = ptr[t]

\* What a step takes from, or gives to, the object of the call.
Gains(t, n) ==
  \A o \in Objs :
    /\ okind[o] = "H_MUTEX" => Held(t, o)' = Held(t, o) + IF o = ptr[t] THEN n ELSE 0
    /\ okind[o] = "H_SEMAPHORE" => count'[o] = count[o] - IF o = ptr[t] THEN n ELSE 0

(* A step that leaves the contents of the objects alone acquires nothing. *)
LEMMA NoGain ==
  ASSUME TypeOK, NEW t, UNCHANGED <<owner, depth, count>>
  PROVE  Gains(t, 0)
  <1>1. \A o \in Objs : count[o] \in Int /\ Held(t, o) \in Int /\ Held(t, o)' = Held(t, o)
    BY DEF TypeOK, DataType, Held
  <1> QED BY <1>1 DEF Gains

(* One step of a poll: nothing changes hands, or its object does. *)
LEMMA PollStep ==
  ASSUME Core, KindInv, NEW t \in Threads, Step(t), pc[t] \in Busy,
         op[t] = "WaitForSingleObject", NEW s \in Slots, BoundTo(t, s)
  PROVE  /\ Stays(t)
         /\ \/ (Polled(t)' <=> Polled(t)) /\ Gains(t, 0)
            \/ ~Polled(t) /\ Polled(t)' /\ Gains(t, 1)
<1> USE DEF Acting, Waiting, slotVars, heapVars, dataVars
<1>0. /\ TypeOK /\ knd[t] = okind[ptr[t]] /\ pc[t] \in Holding
  BY DEF Core, KindInv, Busy, Holding
<1>e. PICK e \in Objs : e = ptr[t]
  BY <1>0 DEF Core, IndInv, NoUseAfterFree
<1>d. ASSUME NEW value, Done(t, value)
      PROVE  Stays(t) /\ pc'[t] = "release" /\ ret'[t] = value
  BY <1>0, <1>d DEF Done, Goto, Stays, Busy, TypeOK, FrameType
<1>g. ASSUME NEW where \in {"act", "asleep", "timedout"}, Goto(t, where), UNCHANGED <<op, knd, ptr>>
      PROVE  Stays(t) /\ pc'[t] = where
  BY <1>0, <1>g DEF Goto, Stays, Busy, TypeOK, FrameType
<1>1. CASE AcquireMutex(t)
  <2>1. Stays(t) /\ ~Polled(t) /\ Polled(t)'
    BY <1>1, <1>d DEF AcquireMutex, Polled
  <2>2. okind[e] = "H_MUTEX" /\ owner[e] \in {NoThread, t} /\ count' = count
    BY <1>0, <1>e, <1>1 DEF AcquireMutex
  <2>3. /\ owner'[e] = t /\ depth'[e] = depth[e] + 1
        /\ \A o \in Objs : o # e => owner'[o] = owner[o] /\ depth'[o] = depth[o]
    BY <1>0, <1>e, <1>1 DEF AcquireMutex, TypeOK, DataType
  <2>4. Held(t, e)' = Held(t, e) + 1
    BY <1>0, <1>e, <2>2, <2>3, ThreadsAssumption DEF Held, KindInv, TypeOK, DataType
  <2>5. \A o \in Objs : o # e => Held(t, o)' = Held(t, o) + 0
    BY <1>0, <2>3 DEF Held, TypeOK, DataType
  <2>6. \A o \in Objs : okind[o] = "H_SEMAPHORE" => o # e
    BY <2>2
  <2>7. \A o \in Objs : count'[o] = count[o] - 0
    BY <1>0, <2>2 DEF TypeOK, DataType
  <2>8. Gains(t, 1)
    BY <1>e, <2>4, <2>5, <2>6, <2>7 DEF Gains
  <2> QED BY <2>1, <2>8
<1>2. CASE AcquireSemaphore(t)
  <2>1. Stays(t) /\ ~Polled(t) /\ Polled(t)'
    BY <1>2, <1>d DEF AcquireSemaphore, Polled
  <2>2. okind[e] = "H_SEMAPHORE" /\ UNCHANGED <<owner, depth>>
    BY <1>0, <1>e, <1>2 DEF AcquireSemaphore
  <2>3. count'[e] = count[e] - 1 /\ \A o \in Objs : o # e => count'[o] = count[o] - 0
    BY <1>0, <1>e, <1>2 DEF AcquireSemaphore, TypeOK, DataType
  <2>4. \A o \in Objs : okind[o] = "H_MUTEX" => o # e
    BY <2>2
  <2>5. \A o \in Objs : Held(t, o)' = Held(t, o) + 0
    BY <1>0, <2>2 DEF Held, TypeOK, DataType
  <2>6. Gains(t, 1)
    BY <1>e, <2>3, <2>4, <2>5 DEF Gains
  <2> QED BY <2>1, <2>6
<1>3. CASE AcquireEvent(t)
  <2>1. /\ Stays(t) /\ ~Polled(t) /\ Polled(t)' /\ UNCHANGED <<owner, depth, count>>
    BY <1>3, <1>d DEF AcquireEvent, TakeEvent, Polled
  <2>2. knd[t] = "H_EVENT"
    BY <1>3 DEF AcquireEvent, Core, WakeInv, EventWait
  <2>3. \A o \in Objs : okind[o] \in {"H_MUTEX", "H_SEMAPHORE"} => o # ptr[t]
    BY <1>0, <2>2
  <2>4. \A o \in Objs : Held(t, o)' = Held(t, o) + 0 /\ count'[o] = count[o] - 0
    BY <1>0, <2>1 DEF Held, TypeOK, DataType
  <2>5. Gains(t, 1)
    BY <2>3, <2>4 DEF Gains
  <2> QED BY <2>1, <2>5
<1>4. CASE SleepOnEvent(t) \/ EventDeadline(t) \/ SpuriousWakeup(t)
  <2>1. /\ Stays(t) /\ ~Polled(t) /\ ~Polled(t)' /\ UNCHANGED <<owner, depth, count>>
    BY <1>4, <1>g DEF SleepOnEvent, EventDeadline, SpuriousWakeup, Polled
  <2> QED BY <1>0, <2>1, NoGain
<1>5. CASE EventTimesOut(t) \/ WaitTimesOut(t) \/ SemaphoreWaitInterrupted(t)
  <2>1. /\ Stays(t) /\ ~Polled(t) /\ ~Polled(t)' /\ UNCHANGED <<owner, depth, count>>
    BY <1>5, <1>d DEF EventTimesOut, WaitTimesOut, SemaphoreWaitInterrupted, Polled
  <2> QED BY <1>0, <2>1, NoGain
<1>6. CASE ReleaseRef(t)
  <2>1. Leave(t)
    BY <1>0, <1>6, NotLast DEF ReleaseRef
  <2>2. pc[t] = "release" /\ pc'[t] = "idle" /\ UNCHANGED <<owner, depth, count, ret>>
    BY <1>0, <1>6, <2>1 DEF ReleaseRef, Leave, Goto, TypeOK, FrameType
  <2>3. Stays(t) /\ (Polled(t)' <=> Polled(t))
    BY <2>2 DEF Stays, Polled
  <2> QED BY <1>0, <2>2, <2>3, NoGain
<1> QED BY <1>1, <1>2, <1>3, <1>4, <1>5, <1>6
        DEF Step, Progress, Deadline, Disturbed, Busy, HandleAllocSync, HandleAllocSyncFull,
            EventSignal, EventReset, MutexUnlock, SemaphorePost, SemaphorePosted, UnlockLast, SyncObjDestroy,
            DuplicateSlot, DuplicateFull, DuplicateCloses

(* One step of undo_wait_acquire: nothing changes hands, or its object is  *)
(* given back, if it is a mutex to the thread that owns it.                *)
LEMMA UndoStep ==
  ASSUME Core, KindInv, NEW t \in Threads, Step(t), pc[t] \in {"act", "release"},
         op[t] = "undo_wait_acquire", left[t] <= 1, NEW s \in Slots, BoundTo(t, s),
         Undoing(t) /\ okind[ptr[t]] = "H_MUTEX" => owner[ptr[t]] = t
  PROVE  /\ Stays(t) /\ (pc'[t] # "idle" => pc'[t] \in {"act", "release"} /\ left'[t] <= 1)
         /\ \/ (Undoing(t)' <=> Undoing(t)) /\ Gains(t, 0)
            \/ Undoing(t) /\ ~Undoing(t)' /\ Gains(t, -1)
<1> USE DEF Acting, Waiting, slotVars, heapVars, dataVars
<1>0. /\ TypeOK /\ knd[t] = okind[ptr[t]] /\ pc[t] \in Holding
  BY DEF Core, KindInv, Busy, Holding
<1>e. PICK e \in Objs : e = ptr[t]
  BY <1>0 DEF Core, IndInv, NoUseAfterFree
<1>d. ASSUME NEW value, Done(t, value), left' = left
      PROVE  /\ Stays(t) /\ pc'[t] = "release" /\ left'[t] <= 1
             /\ ~Undoing(t)'
  BY <1>0, <1>d DEF Done, Goto, Stays, Busy, Undoing, TypeOK, FrameType
<1>1. CASE MutexUnlock(t)
  <2>1. /\ Stays(t) /\ pc'[t] = "release" /\ left'[t] <= 1 /\ ~Undoing(t)'
    BY <1>1, <1>d DEF MutexUnlock
  <2>2. /\ knd[t] = "H_MUTEX" /\ okind[e] = "H_MUTEX" /\ pc[t] = "act"
    BY <1>0, <1>e, <1>1 DEF MutexUnlock
  <2>3. Undoing(t) /\ owner[e] = t
    BY <1>e, <2>2 DEF Undoing
  <2>4. depth' = [depth EXCEPT ![e] = @ - 1] /\ owner' = [owner EXCEPT ![e] = IF depth[e] = 1 THEN NoThread ELSE t]
    BY <1>e, <1>1, <2>3 DEF MutexUnlock, Unlocked
  <2>5. depth[e] \in Nat /\ depth[e] > 0
    BY <1>0, <2>3, ThreadsAssumption DEF TypeOK, DataType
  <2>6. Held(t, e)' = Held(t, e) + (-1)
    BY <1>0, <2>3, <2>4, <2>5, ThreadsAssumption DEF Held, TypeOK, DataType
  <2>7. \A o \in Objs : o # e => Held(t, o)' = Held(t, o) + 0
    BY <1>0, <2>4 DEF Held, TypeOK, DataType
  <2>8. \A o \in Objs : okind[o] = "H_SEMAPHORE" => o # e
    BY <2>2
  <2>9. \A o \in Objs : count'[o] = count[o] - 0
    BY <1>0, <1>1 DEF MutexUnlock, TypeOK, DataType
  <2>10. Gains(t, -1)
    BY <1>e, <2>6, <2>7, <2>8, <2>9 DEF Gains
  <2> QED BY <2>1, <2>3, <2>10
<1>2. CASE SemaphorePost(t)
  <2>1. /\ pc' = pc /\ op' = op /\ knd' = knd /\ ptr' = ptr /\ owner' = owner /\ depth' = depth
        /\ pc[t] = "act" /\ knd[t] = "H_SEMAPHORE" /\ okind[e] = "H_SEMAPHORE"
        /\ left[t] > 0 /\ left' = [left EXCEPT ![t] = @ - 1] /\ count' = [count EXCEPT ![e] = @ + 1]
    BY <1>0, <1>e, <1>2 DEF SemaphorePost
  <2>2. left[t] = 1 /\ left'[t] = 0
    BY <1>0, <2>1 DEF TypeOK, FrameType
  <2>3. Stays(t) /\ Undoing(t) /\ ~Undoing(t)' /\ left'[t] <= 1
    BY <2>1, <2>2 DEF Stays, Undoing, Busy
  <2>4. /\ count'[e] = count[e] - (-1)
        /\ \A o \in Objs : o # e => count'[o] = count[o] - 0
    BY <1>0, <2>1 DEF TypeOK, DataType
  <2>5. \A o \in Objs : okind[o] = "H_MUTEX" => o # e
    BY <2>1
  <2>6. \A o \in Objs : Held(t, o)' = Held(t, o) + 0
    BY <1>0, <2>1 DEF Held, TypeOK, DataType
  <2>7. Gains(t, -1)
    BY <1>e, <2>4, <2>5, <2>6 DEF Gains
  <2> QED BY <2>1, <2>3, <2>7
<1>3. CASE SemaphorePosted(t)
  <2>1. /\ Stays(t) /\ pc'[t] = "release" /\ left'[t] <= 1 /\ ~Undoing(t)' /\ UNCHANGED <<owner, depth, count>>
    BY <1>3, <1>d DEF SemaphorePosted
  <2>2. ~Undoing(t)
    BY <1>3 DEF SemaphorePosted, Undoing
  <2> QED BY <1>0, <2>1, <2>2, NoGain
<1>4. CASE EventSignal(t)
  <2>1. /\ op' = op /\ knd' = knd /\ ptr' = ptr /\ left' = left /\ UNCHANGED <<owner, depth, count>>
        /\ pc'[t] = "release" /\ pc[t] = "act" /\ knd[t] = "H_EVENT"
    BY <1>4 DEF EventSignal
  <2>2. Stays(t) /\ Undoing(t) /\ ~Undoing(t)'
    BY <2>1 DEF Stays, Undoing, Busy
  <2>3. \A o \in Objs : okind[o] \in {"H_MUTEX", "H_SEMAPHORE"} => o # e
    BY <1>0, <1>e, <2>1
  <2>4. \A o \in Objs : Held(t, o)' = Held(t, o) + 0 /\ count'[o] = count[o] - 0
    BY <1>0, <2>1 DEF Held, TypeOK, DataType
  <2>5. Gains(t, -1)
    BY <1>e, <2>3, <2>4 DEF Gains
  <2> QED BY <2>1, <2>2, <2>5
<1>5. CASE ReleaseRef(t)
  <2>1. Leave(t)
    BY <1>0, <1>5, NotLast DEF ReleaseRef
  <2>2. pc[t] = "release" /\ pc'[t] = "idle" /\ UNCHANGED <<owner, depth, count>>
    BY <1>0, <1>5, <2>1 DEF ReleaseRef, Leave, Goto, TypeOK, FrameType
  <2>3. Stays(t) /\ (Undoing(t)' <=> Undoing(t))
    BY <2>2 DEF Stays, Undoing
  <2> QED BY <1>0, <2>2, <2>3, NoGain
<1>6. pc[t] \notin {"asleep", "timedout"}
  OBVIOUS
<1> QED BY <1>1, <1>2, <1>3, <1>4, <1>5, <1>6
        DEF Step, Progress, Deadline, Disturbed, HandleAllocSync, HandleAllocSyncFull,
            AcquireMutex, AcquireSemaphore, AcquireEvent, SleepOnEvent, EventTimesOut, WaitTimesOut,
            EventDeadline, SpuriousWakeup, SemaphoreWaitInterrupted,
            EventReset, UnlockLast, SyncObjDestroy, DuplicateSlot, DuplicateFull, DuplicateCloses

(* What changes hands in a step of t is what t's positions account for. *)
LEMMA GainBalance ==
  ASSUME MInv, NEW t \in Threads, Polling(t), UNCHANGED <<multi, tokens>>, HeapKept, NEW n \in Int, Gains(t, n),
         \A o \in Objs : Cardinality(TakenOn(t, o)')
                           = Cardinality(TakenOn(t, o)) + IF o = ptr[t] THEN n ELSE 0
  PROVE  Balance(t)
  <1>0. /\ tokens \in [Objs -> Int] /\ count \in [Objs -> Nat]
        /\ \A o \in Objs : Cardinality(TakenOn(t, o)) \in Nat
    BY TakenFinite DEF MInv, Book, MultiType, WaitInv, Core, TypeOK, DataType
  <1>1. \A o \in Objs : multi[t].entry[o] \in Nat
    BY FrameKinds, WaitFields DEF MInv, Book
  <1> SUFFICES ASSUME NEW o \in Objs, life'[o] = "live"
               PROVE  /\ okind[o] = "H_MUTEX" =>
                           Held(t, o)' = multi'[t].entry[o] + Cardinality(TakenOn(t, o)')
                      /\ okind[o] = "H_SEMAPHORE" =>
                           tokens'[o] - count'[o] = tokens[o] - count[o]
                             + Cardinality(TakenOn(t, o)') - Cardinality(TakenOn(t, o))
    BY DEF Balance
  <1> DEFINE d == IF o = ptr[t] THEN n ELSE 0
  <1>2. d \in Int /\ Cardinality(TakenOn(t, o)') = Cardinality(TakenOn(t, o)) + d
    OBVIOUS
  <1>3. /\ okind[o] = "H_MUTEX" => Held(t, o)' = Held(t, o) + d
        /\ okind[o] = "H_SEMAPHORE" => count'[o] = count[o] - d
    BY DEF Gains
  <1> HIDE DEF d
  <1>4. okind[o] = "H_MUTEX" => Held(t, o) = multi[t].entry[o] + Cardinality(TakenOn(t, o))
    BY DEF HeapKept, MInv, HeldInv
  <1>5. okind[o] = "H_MUTEX" => Held(t, o)' = multi'[t].entry[o] + Cardinality(TakenOn(t, o)')
    <2>1. CASE okind[o] # "H_MUTEX"
      BY <2>1
    <2>2. CASE okind[o] = "H_MUTEX"
      BY <1>0, <1>1, <1>2, <1>3, <1>4, <2>2
    <2> QED BY <2>1, <2>2
  <1>6. okind[o] = "H_SEMAPHORE" => tokens'[o] - count'[o] = tokens[o] - count[o]
                             + Cardinality(TakenOn(t, o)') - Cardinality(TakenOn(t, o))
    <2>1. CASE okind[o] # "H_SEMAPHORE"
      BY <2>1
    <2>2. CASE okind[o] = "H_SEMAPHORE"
      BY <1>0, <1>2, <1>3, <2>2
    <2> QED BY <2>1, <2>2
  <1> QED BY <1>5, <1>6

(* A step of a poll or of a roll-back keeps the invariant. *)
LEMMA WaitStep ==
  ASSUME ~RacyDup, MInv, NEW t \in Threads, Polling(t), Step(t), UNCHANGED <<multi, tokens>>
  PROVE  MInv'
  <1>0. Core /\ MultiType /\ WaitInv /\ KindInv /\ HeldInv
    BY DEF MInv, Book
  <1>1. Core' /\ Apart(t) /\ HeapKept /\ LocksKept(t) /\ KindInv'
    BY <1>0, StepEffect
  <1>2. UNCHANGED <<slotKind, slotPtr>>
    BY <1>0, StepMoves DEF Core, KindInv, Moved
  <1>3. pc[t] # "idle"
    BY DEF Step, Progress, Deadline, Disturbed, HandleAllocSync, HandleAllocSyncFull, AcquireMutex,
           AcquireSemaphore, AcquireEvent, SleepOnEvent, EventTimesOut, WaitTimesOut, EventDeadline,
           SpuriousWakeup, SemaphoreWaitInterrupted, EventSignal, EventReset, MutexUnlock,
           SemaphorePost, SemaphorePosted, ReleaseRef, UnlockLast, SyncObjDestroy,
           DuplicateSlot, DuplicateFull, DuplicateCloses, Acting, Waiting
  <1>4. RoundInv(t) /\ CallInv(t) /\ OpenInv(t) /\ pc[t] \in Busy /\ InFlight(t)
    BY <1>0, <1>3 DEF WaitInv, CallInv
  <1>5. /\ multi[t].i \in Nat /\ multi[t].n_acq \in Nat /\ Len(multi[t].hs) \in Nat
        /\ \A k \in 1 .. Len(multi[t].hs) : multi[t].hs[k] \in Slots
    BY <1>0, FrameKinds, WaitFields, ListFacts
  <1>6. multi[t].i \in 1 .. Len(multi[t].hs)
    BY <1>4 DEF RoundInv
  <1>7. MultiType' /\ Polling(t)' /\ RoundInv(t)'
    BY <1>0, <1>4 DEF MultiType, Polling, RoundInv
  <1>8. \A o : IsFiniteSet(TakenOn(t, o)) /\ Cardinality(TakenOn(t, o)) \in Nat
    BY <1>0, <1>4, TakenFinite
  <1>s. ASSUME Taken(t)' = Taken(t), Gains(t, 0) PROVE Balance(t)
    <2>1. \A o : TakenOn(t, o)' = TakenOn(t, o)
      BY <1>s, <1>2 DEF TakenOn
    <2>2. \A o \in Objs : Cardinality(TakenOn(t, o)')
                           = Cardinality(TakenOn(t, o)) + IF o = ptr[t] THEN 0 ELSE 0
      BY <1>8, <2>1
    <2> QED BY <1>1, <1>s, <2>2, GainBalance
  <1>9. CASE multi[t].at = "polled"
    <2>1. op[t] = "WaitForSingleObject" /\ BoundTo(t, multi[t].hs[multi[t].i])
      BY <1>4, <1>9 DEF InFlight
    <2>2. PICK s \in Slots : s = multi[t].hs[multi[t].i]
      BY <1>5, <1>6
    <2>3. /\ Stays(t)
          /\ \/ (Polled(t)' <=> Polled(t)) /\ Gains(t, 0)
             \/ ~Polled(t) /\ Polled(t)' /\ Gains(t, 1)
      BY <1>0, <1>4, <2>1, <2>2, PollStep
    <2>4. CallInv(t)'
      <3>1. pc'[t] # "idle" => BoundTo(t, s)'
        BY <1>2, <2>1, <2>2, <2>3 DEF BoundTo, Stays
      <3>2. pc'[t] # "idle" => InFlight(t)' /\ pc'[t] \in Busy
        BY <1>9, <2>1, <2>2, <2>3, <3>1 DEF InFlight, Stays
      <3> QED BY <3>2 DEF CallInv
    <2>5. Taken(t) = TakenPolled(t) /\ Taken(t)' = TakenPolled(t)'
      BY <1>7, <1>9 DEF Taken
    <2>6. CASE (Polled(t)' <=> Polled(t)) /\ Gains(t, 0)
      <3>1. Taken(t)' = Taken(t)
        BY <2>5, <2>6 DEF TakenPolled
      <3>2. OpenInv(t)'
        BY <1>2, <1>4, <3>1 DEF OpenInv
      <3> QED BY <1>1, <1>7, <1>s, <2>4, <2>6, <3>1, <3>2, BalancedStep
    <2>7. CASE ~Polled(t) /\ Polled(t)' /\ Gains(t, 1)
      <3>1. PICK k \in Nat : k = multi[t].i
        BY <1>5
      <3>2. Taken(t)' = Taken(t) \cup {k} /\ k \notin Taken(t)
        BY <2>5, <2>7, <3>1 DEF TakenPolled
      <3>3. slotPtr[multi[t].hs[k]] = ptr[t] /\ slotKind[multi[t].hs[k]] # "H_FREE"
        BY <2>1, <3>1 DEF BoundTo, SyncKinds
      <3>4. OpenInv(t)'
        BY <1>2, <1>4, <3>2, <3>3 DEF OpenInv
      <3>5. \A o \in Objs : Cardinality(TakenOn(t, o)')
                             = Cardinality(TakenOn(t, o)) + IF o = ptr[t] THEN 1 ELSE 0
        BY <1>2, <1>8, <3>2, <3>3, TakeCount
      <3>6. Balance(t)
        BY <1>1, <2>7, <3>5, GainBalance
      <3> QED BY <1>1, <1>7, <2>4, <3>4, <3>6, BalancedStep
    <2> QED BY <2>3, <2>6, <2>7
  <1>10. CASE multi[t].at = "undo"
    <2>1. /\ op[t] = "undo_wait_acquire" /\ pc[t] \in {"act", "release"} /\ left[t] <= 1
          /\ multi[t].i > 1 /\ BoundTo(t, multi[t].hs[multi[t].i - 1])
      BY <1>4, <1>10 DEF InFlight
    <2>2. PICK k \in 1 .. Len(multi[t].hs) : k = multi[t].i - 1
      <3>1. multi[t].i - 1 \in 1 .. Len(multi[t].hs)
        BY <1>5, <1>6, <2>1
      <3> QED BY <3>1
    <2>3. PICK s \in Slots : s = multi[t].hs[k]
      BY <1>5
    <2>4. BoundTo(t, s)
      BY <2>1, <2>2, <2>3
    <2>5. slotPtr[s] = ptr[t] /\ slotKind[s] # "H_FREE"
      BY <2>4 DEF BoundTo, SyncKinds
    <2>6. Taken(t) = TakenUndo(t) /\ Taken(t)' = TakenUndo(t)'
      BY <1>7, <1>10 DEF Taken
    <2>7. Undoing(t) /\ okind[ptr[t]] = "H_MUTEX" => owner[ptr[t]] = t
      <3> SUFFICES ASSUME Undoing(t), okind[ptr[t]] = "H_MUTEX" PROVE owner[ptr[t]] = t
        OBVIOUS
      <3>1. ptr[t] \in Objs /\ life[ptr[t]] = "live"
        BY <1>0, <2>1 DEF Core, IndInv, NoUseAfterFree, Holding
      <3>2. k \in TakenOn(t, ptr[t])
        BY <2>2, <2>3, <2>5, <2>6 DEF TakenUndo, TakenOn
      <3>3. Cardinality(TakenOn(t, ptr[t])) >= 1
        BY <1>8, <3>2, MemberCounts
      <3>4. Held(t, ptr[t]) = multi[t].entry[ptr[t]] + Cardinality(TakenOn(t, ptr[t]))
        BY <1>0, <3>1 DEF HeldInv
      <3>5. multi[t].entry[ptr[t]] \in Nat
        BY <1>0, <3>1, FrameKinds, WaitFields
      <3>6. Held(t, ptr[t]) # 0
        BY <1>8, <3>3, <3>4, <3>5
      <3> QED BY <3>6 DEF Held
    <2>8. /\ Stays(t) /\ (pc'[t] # "idle" => pc'[t] \in {"act", "release"} /\ left'[t] <= 1)
          /\ \/ (Undoing(t)' <=> Undoing(t)) /\ Gains(t, 0)
             \/ Undoing(t) /\ ~Undoing(t)' /\ Gains(t, -1)
      BY <1>0, <2>1, <2>4, <2>7, UndoStep
    <2>9. CallInv(t)'
      <3>1. pc'[t] # "idle" => BoundTo(t, s)'
        BY <1>2, <2>4, <2>8 DEF BoundTo, Stays
      <3>2. pc'[t] # "idle" => InFlight(t)' /\ pc'[t] \in Busy
        BY <1>10, <2>1, <2>2, <2>3, <2>8, <3>1 DEF InFlight, Stays
      <3> QED BY <3>2 DEF CallInv
    <2>10. CASE (Undoing(t)' <=> Undoing(t)) /\ Gains(t, 0)
      <3>1. Taken(t)' = Taken(t)
        BY <2>6, <2>10 DEF TakenUndo
      <3>2. OpenInv(t)'
        BY <1>2, <1>4, <3>1 DEF OpenInv
      <3> QED BY <1>1, <1>7, <1>s, <2>9, <2>10, <3>1, <3>2, BalancedStep
    <2>11. CASE Undoing(t) /\ ~Undoing(t)' /\ Gains(t, -1)
      <3>1. Taken(t)' = multi[t].i .. multi[t].n_acq /\ Taken(t) = (multi[t].i .. multi[t].n_acq) \cup {k}
        BY <2>2, <2>6, <2>11 DEF TakenUndo
      <3>2. k \notin multi[t].i .. multi[t].n_acq
        BY <1>5, <2>2
      <3>3. Taken(t)' = Taken(t) \ {k} /\ k \in Taken(t)
        BY <3>1, <3>2
      <3>4. OpenInv(t)'
        BY <1>2, <1>4, <3>3 DEF OpenInv
      <3>5. \A o : Cardinality(TakenOn(t, o)')
                     = Cardinality(TakenOn(t, o)) - IF o = slotPtr[multi[t].hs[k]] THEN 1 ELSE 0
        BY <1>2, <1>8, <3>3, GiveCount
      <3>6. \A o \in Objs : Cardinality(TakenOn(t, o)')
                             = Cardinality(TakenOn(t, o)) + IF o = ptr[t] THEN -1 ELSE 0
        BY <1>8, <2>3, <2>5, <3>5
      <3>7. Balance(t)
        BY <1>1, <2>11, <3>6, GainBalance
      <3> QED BY <1>1, <1>7, <2>9, <3>4, <3>7, BalancedStep
    <2> QED BY <2>8, <2>10, <2>11
  <1> QED BY <1>4, <1>9, <1>10 DEF InFlight

(* All steps inside single calls. *)
LEMMA InnerStep ==
  ASSUME ~RacyDup, MInv, NEW t \in Threads, Inner(t)
  PROVE  MInv'
  <1>0. Core /\ MultiType /\ KindInv
    BY DEF MInv, Book
  <1>1. Step(t) /\ Counted(t) /\ multi' = multi
    BY DEF Inner, Step
  <1>2. CASE Polling(t)
    BY <1>1, <1>2, WaitStep DEF Counted, Polling
  <1>3. CASE ~Polling(t)
    <2>1. Core' /\ Apart(t) /\ HeapKept /\ LocksKept(t) /\ KindInv'
      BY <1>0, <1>1, StepEffect
    <2>2. tokens' = [o \in Objs |-> tokens[o] + count'[o] - count[o]]
      BY <1>1, <1>3 DEF Counted, Polling
    <2>3. /\ count \in [Objs -> Nat] /\ count' \in [Objs -> Nat] /\ tokens \in [Objs -> Int]
      BY <1>0, <2>1 DEF Core, TypeOK, DataType, MultiType
    <2>4. tokens' \in [Objs -> Int] /\ \A o \in Objs : tokens'[o] - count'[o] = tokens[o] - count[o]
      BY <2>2, <2>3
    <2>5. MultiType' /\ ~Polling(t)'
      BY <1>0, <1>1, <1>3, <2>4 DEF MultiType, Polling
    <2> QED BY <1>3, <2>1, <2>4, <2>5, AloofStep
  <1> QED BY <1>2, <1>3

-----------------------------------------------------------------------------
(* The steps of the composite calls. *)

(* A step that moves the call on without changing what it has acquired. *)
LEMMA SettledStep ==
  ASSUME MInv, NEW t \in Threads, Polling(t), Polling(t)', Core', MultiType', KindInv',
         Apart(t), HeapKept, LocksKept(t), RoundInv(t)', CallInv(t)', Taken(t)' = Taken(t),
         multi'[t].hs = multi[t].hs, multi'[t].entry = multi[t].entry,
         UNCHANGED <<slotKind, slotPtr, owner, depth, count, tokens>>
  PROVE  MInv'
  <1>0. MultiType /\ WaitInv /\ HeldInv
    BY DEF MInv, Book
  <1>1. OpenInv(t)'
    BY <1>0 DEF WaitInv, OpenInv
  <1>2. \A o : TakenOn(t, o)' = TakenOn(t, o)
    BY DEF TakenOn
  <1>3. \A o : Cardinality(TakenOn(t, o)) \in Nat
    BY <1>0, TakenFinite DEF WaitInv
  <1>4. ASSUME NEW o \in Objs, life'[o] = "live"
        PROVE  /\ okind[o] = "H_MUTEX" => Held(t, o)' = multi'[t].entry[o] + Cardinality(TakenOn(t, o)')
               /\ tokens'[o] - count'[o] = tokens[o] - count[o]
                    + Cardinality(TakenOn(t, o)') - Cardinality(TakenOn(t, o))
    <2>1. Held(t, o)' = Held(t, o)
      BY DEF Held
    <2>2. okind[o] = "H_MUTEX" => Held(t, o) = multi[t].entry[o] + Cardinality(TakenOn(t, o))
      BY <1>0, <1>4 DEF HeapKept, HeldInv
    <2>3. tokens[o] - count[o] \in Int
      BY DEF MInv, Book, MultiType, Core, TypeOK, DataType
    <2> QED BY <1>2, <1>3, <2>1, <2>2, <2>3
  <1>5. Balance(t)
    BY <1>4 DEF Balance
  <1> QED BY <1>1, <1>5, BalancedStep

(* The lookup that starts the poll of the next handle. *)
LEMMA PollNext ==
  ASSUME MInv, NEW t \in Threads, Polling(t), pc[t] = "idle", tokens' = tokens,
         NEW m \in WaitFrames, m.fn = multi[t].fn, m.hs = multi[t].hs, m.entry = multi[t].entry,
         m.fail = "WAIT_OBJECT_0", NEW k \in 1 .. Len(multi[t].hs), Poll(t, m, k),
         Taken(t) = IF multi[t].fn = "all" THEN 1 .. k - 1 ELSE {}
  PROVE  MInv'
  <1>0. Core /\ MultiType /\ KindInv
    BY DEF MInv, Book
  <1>1. /\ DOMAIN multi[t].hs = 1 .. Len(multi[t].hs) /\ Len(multi[t].hs) \in Nat
        /\ \A j \in 1 .. Len(multi[t].hs) : multi[t].hs[j] \in Slots
    BY <1>0, FrameKinds, WaitFields, ListFacts
  <1>2. PICK s \in Slots : s = multi[t].hs[k]
    BY <1>1
  <1>3. k \in Nat /\ "polled" \in Ats
    BY <1>1 DEF Ats
  <1> DEFINE n == [m EXCEPT !.i = k, !.at = "polled"]
  <1>4. /\ n \in WaitFrames /\ n.fn = m.fn /\ n.hs = m.hs /\ n.entry = m.entry
        /\ n.i = k /\ n.at = "polled" /\ n.fail = m.fail
    BY <1>3 DEF WaitFrames
  <1>5. WaitForSingleObject(t, s, FALSE) /\ Set(t, n)
    BY <1>2 DEF Poll
  <1> HIDE DEF n
  <1>6. MultiType' /\ multi'[t] = n /\ \A u \in Threads : u # t => multi'[u] = multi[u]
    BY <1>0, <1>4, <1>5, SetTyped DEF MultiType
  <1>7. /\ multi'[t].fn = multi[t].fn /\ multi'[t].hs = multi[t].hs /\ multi'[t].entry = multi[t].entry
        /\ multi'[t].i = k /\ multi'[t].at = "polled" /\ multi'[t].fail = "WAIT_OBJECT_0"
    BY <1>4, <1>6
  <1>8. Polling(t)'
    BY <1>7 DEF Polling
  <1>9. RoundInv(t)'
    BY <1>7 DEF RoundInv
  <1>10. ~Polled(t)' => Taken(t)' = Taken(t)
    BY <1>7, <1>8 DEF Taken, TakenPolled
  <1>11. CASE slotKind[s] \notin SyncKinds
    <2>1. LookupFails(t, "WAIT_FAILED") /\ "WAIT_FAILED" \in Rets
      BY <1>5, <1>11 DEF WaitForSingleObject, Rets
    <2>2. /\ Core' /\ Apart(t) /\ HeapKept /\ LocksKept(t) /\ KindInv'
          /\ pc'[t] = "idle" /\ ret'[t] = "WAIT_FAILED"
          /\ UNCHANGED <<slotKind, slotPtr, owner, depth, count>>
      BY <1>0, <1>6, <2>1, FailsCore, FailsEffect
    <2>3. CallInv(t)' /\ ~Polled(t)'
      BY <2>2 DEF CallInv, Polled
    <2> QED BY <1>6, <1>7, <1>8, <1>9, <1>10, <2>2, <2>3, SettledStep
  <1>12. CASE slotKind[s] \in SyncKinds
    <2>1. LookupRetain(t, "WaitForSingleObject", s) /\ inf' = [inf EXCEPT ![t] = FALSE] /\ left' = left
      BY <1>5, <1>12 DEF WaitForSingleObject
    <2>2. inf' \in [Threads -> BOOLEAN] /\ left' \in [Threads -> Nat] /\ "WaitForSingleObject" \in Ops
      BY <1>0, <2>1 DEF Core, TypeOK, FrameType, Ops
    <2>3. Core'
      BY <1>0, <1>12, <2>1, <2>2, LookupCore
    <2>4. /\ Apart(t) /\ HeapKept /\ LocksKept(t) /\ KindInv'
          /\ pc'[t] = "act" /\ op'[t] = "WaitForSingleObject" /\ BoundTo(t, s)'
          /\ UNCHANGED <<slotKind, slotPtr, owner, depth, count>>
      BY <1>0, <1>6, <1>12, <2>1, LookupEffect
    <2>5. CallInv(t)'
      BY <1>2, <1>7, <2>4 DEF CallInv, InFlight, Busy
    <2>6. ~Polled(t)'
      BY <2>4 DEF Polled
    <2> QED BY <1>6, <1>7, <1>8, <1>9, <1>10, <2>3, <2>4, <2>5, <2>6, SettledStep
  <1> QED BY <1>11, <1>12

(* A step of a composite wait between two single calls. *)
LEMMA RoundStep ==
  ASSUME MInv, NEW t \in Threads, Polling(t), pc[t] = "idle", UNCHANGED <<vars, tokens>>,
         NEW m \in WaitFrames, Set(t, m), m.fn = multi[t].fn, m.hs = multi[t].hs, m.entry = multi[t].entry,
         RoundInv(t)', Taken(t)' = Taken(t)
  PROVE  MInv'
  <1>0. Core /\ MultiType /\ KindInv
    BY DEF MInv, Book
  <1>1. MultiType' /\ multi'[t] = m /\ \A u \in Threads : u # t => multi'[u] = multi[u]
    BY <1>0, SetTyped DEF MultiType
  <1>2. /\ Core' /\ Apart(t) /\ HeapKept /\ LocksKept(t) /\ KindInv'
        /\ UNCHANGED <<slotKind, slotPtr, owner, depth, count, pc>>
    BY <1>0, <1>1, StutterEffect
  <1>3. CallInv(t)' /\ Polling(t)'
    BY <1>1, <1>2 DEF CallInv, Polling
  <1> QED BY <1>1, <1>2, <1>3, SettledStep

(* What the calls know of their locals between two single calls. *)
LEMMA AtFacts ==
  ASSUME MInv, NEW t \in Threads, NEW where, At(t, {"any", "all"}, where)
  PROVE  /\ Polling(t) /\ pc[t] = "idle" /\ multi[t].at = where /\ multi[t] \in WaitFrames
         /\ RoundInv(t) /\ OpenInv(t)
         /\ multi[t].i \in Nat /\ multi[t].n_acq \in Nat /\ multi[t].fail \in Rets
         /\ Len(multi[t].hs) \in Nat /\ DOMAIN multi[t].hs = 1 .. Len(multi[t].hs)
         /\ \A k \in 1 .. Len(multi[t].hs) : multi[t].hs[k] \in Slots
         /\ multi[t].i \in 1 .. Len(multi[t].hs)
  <1>1. Polling(t) /\ pc[t] = "idle" /\ multi[t].at = where
    BY DEF At, Polling
  <1>2. multi[t] \in WaitFrames /\ RoundInv(t) /\ OpenInv(t)
    BY <1>1, FrameKinds DEF MInv, Book, WaitInv
  <1>3. multi[t].hs \in Lists
    BY <1>2, WaitFields
  <1> QED BY <1>1, <1>2, <1>3, WaitFields, ListFacts DEF RoundInv

(* The first poll of a call ... *)
LEMMA PollFirstStep ==
  ASSUME MInv, NEW t \in Threads, PollFirst(t)
  PROVE  MInv'
  <1>1. At(t, {"any", "all"}, "poll") /\ Poll(t, multi[t], 1) /\ tokens' = tokens
    BY DEF PollFirst
  <1>2. /\ Polling(t) /\ pc[t] = "idle" /\ multi[t].at = "poll" /\ multi[t] \in WaitFrames /\ RoundInv(t)
        /\ multi[t].i \in 1 .. Len(multi[t].hs) /\ Len(multi[t].hs) \in Nat
    BY <1>1, AtFacts
  <1>3. Taken(t) = {} /\ multi[t].fail = "WAIT_OBJECT_0" /\ 1 \in 1 .. Len(multi[t].hs)
    BY <1>2 DEF Taken, RoundInv
  <1>4. Taken(t) = IF multi[t].fn = "all" THEN 1 .. 1 - 1 ELSE {}
    BY <1>3
  <1> QED BY <1>1, <1>2, <1>3, <1>4, PollNext

(* ... and the first poll of a later round. *)
LEMMA NapStep ==
  ASSUME MInv, NEW t \in Threads, Nap(t)
  PROVE  MInv'
  <1> DEFINE m == [multi[t] EXCEPT !.n_acq = 0, !.fail = "WAIT_OBJECT_0"]
  <1>1. At(t, {"any", "all"}, "check") /\ Poll(t, m, 1) /\ tokens' = tokens
    BY DEF Nap
  <1>2. /\ Polling(t) /\ pc[t] = "idle" /\ multi[t].at = "check" /\ multi[t] \in WaitFrames
        /\ multi[t].i \in 1 .. Len(multi[t].hs) /\ Len(multi[t].hs) \in Nat
    BY <1>1, AtFacts
  <1>3. /\ m \in WaitFrames /\ m.fn = multi[t].fn /\ m.hs = multi[t].hs /\ m.entry = multi[t].entry
        /\ m.fail = "WAIT_OBJECT_0"
    BY <1>2 DEF WaitFrames, Rets
  <1> HIDE DEF m
  <1>4. Taken(t) = {} /\ 1 \in 1 .. Len(multi[t].hs)
    BY <1>2 DEF Taken
  <1>5. Taken(t) = IF multi[t].fn = "all" THEN 1 .. 1 - 1 ELSE {}
    BY <1>4
  <1> QED BY <1>1, <1>2, <1>3, <1>4, <1>5, PollNext

(* The body of the loops: on to the next handle, or out of the loop. *)
LEMMA PolledAnyStep ==
  ASSUME MInv, NEW t \in Threads, PolledAny(t)
  PROVE  MInv'
  <1>1. At(t, {"any", "all"}, "polled") /\ multi[t].fn = "any" /\ tokens' = tokens
    BY DEF PolledAny, At
  <1>2. /\ Polling(t) /\ pc[t] = "idle" /\ multi[t].at = "polled" /\ multi[t] \in WaitFrames
        /\ RoundInv(t) /\ multi[t].i \in Nat /\ Len(multi[t].hs) \in Nat
        /\ multi[t].i \in 1 .. Len(multi[t].hs)
    BY <1>1, AtFacts
  <1>3. multi[t].fail = "WAIT_OBJECT_0"
    BY <1>2 DEF RoundInv
  <1>4. Polled(t) <=> ret[t] = "WAIT_OBJECT_0"
    BY <1>2 DEF Polled
  <1>5. Taken(t) = IF Polled(t) THEN {multi[t].i} ELSE {}
    BY <1>1, <1>2 DEF Taken, TakenPolled
  <1>6. CASE ret[t] # "WAIT_OBJECT_0" /\ ~LastHandle(multi[t]) /\ Poll(t, multi[t], multi[t].i + 1)
    <2>1. multi[t].i + 1 \in 1 .. Len(multi[t].hs)
      BY <1>2, <1>6 DEF LastHandle
    <2>2. Taken(t) = IF multi[t].fn = "all" THEN 1 .. (multi[t].i + 1) - 1 ELSE {}
      BY <1>1, <1>4, <1>5, <1>6
    <2> QED BY <1>1, <1>2, <1>3, <1>6, <2>1, <2>2, PollNext
  <1>7. ASSUME NEW a \in {"done", "check"}, Set(t, [multi[t] EXCEPT !.at = a]), UNCHANGED vars,
               a = "done" <=> Polled(t)
        PROVE  MInv'
    <2> DEFINE m == [multi[t] EXCEPT !.at = a]
    <2>1. /\ m \in WaitFrames /\ m.fn = multi[t].fn /\ m.hs = multi[t].hs /\ m.entry = multi[t].entry
          /\ m.i = multi[t].i /\ m.at = a /\ m.fail = multi[t].fail
      BY <1>2, <1>7 DEF WaitFrames, Ats
    <2>2. Set(t, m)
      BY <1>7
    <2> HIDE DEF m
    <2>3. multi'[t] = m
      BY <2>2 DEF Set, MInv, Book, MultiType
    <2>4. RoundInv(t)'
      BY <1>2, <1>7, <2>1, <2>3 DEF RoundInv
    <2>5. Given(m) = {multi[t].i} /\ Polling(t)'
      BY <1>1, <1>3, <2>1, <2>3 DEF Given, Polling
    <2>6. Taken(t)' = IF a = "done" THEN Given(m) ELSE {}
      BY <1>7, <2>1, <2>3, <2>5 DEF Taken
    <2>7. Taken(t)' = Taken(t)
      BY <1>5, <1>7, <2>5, <2>6
    <2> QED BY <1>1, <1>2, <1>7, <2>1, <2>2, <2>4, <2>7, RoundStep
  <1> QED BY <1>4, <1>6, <1>7 DEF PolledAny

(* The same for the loop that waits for all. *)
LEMMA PolledAllStep ==
  ASSUME MInv, NEW t \in Threads, PolledAll(t)
  PROVE  MInv'
  <1>1. At(t, {"any", "all"}, "polled") /\ multi[t].fn = "all" /\ tokens' = tokens
    BY DEF PolledAll, At
  <1>2. /\ Polling(t) /\ pc[t] = "idle" /\ multi[t].at = "polled" /\ multi[t] \in WaitFrames
        /\ RoundInv(t) /\ multi[t].i \in Nat /\ Len(multi[t].hs) \in Nat
        /\ multi[t].i \in 1 .. Len(multi[t].hs) /\ DOMAIN multi[t].hs = 1 .. Len(multi[t].hs)
    BY <1>1, AtFacts
  <1>3. multi[t].fail = "WAIT_OBJECT_0"
    BY <1>2 DEF RoundInv
  <1>4. Polled(t) <=> ret[t] = "WAIT_OBJECT_0"
    BY <1>2 DEF Polled
  <1>5. Taken(t) = (1 .. multi[t].i - 1) \cup (IF Polled(t) THEN {multi[t].i} ELSE {})
    BY <1>1, <1>2 DEF Taken, TakenPolled
  <1>6. Polled(t) => Taken(t) = 1 .. multi[t].i
    BY <1>2, <1>5
  <1>7. CASE ret[t] = "WAIT_OBJECT_0" /\ ~LastHandle(multi[t]) /\ Poll(t, multi[t], multi[t].i + 1)
    <2>1. multi[t].i + 1 \in 1 .. Len(multi[t].hs) /\ (multi[t].i + 1) - 1 = multi[t].i
      BY <1>2, <1>7 DEF LastHandle
    <2>2. Taken(t) = IF multi[t].fn = "all" THEN 1 .. (multi[t].i + 1) - 1 ELSE {}
      BY <1>1, <1>4, <1>6, <1>7, <2>1
    <2> QED BY <1>1, <1>2, <1>3, <1>7, <2>1, <2>2, PollNext
  <1>8. CASE /\ ret[t] = "WAIT_OBJECT_0" /\ LastHandle(multi[t])
             /\ Set(t, [multi[t] EXCEPT !.at = "done"]) /\ UNCHANGED vars
    <2> DEFINE m == [multi[t] EXCEPT !.at = "done"]
    <2>1. /\ m \in WaitFrames /\ m.fn = multi[t].fn /\ m.hs = multi[t].hs /\ m.entry = multi[t].entry
          /\ m.i = multi[t].i /\ m.at = "done" /\ m.fail = multi[t].fail
      BY <1>2 DEF WaitFrames, Ats
    <2>2. Set(t, m)
      BY <1>8
    <2> HIDE DEF m
    <2>3. multi'[t] = m
      BY <2>2 DEF Set, MInv, Book, MultiType
    <2>4. RoundInv(t)'
      BY <1>2, <2>1, <2>3 DEF RoundInv
    <2>5. Given(m) = 1 .. Len(multi[t].hs) /\ Polling(t)'
      BY <1>1, <1>2, <1>3, <2>1, <2>3 DEF Given, Polling
    <2>6. Taken(t)' = Given(m)
      BY <2>1, <2>3, <2>5 DEF Taken
    <2>7. Taken(t)' = Taken(t)
      BY <1>4, <1>6, <1>8, <2>5, <2>6 DEF LastHandle
    <2> QED BY <1>1, <1>2, <1>8, <2>1, <2>2, <2>4, <2>7, RoundStep
  <1>9. CASE /\ ret[t] # "WAIT_OBJECT_0" /\ UNCHANGED vars
             /\ Set(t, [multi[t] EXCEPT !.i = 1, !.n_acq = Acquired(multi[t]), !.at = "undo", !.fail = ret[t]])
    <2> DEFINE m == [multi[t] EXCEPT !.i = 1, !.n_acq = Acquired(multi[t]), !.at = "undo", !.fail = ret[t]]
    <2>0. Acquired(multi[t]) \in Nat /\ Acquired(multi[t]) = multi[t].i - 1 /\ ret[t] \in Rets
      BY <1>2 DEF Acquired, MInv, Core, TypeOK, FrameType
    <2>1. /\ m \in WaitFrames /\ m.fn = multi[t].fn /\ m.hs = multi[t].hs /\ m.entry = multi[t].entry
          /\ m.i = 1 /\ m.n_acq = Acquired(multi[t]) /\ m.at = "undo" /\ m.fail = ret[t]
      BY <1>2, <2>0 DEF WaitFrames, Ats
    <2>2. Set(t, m)
      BY <1>9
    <2> HIDE DEF m
    <2>3. multi'[t] = m /\ pc' = pc
      BY <1>9, <2>2 DEF Set, MInv, Book, MultiType, vars, frameVars
    <2>4. RoundInv(t)'
      BY <1>1, <1>2, <1>9, <2>0, <2>1, <2>3 DEF RoundInv
    <2>5. ~Undoing(t)' /\ Polling(t)'
      BY <1>1, <1>2, <2>1, <2>3 DEF Undoing, Polling
    <2>6. Taken(t)' = (1 .. Acquired(multi[t]))
      BY <2>1, <2>3, <2>5 DEF Taken, TakenUndo
    <2>7. Taken(t)' = Taken(t)
      BY <1>4, <1>5, <1>9, <2>0, <2>6
    <2> QED BY <1>1, <1>2, <1>9, <2>1, <2>2, <2>4, <2>7, RoundStep
  <1> QED BY <1>7, <1>8, <1>9 DEF PolledAll

(* The roll-back of one handle starts. *)
LEMMA UndoNextStep ==
  ASSUME MInv, NEW t \in Threads, UndoNext(t)
  PROVE  MInv'
  <1>0. Core /\ MultiType /\ KindInv
    BY DEF MInv, Book
  <1>1. /\ At(t, {"any", "all"}, "undo") /\ tokens' = tokens /\ multi[t].i <= multi[t].n_acq
        /\ UndoLookup(t, multi[t].hs[multi[t].i]) /\ Set(t, [multi[t] EXCEPT !.i = @ + 1])
    BY DEF UndoNext, At
  <1>2. /\ Polling(t) /\ pc[t] = "idle" /\ multi[t].at = "undo" /\ multi[t] \in WaitFrames
        /\ RoundInv(t) /\ OpenInv(t) /\ multi[t].i \in Nat /\ multi[t].n_acq \in Nat /\ Len(multi[t].hs) \in Nat
        /\ multi[t].i \in 1 .. Len(multi[t].hs)
        /\ \A k \in 1 .. Len(multi[t].hs) : multi[t].hs[k] \in Slots
    BY <1>1, AtFacts
  <1>3. /\ multi[t].fn = "all" /\ multi[t].fail # "WAIT_OBJECT_0" /\ multi[t].n_acq < Len(multi[t].hs)
    BY <1>2 DEF RoundInv
  <1>4. Taken(t) = multi[t].i .. multi[t].n_acq
    BY <1>2 DEF Taken, TakenUndo, Undoing
  <1>5. PICK k \in Nat : k = multi[t].i
    BY <1>2
  <1>6. PICK s \in Slots : s = multi[t].hs[k]
    BY <1>2, <1>5
  <1>7. slotKind[s] \in SyncKinds
    <2>1. k \in Taken(t)
      BY <1>1, <1>2, <1>4, <1>5
    <2>2. slotKind[s] # "H_FREE"
      BY <1>2, <1>6, <2>1 DEF OpenInv
    <2> QED BY <1>0, <2>2 DEF Core, TypeOK, SlotType
  <1>8. /\ LookupRetain(t, "undo_wait_acquire", s) /\ inf' = inf
        /\ left' = [left EXCEPT ![t] = IF slotKind[s] = "H_SEMAPHORE" THEN 1 ELSE 0]
    BY <1>1, <1>5, <1>6, <1>7 DEF UndoLookup
  <1>9. /\ inf' \in [Threads -> BOOLEAN] /\ left' \in [Threads -> Nat] /\ "undo_wait_acquire" \in Ops
        /\ left'[t] = (IF slotKind[s] = "H_SEMAPHORE" THEN 1 ELSE 0)
        /\ \A u \in Threads : u # t => left'[u] = left[u]
    BY <1>0, <1>8 DEF Core, TypeOK, FrameType, Ops
  <1> DEFINE m == [multi[t] EXCEPT !.i = @ + 1]
  <1>10. /\ m \in WaitFrames /\ m.fn = multi[t].fn /\ m.hs = multi[t].hs /\ m.entry = multi[t].entry
         /\ m.i = k + 1 /\ m.n_acq = multi[t].n_acq /\ m.at = "undo" /\ m.fail = multi[t].fail
    BY <1>2, <1>5 DEF WaitFrames
  <1>11. Set(t, m)
    BY <1>1
  <1> HIDE DEF m
  <1>12. MultiType' /\ multi'[t] = m /\ \A u \in Threads : u # t => multi'[u] = multi[u]
    BY <1>0, <1>1, <1>10, <1>11, SetTyped DEF MultiType
  <1>13. Core'
    BY <1>0, <1>2, <1>7, <1>8, <1>9, LookupCore
  <1>14. /\ Apart(t) /\ HeapKept /\ LocksKept(t) /\ KindInv'
         /\ pc'[t] = "act" /\ op'[t] = "undo_wait_acquire" /\ BoundTo(t, s)'
         /\ UNCHANGED <<slotKind, slotPtr, owner, depth, count>>
    BY <1>0, <1>7, <1>8, <1>9, <1>12, LookupEffect
  <1>15. knd'[t] = slotKind[s]
    BY <1>14 DEF BoundTo
  <1>16. Undoing(t)' /\ Polling(t)' /\ left'[t] <= 1
    BY <1>2, <1>9, <1>10, <1>12, <1>14, <1>15 DEF Undoing, Polling
  <1>17. RoundInv(t)'
    BY <1>1, <1>2, <1>3, <1>5, <1>10, <1>12 DEF RoundInv
  <1>18. (k + 1) - 1 = k
    OBVIOUS
  <1>19. CallInv(t)'
    <2>1. multi'[t].at = "undo" /\ multi'[t].i > 1 /\ multi'[t].hs[multi'[t].i - 1] = s
      BY <1>2, <1>5, <1>6, <1>10, <1>12, <1>18
    <2> QED BY <1>14, <1>16, <2>1 DEF CallInv, InFlight, Busy
  <1>20. Taken(t)' = (k + 1 .. multi[t].n_acq) \cup {k}
    BY <1>10, <1>12, <1>16, <1>18 DEF Taken, TakenUndo
  <1>21. Taken(t)' = Taken(t)
    BY <1>1, <1>2, <1>4, <1>5, <1>20
  <1> QED BY <1>1, <1>2, <1>10, <1>12, <1>13, <1>14, <1>16, <1>17, <1>19, <1>21, SettledStep

(* The roll-back is over, or the deadline has passed. *)
LEMMA RoundEndStep ==
  ASSUME MInv, NEW t \in Threads, UndoDone(t) \/ MultiTimesOut(t)
  PROVE  MInv'
  <1>1. CASE UndoDone(t)
    <2>1. /\ At(t, {"any", "all"}, "undo") /\ UNCHANGED <<vars, tokens>> /\ multi[t].i > multi[t].n_acq
      BY <1>1 DEF UndoDone, At
    <2>2. PICK a \in {"done", "check"} : Set(t, [multi[t] EXCEPT !.at = a])
      BY <1>1 DEF UndoDone
    <2>3. /\ Polling(t) /\ pc[t] = "idle" /\ multi[t].at = "undo" /\ multi[t] \in WaitFrames
          /\ RoundInv(t) /\ multi[t].i \in Nat /\ multi[t].n_acq \in Nat
          /\ multi[t].i \in 1 .. Len(multi[t].hs)
      BY <2>1, AtFacts
    <2>4. multi[t].fail # "WAIT_OBJECT_0" /\ Taken(t) = {}
      BY <2>1, <2>3 DEF RoundInv, Taken, TakenUndo, Undoing
    <2> DEFINE m == [multi[t] EXCEPT !.at = a]
    <2>5. /\ m \in WaitFrames /\ m.fn = multi[t].fn /\ m.hs = multi[t].hs /\ m.entry = multi[t].entry
          /\ m.i = multi[t].i /\ m.at = a /\ m.fail = multi[t].fail
      BY <2>2, <2>3 DEF WaitFrames, Ats
    <2>6. Set(t, m)
      BY <2>2
    <2> HIDE DEF m
    <2>7. multi'[t] = m
      BY <2>6 DEF Set, MInv, Book, MultiType
    <2>8. RoundInv(t)'
      BY <2>2, <2>3, <2>5, <2>7 DEF RoundInv
    <2>9. Taken(t)' = Taken(t)
      BY <2>2, <2>4, <2>5, <2>7 DEF Taken, Given
    <2> QED BY <2>1, <2>3, <2>5, <2>6, <2>8, <2>9, RoundStep
  <1>2. CASE MultiTimesOut(t)
    <2> DEFINE m == [multi[t] EXCEPT !.at = "done", !.fail = "WAIT_TIMEOUT"]
    <2>1. /\ At(t, {"any", "all"}, "check") /\ UNCHANGED <<vars, tokens>> /\ Set(t, m)
      BY <1>2 DEF MultiTimesOut
    <2>2. /\ Polling(t) /\ pc[t] = "idle" /\ multi[t].at = "check" /\ multi[t] \in WaitFrames
          /\ multi[t].i \in 1 .. Len(multi[t].hs)
      BY <2>1, AtFacts
    <2>3. /\ m \in WaitFrames /\ m.fn = multi[t].fn /\ m.hs = multi[t].hs /\ m.entry = multi[t].entry
          /\ m.i = multi[t].i /\ m.at = "done" /\ m.fail = "WAIT_TIMEOUT"
      BY <2>2 DEF WaitFrames, Ats, Rets
    <2> HIDE DEF m
    <2>4. multi'[t] = m
      BY <2>1 DEF Set, MInv, Book, MultiType
    <2>5. RoundInv(t)'
      BY <2>2, <2>3, <2>4 DEF RoundInv
    <2>6. Taken(t)' = Taken(t)
      BY <2>2, <2>3, <2>4 DEF Taken, Given
    <2> QED BY <2>1, <2>2, <2>3, <2>5, <2>6, RoundStep
  <1> QED BY <1>1, <1>2

(* The call returns what it has acquired to its caller. *)
LEMMA ReturnStep ==
  ASSUME MInv, NEW t \in Threads, MultiReturn(t)
  PROVE  MInv'
  <1>0. Core /\ MultiType /\ KindInv /\ WaitInv
    BY DEF MInv, Book
  <1>1. /\ At(t, {"any", "all"}, "done") /\ Set(t, Idle)
        /\ ret' = [ret EXCEPT ![t] = multi[t].fail]
        /\ tokens' = [o \in Objs |-> IF okind[o] = "H_SEMAPHORE" THEN tokens[o] - GivenTo(multi[t], o)
                                     ELSE tokens[o]]
        /\ UNCHANGED <<slotKind, slotPtr, life, rc, okind, owner, depth, signaled, manual, count>>
        /\ UNCHANGED <<pc, op, hnd, knd, ptr, inf, left>>
    BY DEF MultiReturn, At, slotVars, heapVars, dataVars
  <1>2. Polling(t) /\ multi[t].at = "done" /\ multi[t].fail \in Rets
    BY <1>1, AtFacts
  <1>3. /\ \A o : TakenOn(t, o) = {k \in Given(multi[t]) : slotPtr[multi[t].hs[k]] = o}
        /\ \A o : GivenTo(multi[t], o) = Cardinality(TakenOn(t, o))
    BY <1>2 DEF TakenOn, Taken, GivenTo
  <1>4. \A o : Cardinality(TakenOn(t, o)) \in Nat
    BY <1>0, <1>2, TakenFinite DEF WaitInv
  <1>5. tokens' \in [Objs -> Int]
    BY <1>0, <1>1, <1>3, <1>4 DEF MultiType
  <1>6. MultiType' /\ multi'[t] = Idle /\ \A u \in Threads : u # t => multi'[u] = multi[u]
    BY <1>0, <1>1, <1>5, SetTyped
  <1>7. ~Polling(t)'
    BY <1>6 DEF Polling, Idle
  <1>8. Core'
    <2>1. TypeOK'
      <3>1. SlotType' /\ HeapType' /\ DataType'
        BY <1>0, <1>1 DEF Core, TypeOK, SlotType, HeapType, DataType
      <3>2. FrameType'
        BY <1>0, <1>1, <1>2 DEF Core, TypeOK, FrameType
      <3> QED BY <3>1, <3>2 DEF TypeOK
    <2>2. IndInv'
      BY <1>0, <1>1, QuietStep DEF Quiet, Calm, Core
    <2>3. WakeInv'
      BY <1>0, <1>1 DEF Core, WakeInv, Sleepers, Awake, EventWait
    <2> QED BY <2>1, <2>2, <2>3 DEF Core
  <1>9. KindInv'
    BY <1>0, <1>1 DEF KindInv
  <1>10. HeapKept /\ LocksKept(t)
    BY <1>1 DEF HeapKept, LocksKept, Held
  <1>11. Apart(t)
    <2>1. \A u \in Threads : u # t => ret'[u] = ret[u]
      BY <1>0, <1>1 DEF Core, TypeOK, FrameType
    <2> QED BY <1>1, <1>6, <2>1 DEF Apart
  <1>12. Balance(t)
    <2>1. ASSUME NEW o \in Objs, okind[o] = "H_SEMAPHORE"
          PROVE  tokens'[o] - count'[o] = tokens[o] - count[o]
                   + Cardinality(TakenOn(t, o)') - Cardinality(TakenOn(t, o))
      <3>1. TakenOn(t, o)' = {}
        BY <1>7 DEF TakenOn, Taken
      <3>2. Cardinality(TakenOn(t, o)') = 0
        BY <3>1, FS_EmptySet
      <3>3. tokens[o] \in Int /\ count[o] \in Int /\ count'[o] = count[o]
        BY <1>0, <1>1 DEF Core, TypeOK, DataType, MultiType
      <3>4. tokens'[o] = tokens[o] - Cardinality(TakenOn(t, o))
        BY <1>1, <1>3, <2>1
      <3> QED BY <1>4, <3>2, <3>3, <3>4
    <2> QED BY <1>7, <2>1 DEF Balance
  <1> QED BY <1>6, <1>7, <1>8, <1>9, <1>10, <1>11, <1>12, BalancedStep

(* SignalObjectAndWait: its two single calls. *)
LEMMA SignalStep ==
  ASSUME MInv, NEW t \in Threads, SignalHandle(t) \/ SignalledWait(t)
  PROVE  MInv'
  <1>0. MultiType /\ tokens \in [Objs -> Int]
    BY DEF MInv, Book, MultiType
  <1>1. multi[t].fn = "signal" /\ pc[t] = "idle" /\ tokens' = tokens
    BY DEF SignalHandle, SignalledWait, At
  <1>2. multi[t] \in SignalFrames /\ ~Polling(t)
    BY <1>0, <1>1, FrameKinds DEF Polling
  <1>3. multi[t].hs[1] \in Slots /\ multi[t].hs[2] \in Slots /\ multi[t].inf \in BOOLEAN
    BY <1>2 DEF SignalFrames
  <1>4. CASE SignalHandle(t)
    <2> DEFINE m == [multi[t] EXCEPT !.at = "wait"]
    <2>1. m \in SignalFrames /\ m.fn = "signal"
      BY <1>2 DEF SignalFrames
    <2>2. Set(t, m)
      BY <1>4 DEF SignalHandle
    <2> HIDE DEF m
    <2>3. MultiType' /\ multi'[t] = m /\ \A u \in Threads : u # t => multi'[u] = multi[u]
      BY <1>0, <1>1, <2>1, <2>2, SetTyped
    <2>4. ~Polling(t)'
      BY <2>1, <2>3 DEF Polling
    <2>5. \E name \in Ops, kind \in SyncKinds, n \in Nat : SignalCall(t, name, kind, multi[t].hs[1], n)
      BY <1>4 DEF SignalHandle, ReleaseMutex, SetEvent, ReleaseSemaphore, Ops, SyncKinds
    <2> QED BY <1>1, <1>2, <1>3, <2>3, <2>4, <2>5, AloofLookup
  <1>5. CASE SignalledWait(t)
    <2>1. Set(t, Idle) /\ WaitForSingleObject(t, multi[t].hs[2], multi[t].inf)
      BY <1>5 DEF SignalledWait
    <2>2. MultiType' /\ multi'[t] = Idle /\ \A u \in Threads : u # t => multi'[u] = multi[u]
      BY <1>0, <1>1, <2>1, SetTyped
    <2>3. ~Polling(t)'
      BY <2>2 DEF Polling, Idle
    <2> QED BY <1>1, <1>2, <1>3, <2>1, <2>2, <2>3, AloofLookup
  <1> QED BY <1>4, <1>5

(* A composite call begins, holding what its thread holds. *)
LEMMA BeginStep ==
  ASSUME MInv, NEW t \in Threads, Composite(t)
  PROVE  MInv'
  <1>0. Core /\ MultiType /\ KindInv /\ tokens \in [Objs -> Int]
    BY DEF MInv, Book, MultiType
  <1>1. CASE \E hs \in Lists, fn \in Fns \ {"signal"}, infinite \in Infinite :
               WaitForMultipleObjects(t, hs, fn, infinite)
    <2>1. PICK hs \in Lists, fn \in Fns \ {"signal"}, infinite \in Infinite :
               WaitForMultipleObjects(t, hs, fn, infinite)
      BY <1>1
    <2> DEFINE m == [fn |-> fn, hs |-> hs, i |-> 1, n_acq |-> 0, at |-> "poll",
                     inf |-> infinite, fail |-> "WAIT_OBJECT_0",
                     entry |-> [o \in Objs |-> Held(t, o)]]
    <2>2. /\ multi[t].fn = "none" /\ pc[t] = "idle" /\ Set(t, m) /\ UNCHANGED <<vars, tokens>>
      BY <2>1 DEF WaitForMultipleObjects
    <2>3. \A o \in Objs : Held(t, o) \in Nat
      BY <1>0 DEF Held, Core, TypeOK, DataType
    <2>4. fn \in {"any", "all"} /\ infinite \in BOOLEAN
      BY <2>1, FnAssumption
    <2>5. /\ m \in WaitFrames /\ m.fn \in {"any", "all"} /\ m.hs = hs /\ m.i = 1 /\ m.at = "poll"
          /\ m.fail = "WAIT_OBJECT_0" /\ \A o \in Objs : m.entry[o] = Held(t, o)
      BY <2>3, <2>4 DEF WaitFrames, Ats, Rets
    <2> HIDE DEF m
    <2>6. MultiType' /\ multi'[t] = m /\ \A u \in Threads : u # t => multi'[u] = multi[u]
      BY <1>0, <2>2, <2>5, SetTyped
    <2>7. /\ Core' /\ Apart(t) /\ HeapKept /\ LocksKept(t) /\ KindInv'
          /\ UNCHANGED <<slotKind, slotPtr, owner, depth, count, pc>>
      BY <1>0, <2>2, <2>6, StutterEffect
    <2>8. Taken(t) = {} /\ Taken(t)' = {} /\ Polling(t)'
      BY <2>2, <2>5, <2>6 DEF Taken, Polling
    <2>9. RoundInv(t)' /\ CallInv(t)' /\ OpenInv(t)'
      <3>1. Len(hs) \in Nat /\ Len(hs) >= 1
        BY ListFacts
      <3>2. RoundInv(t)'
        BY <2>5, <2>6, <3>1 DEF RoundInv
      <3> QED BY <2>2, <2>7, <2>8, <3>2 DEF CallInv, OpenInv
    <2>10. Balance(t)
      <3>1. \A o : TakenOn(t, o) = {} /\ TakenOn(t, o)' = {}
        BY <2>8 DEF TakenOn
      <3>2. \A o : Cardinality(TakenOn(t, o)) = 0 /\ Cardinality(TakenOn(t, o)') = 0
        BY <3>1, FS_EmptySet
      <3>3. \A o \in Objs : Held(t, o)' = Held(t, o) /\ multi'[t].entry[o] = Held(t, o)
        BY <2>5, <2>6, <2>7 DEF Held
      <3>4. \A o \in Objs : /\ tokens[o] - count[o] \in Int /\ count'[o] = count[o] /\ tokens'[o] = tokens[o]
        BY <1>0, <2>2, <2>7 DEF Core, TypeOK, DataType
      <3> QED BY <2>3, <3>2, <3>3, <3>4 DEF Balance
    <2> QED BY <2>6, <2>7, <2>9, <2>10, BalancedStep
  <1>2. CASE \E signal, wait \in Slots, infinite \in Infinite : SignalObjectAndWait(t, signal, wait, infinite)
    <2>1. PICK signal \in Slots, wait \in Slots, infinite \in Infinite :
            SignalObjectAndWait(t, signal, wait, infinite)
      BY <1>2
    <2> DEFINE m == [fn |-> "signal", hs |-> <<signal, wait>>, inf |-> infinite,
                     at |-> IF slotKind[signal] \in SyncKinds THEN slotKind[signal] ELSE "wait"]
    <2>2. /\ multi[t].fn = "none" /\ Set(t, m) /\ UNCHANGED <<vars, tokens>>
      BY <2>1 DEF SignalObjectAndWait
    <2>3. m \in SignalFrames /\ m.fn = "signal"
      BY <2>1, FnAssumption DEF SignalFrames
    <2> HIDE DEF m
    <2>4. MultiType' /\ multi'[t] = m /\ \A u \in Threads : u # t => multi'[u] = multi[u]
      BY <1>0, <2>2, <2>3, SetTyped
    <2>5. /\ Core' /\ Apart(t) /\ HeapKept /\ LocksKept(t) /\ KindInv' /\ count' = count
      BY <1>0, <2>2, <2>4, StutterEffect
    <2>6. ~Polling(t) /\ ~Polling(t)'
      BY <2>2, <2>3, <2>4 DEF Polling
    <2> QED BY <2>2, <2>4, <2>5, <2>6, AloofStep
  <1> QED BY <1>1, <1>2 DEF Composite

(* A single call begins; no slot is closed that a composite call lists. *)
LEMMA SimpleStep ==
  ASSUME ~RacyDup, MInv, NEW t \in Threads, Simple(t)
  PROVE  MInv'
  <1>0. Core /\ MultiType /\ KindInv
    BY DEF MInv, Book
  <1>1. multi[t].fn = "none" /\ pc[t] = "idle" /\ multi' = multi /\ tokens' = tokens
    BY DEF Simple
  <1>2. MultiType' /\ ~Polling(t) /\ ~Polling(t)' /\ \A u \in Threads : u # t => multi'[u] = multi[u]
    BY <1>0, <1>1 DEF MultiType, Polling
  <1>3. ASSUME NEW s \in Slots, \E b \in Infinite : WaitForSingleObject(t, s, b) PROVE MInv'
    <2>1. \E b \in BOOLEAN : WaitForSingleObject(t, s, b)
      BY <1>3, FnAssumption
    <2> QED BY <1>1, <1>2, <2>1, AloofLookup
  <1>4. ASSUME NEW s \in Slots,
               \/ ReleaseMutex(t, s) \/ SetEvent(t, s) \/ ResetEvent(t, s) \/ ReleaseSemaphore(t, s, 1)
        PROVE  MInv'
    <2>1. \E name \in Ops, kind \in SyncKinds, n \in Nat : SignalCall(t, name, kind, s, n)
      BY <1>4 DEF ReleaseMutex, SetEvent, ResetEvent, ReleaseSemaphore, Ops, SyncKinds
    <2> QED BY <1>1, <1>2, <2>1, AloofLookup
  <1>5. ASSUME NEW s \in Slots, ~Listed(s), CloseHandle(t, s) PROVE MInv'
    <2>1. Core'
      <3>1. Next
        BY <1>5 DEF Next, Call
      <3> QED BY <1>0, <3>1, TypeStep, IndInvStep, WakeStep DEF Core
    <2>2. CASE LookupFails(t, "FALSE")
      <3>1. Apart(t) /\ HeapKept /\ LocksKept(t) /\ KindInv' /\ count' = count
        BY <1>0, <1>2, <2>2, FailsEffect
      <3> QED BY <1>1, <1>2, <2>1, <3>1, AloofStep
    <2>3. CASE slotKind[s] # "H_FREE" /\ ClearSlot(t, "CloseHandle", s)
      <3>1. /\ pc'[t] = "release" /\ knd'[t] = slotKind[s] /\ ptr'[t] = slotPtr[s]
            /\ \A u \in Threads : u # t => /\ pc'[u] = pc[u] /\ op'[u] = op[u] /\ knd'[u] = knd[u]
                                           /\ ptr'[u] = ptr[u] /\ ret'[u] = ret[u] /\ left'[u] = left[u]
        BY <1>0, <2>3 DEF ClearSlot, Goto, Core, TypeOK, FrameType
      <3>2. /\ slotKind'[s] = "H_FREE" /\ \A x \in Slots : x # s => slotKind'[x] = slotKind[x]
            /\ UNCHANGED <<slotPtr, life, okind, owner, depth, count>>
        BY <1>0, <2>3 DEF ClearSlot, heapVars, dataVars, Core, TypeOK, SlotType
      <3>3. Apart(t)
        BY <1>2, <1>5, <3>1, <3>2 DEF Apart
      <3>4. HeapKept /\ LocksKept(t)
        BY <3>2 DEF HeapKept, LocksKept, Held
      <3>5. KindInv'
        <4>1. /\ slotPtr' \in [Slots -> Objs]
              /\ \A x \in Slots : slotKind'[x] # "H_FREE" => slotKind'[x] = okind'[slotPtr'[x]]
          BY <1>0, <3>2 DEF KindInv
        <4>2. \A u \in Threads : pc'[u] \in Busy => knd'[u] = okind'[ptr'[u]]
          BY <1>0, <2>3, <3>1, <3>2 DEF KindInv
        <4>3. \A u \in Threads : pc'[u] \notin {"alloc", "dup", "dupclose"}
          BY <1>0, <3>1 DEF KindInv
        <4>4. \A o \in Objs : owner'[o] = NoThread => depth'[o] = 0
          BY <1>0, <3>2 DEF KindInv
        <4> QED BY <4>1, <4>2, <4>3, <4>4 DEF KindInv
      <3> QED BY <1>1, <1>2, <2>1, <3>2, <3>3, <3>4, <3>5, AloofStep
    <2> QED BY <1>5, <2>2, <2>3 DEF CloseHandle
  <1> QED BY <1>3, <1>4, <1>5 DEF Simple

-----------------------------------------------------------------------------
(* All steps together. *)

(* MInv is inductive for a program that does not race on DuplicateHandle. *)
LEMMA MStep ==
  ASSUME ~RacyDup, MInv, [MNext]_mvars
  PROVE  MInv'
  <1>1. CASE UNCHANGED mvars
    <2>1. UNCHANGED vars /\ multi' = multi /\ tokens' = tokens
      BY <1>1 DEF mvars
    <2>2. /\ UNCHANGED <<slotKind, slotPtr, life, rc, okind, owner, depth, signaled, manual, count>>
          /\ UNCHANGED <<pc, op, hnd, knd, ptr, inf, left, ret>>
      BY <2>1 DEF vars, slotVars, heapVars, dataVars, frameVars
    <2>3. Core'
      <3>1. TypeOK' /\ WakeInv'
        BY <2>1, TypeStep, WakeStep DEF MInv, Core
      <3>2. IndInv'
        BY <2>2, QuietStep DEF Quiet, Calm, MInv, Core
      <3> QED BY <3>1, <3>2 DEF Core
    <2>4. KindInv' /\ MultiType'
      BY <2>1, <2>2 DEF MInv, Book, KindInv, MultiType
    <2>5. \A t \in Threads : /\ Polling(t)' <=> Polling(t)
                             /\ Polled(t)' <=> Polled(t)
                             /\ Undoing(t)' <=> Undoing(t)
                             /\ Given(multi[t])' = Given(multi[t])
      BY <2>1, <2>2 DEF Polling, Polled, Undoing, Given
    <2>6. \A t \in Threads : TakenPolled(t)' = TakenPolled(t) /\ TakenUndo(t)' = TakenUndo(t)
      BY <2>1, <2>5 DEF TakenPolled, TakenUndo
    <2>7. \A t \in Threads : Taken(t)' = Taken(t)
      BY <2>1, <2>5, <2>6 DEF Taken
    <2>8. \A t \in Threads : \A o : TakenOn(t, o)' = TakenOn(t, o)
      BY <2>1, <2>2, <2>7 DEF TakenOn
    <2>9. \A t \in Threads : /\ RoundInv(t)' <=> RoundInv(t)
                             /\ CallInv(t)' <=> CallInv(t)
                             /\ OpenInv(t)' <=> OpenInv(t)
      BY <2>1, <2>2, <2>7 DEF RoundInv, CallInv, InFlight, BoundTo, OpenInv
    <2>10. WaitInv'
      BY <2>5, <2>9 DEF MInv, Book, WaitInv
    <2>11. HeldInv'
      BY <2>1, <2>2, <2>5, <2>8 DEF MInv, HeldInv, Held
    <2>12. \A o : Out(o)' = Out(o)
      BY <2>8 DEF Out
    <2>13. TokenInv'
      BY <2>1, <2>2, <2>12 DEF MInv, TokenInv
    <2> QED BY <2>3, <2>4, <2>10, <2>11, <2>13 DEF MInv, Book
  <1>2. ASSUME NEW t \in Threads, Outer(t) PROVE MInv'
    BY <1>2, PollFirstStep, PolledAnyStep, PolledAllStep, UndoNextStep, RoundEndStep, ReturnStep,
       SignalStep, NapStep DEF Outer
  <1> QED BY <1>1, <1>2, SimpleStep, BeginStep, InnerStep, RoundEndStep DEF MNext

(* The program's handles are open and nobody is in a call. *)
LEMMA InitHolds == MInit => MInv
<1> SUFFICES ASSUME MInit PROVE MInv
  OBVIOUS
<1>1. /\ slotPtr \in [Slots -> Objs]
      /\ life = [o \in Objs |-> IF o \in {slotPtr[s] : s \in Slots} THEN "live" ELSE "unborn"]
      /\ rc = [o \in Objs |-> Cardinality({s \in Slots : slotPtr[s] = o})]
      /\ okind \in [Objs -> Kinds] /\ signaled \in [Objs -> BOOLEAN] /\ manual \in [Objs -> BOOLEAN]
      /\ count \in [Objs -> 0 .. MaxCount]
      /\ slotKind = [s \in Slots |-> okind[slotPtr[s]]]
      /\ owner = [o \in Objs |-> NoThread] /\ depth = [o \in Objs |-> 0]
  BY DEF MInit
<1>2. /\ pc  = [t \in Threads |-> "idle"] /\ op  = [t \in Threads |-> "none"]
      /\ hnd = [t \in Threads |-> Null] /\ knd = [t \in Threads |-> "H_FREE"]
      /\ ptr = [t \in Threads |-> Null] /\ inf = [t \in Threads |-> FALSE]
      /\ left = [t \in Threads |-> 0] /\ ret = [t \in Threads |-> "none"]
      /\ multi = [t \in Threads |-> Idle] /\ tokens = count
  BY DEF MInit
<1>3. Kinds \subseteq SyncKinds /\ "H_FREE" \notin SyncKinds
  BY KindAssumption DEF SyncKinds
<1>4. count \in [Objs -> Nat]
  BY <1>1, BoundsAssumption
<1>5. \A o \in Objs : IsFiniteSet({s \in Slots : slotPtr[s] = o}) /\ rc[o] \in Nat
  <2> TAKE o \in Objs
  <2>1. {s \in Slots : slotPtr[s] = o} \subseteq Slots
    OBVIOUS
  <2>2. IsFiniteSet({s \in Slots : slotPtr[s] = o})
    BY <2>1, SlotsAssumption, FS_Subset
  <2>3. Cardinality({s \in Slots : slotPtr[s] = o}) \in Nat
    BY <2>2, FS_CardinalityType
  <2> QED BY <1>1, <2>2, <2>3
<1>6. \A s \in Slots : slotKind[s] \in SyncKinds /\ slotKind[s] = okind[slotPtr[s]] /\ slotPtr[s] \in Objs
                       /\ life[slotPtr[s]] = "live"
  BY <1>1, <1>3
<1>7. TypeOK
  <2>1. SlotType
    BY <1>1, <1>6 DEF SlotType
  <2>2. HeapType
    <3>1. life \in [Objs -> {"unborn", "live", "freed"}]
      BY <1>1
    <3>2. rc \in [Objs -> Int]
      <4>1. DOMAIN rc = Objs /\ rc = [o \in Objs |-> rc[o]]
        BY <1>1
      <4>2. \A o \in Objs : rc[o] \in Nat
        BY <1>5, Zenon
      <4> QED BY <4>1, <4>2
    <3>3. okind \in [Objs -> SyncKinds]
      BY <1>1, <1>3
    <3> QED BY <3>1, <3>2, <3>3 DEF HeapType
  <2>3. DataType
    BY <1>1, <1>4 DEF DataType
  <2>4. FrameType
    BY <1>2 DEF FrameType, PCs, Ops, Rets
  <2> QED BY <2>1, <2>2, <2>3, <2>4 DEF TypeOK
<1>8. IndInv
  <2>1. \A o \in Objs : SlotRefs(o) = {s \in Slots : slotPtr[s] = o} /\ FrameRefs(o) = {}
    BY <1>2, <1>3, <1>6 DEF SlotRefs, FrameRefs, Holding
  <2>2. \A o \in Objs : rc[o] = Cardinality(SlotRefs(o)) + Cardinality(FrameRefs(o))
    <3> TAKE o \in Objs
    <3>1. Cardinality(FrameRefs(o)) = 0
      BY <2>1, FS_EmptySet
    <3>2. rc[o] = Cardinality(SlotRefs(o)) /\ rc[o] \in Nat
      BY <1>1, <1>5, <2>1
    <3> QED BY <3>1, <3>2
  <2>3. ASSUME NEW o \in Objs, life[o] = "live" PROVE rc[o] # 0
    <3>1. PICK s \in Slots : slotPtr[s] = o
      BY <1>1, <2>3
    <3>2. s \in SlotRefs(o)
      BY <2>1, <3>1
    <3>3. IsFiniteSet(SlotRefs(o))
      BY RefsFinite
    <3>4. Cardinality(SlotRefs(o)) >= 1
      BY <3>2, <3>3, MemberCounts
    <3> QED BY <2>2, <3>4, RefsFinite
  <2>4. RefCountExact
    BY <2>2 DEF RefCountExact
  <2>5. NoUseAfterFree
    BY <1>2, <1>6 DEF NoUseAfterFree, Holding
  <2>6. DestroyerCount
    BY <1>2, <2>3 DEF DestroyerCount, Destroying
  <2>7. AllocExclusive /\ DupSourceOpen
    BY <1>2 DEF AllocExclusive, DupSourceOpen
  <2> QED BY <2>4, <2>5, <2>6, <2>7 DEF IndInv
<1>9. WakeInv
  BY <1>2 DEF WakeInv, Sleepers
<1>10. KindInv
  BY <1>1, <1>2, <1>6 DEF KindInv, Busy
<1>11. \A t \in Threads : ~Polling(t)
  BY <1>2 DEF Polling, Idle
<1>12. MultiType /\ WaitInv /\ HeldInv
  <2>1. MultiType
    BY <1>2, <1>4 DEF MultiType
  <2> QED BY <1>11, <2>1 DEF WaitInv, HeldInv
<1>13. TokenInv
  <2>1. \A o : Out(o) = {}
    BY <1>11 DEF Out, TakenOn, Taken
  <2>2. \A o : IsFiniteSet(Out(o)) /\ Cardinality(Out(o)) = 0
    BY <2>1, FS_EmptySet
  <2> QED BY <1>2, <1>4, <2>2 DEF TokenInv
<1> QED BY <1>7, <1>8, <1>9, <1>10, <1>12, <1>13 DEF MInv, Core, Book

(* Every state of such a program satisfies it. *)
LEMMA MInvAlways == ASSUME ~RacyDup PROVE MSpec => []MInv
<1>1. MInv /\ [MNext]_mvars => MInv'
  BY MStep
<1> QED BY <1>1, InitHolds, PTL DEF MSpec

(* For lists of any length and any number of threads: whenever             *)
(* WaitForMultipleObjects naps between two rounds, or is about to return,  *)
(* its thread holds each mutex exactly as often as on entry, plus, on      *)
(* success, once for every position of the list that it was given.  The    *)
(* roll-back unlocks what was locked, and no poll of a listed handle drops *)
(* the object's last reference.                                            *)
THEOREM AllOrNothingHolds == ASSUME ~RacyDup PROVE MSpec => []AllOrNothing
<1>1. MInv => AllOrNothing
  <2> SUFFICES ASSUME MInv, NEW t \in Threads, Polling(t), multi[t].at \in {"check", "done"},
                      NEW o \in Objs, life[o] = "live", okind[o] = "H_MUTEX"
               PROVE  Held(t, o) - multi[t].entry[o] = IF multi[t].at = "done" THEN GivenTo(multi[t], o) ELSE 0
    BY DEF AllOrNothing, Polling
  <2>1. Held(t, o) = multi[t].entry[o] + Cardinality(TakenOn(t, o))
    BY DEF MInv, HeldInv
  <2>2. Cardinality(TakenOn(t, o)) \in Nat /\ multi[t].entry[o] \in Nat
    BY TakenFinite, FrameKinds, WaitFields DEF MInv, Book, WaitInv
  <2>3. CASE multi[t].at = "done"
    <3>1. TakenOn(t, o) = {k \in Given(multi[t]) : slotPtr[multi[t].hs[k]] = o}
      BY <2>3 DEF TakenOn, Taken
    <3>2. GivenTo(multi[t], o) = Cardinality(TakenOn(t, o))
      BY <3>1 DEF GivenTo
    <3> QED BY <2>1, <2>2, <2>3, <3>2
  <2>4. CASE multi[t].at = "check"
    <3>1. TakenOn(t, o) = {}
      BY <2>4 DEF TakenOn, Taken
    <3>2. Cardinality(TakenOn(t, o)) = 0
      BY <3>1, FS_EmptySet
    <3> QED BY <2>1, <2>2, <2>4, <3>2
  <2> QED BY <2>3, <2>4
<1> QED BY <1>1, MInvAlways, PTL

(* The polls and the roll-backs of all threads together neither lose nor   *)
(* invent a token of a semaphore.                                          *)
THEOREM TokensConservedHolds == ASSUME ~RacyDup PROVE MSpec => []TokensConserved
<1>1. MInv => TokensConserved
  <2> SUFFICES ASSUME MInv, \A t \in Threads : pc[t] = "idle" /\ multi[t].fn = "none",
                      NEW o \in Objs, life[o] = "live", okind[o] = "H_SEMAPHORE"
               PROVE  count[o] = tokens[o]
    BY DEF TokensConserved
  <2>1. Out(o) = {}
    BY DEF Out, TakenOn, Taken, Polling
  <2>2. Cardinality(Out(o)) = 0
    BY <2>1, FS_EmptySet
  <2>3. tokens[o] = count[o] + Cardinality(Out(o)) /\ count[o] \in Nat
    BY DEF MInv, TokenInv, Core, TypeOK, DataType
  <2> QED BY <2>2, <2>3
<1> QED BY <1>1, MInvAlways, PTL

(* No wakeup is lost among the polls either, whose zero timeout runs the   *)
(* same wait loop and whose roll-back signals the event again.             *)
THEOREM MultiWakeupsKept == ASSUME ~RacyDup PROVE MSpec => []NoLostWakeup
<1>1. MInv => NoLostWakeup
  BY DEF MInv, Core, WakeInv, NoLostWakeup, Awake, EventWait
<1> QED BY <1>1, MInvAlways, PTL
=============================================================================
