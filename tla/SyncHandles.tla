----------------------------- MODULE SyncHandles -----------------------------
(***************************************************************************)
(* The shim's HANDLE table and the reference-counted kernel objects behind *)
(* it: CreateMutex/Event/Semaphore, WaitForSingleObject, ReleaseMutex,     *)
(* SetEvent, ResetEvent, ReleaseSemaphore, DuplicateHandle, CloseHandle.   *)
(*                                                                         *)
(* A call is a sequence of atomic steps of its thread: each section of     *)
(* code under g_handles_mu is one step, so is each section under an        *)
(* object's own mutex, and so is an access that takes no lock at all.      *)
(* Objects are never re-used once freed, so that a step which reaches a    *)
(* freed one is visible as such.                                           *)
(***************************************************************************)
EXTENDS Integers, FiniteSets

CONSTANTS
  Threads,     \* threads of the converted program
  Slots,       \* indices of g_handles open to handle_alloc_sync (3 .. MAX_HANDLES-1)
  Objs,        \* addresses malloc may return
  NoThread,    \* no owner
  Null,        \* the null pointer
  Kinds,       \* kinds of object the program creates
  MaxDepth,    \* bound: recursion of one mutex
  MaxCount,    \* bound: value of one semaphore
  MaxRelease,  \* bound: count argument of ReleaseSemaphore
  RacyDup      \* may the program close or re-open a handle that another of
               \* its threads is duplicating, or duplicate one that is not open?

ASSUME SlotsAssumption   == Slots \subseteq Nat /\ IsFiniteSet(Slots)
ASSUME ThreadsAssumption == IsFiniteSet(Threads) /\ NoThread \notin Threads
ASSUME ObjsAssumption    == Null \notin Objs /\ Null \notin Slots
ASSUME BoundsAssumption  == /\ MaxDepth \in Nat /\ MaxCount \in Nat
                            /\ MaxRelease \in Nat /\ RacyDup \in BOOLEAN

VARIABLES
  slotKind,  \* g_handles[i].kind
  slotPtr,   \* g_handles[i].ptr, left behind by CloseHandle
  life,      \* whether an address is unused, allocated or freed
  rc,        \* refcount, the first field of every object
  okind,     \* which struct was allocated
  owner,     \* MutexObj.mu: holder
  depth,     \* MutexObj.mu: recursion count
  signaled,  \* EventObj.signaled
  manual,    \* EventObj.manual_reset
  count,     \* SemaphoreObj.sem
  pc,        \* where in its current call a thread is
  op,        \* the call
  hnd,       \* its handle argument, as a slot index
  knd,       \* its local copy of the slot's kind
  ptr,       \* its local copy of the slot's pointer
  inf,       \* ms == INFINITE
  left,      \* sem_post calls a ReleaseSemaphore still has to make
  ret        \* what the thread's last call returned

slotVars  == <<slotKind, slotPtr>>
heapVars  == <<life, rc, okind>>
dataVars  == <<owner, depth, signaled, manual, count>>
frameVars == <<pc, op, hnd, knd, ptr, inf, left, ret>>
vars      == <<slotVars, heapVars, dataVars, frameVars>>

SyncKinds == {"H_MUTEX", "H_EVENT", "H_SEMAPHORE"}
Ops       == {"none", "Create", "WaitForSingleObject", "ReleaseMutex", "SetEvent",
              "ResetEvent", "ReleaseSemaphore", "undo_wait_acquire", "CloseHandle",
              "DuplicateHandle", "DuplicateCloseSource"}
Rets      == {"none", "TRUE", "FALSE", "WAIT_OBJECT_0", "WAIT_TIMEOUT", "WAIT_FAILED"}
PCs       == {"idle", "alloc", "act", "asleep", "timedout", "release", "unlock",
              "destroy", "dup", "dupclose"}

SlotType ==
  /\ slotKind \in [Slots -> SyncKinds \cup {"H_FREE"}]
  /\ slotPtr  \in [Slots -> Objs \cup {Null}]

HeapType ==
  /\ life     \in [Objs -> {"unborn", "live", "freed"}]
  /\ rc       \in [Objs -> Int]
  /\ okind    \in [Objs -> SyncKinds]

\* A locked mutex has a positive recursion count.
DataType ==
  /\ owner    \in [Objs -> Threads \cup {NoThread}]
  /\ depth    \in [Objs -> Nat]
  /\ signaled \in [Objs -> BOOLEAN]
  /\ manual   \in [Objs -> BOOLEAN]
  /\ count    \in [Objs -> Nat]
  /\ \A o \in Objs : owner[o] # NoThread => depth[o] > 0

FrameType ==
  /\ pc  \in [Threads -> PCs]
  /\ op  \in [Threads -> Ops]
  /\ hnd \in [Threads -> Slots \cup {Null}]
  /\ knd \in [Threads -> SyncKinds \cup {"H_FREE"}]
  /\ ptr \in [Threads -> Objs \cup {Null}]
  /\ inf \in [Threads -> BOOLEAN]
  /\ left \in [Threads -> Nat]
  /\ ret \in [Threads -> Rets]
  /\ \A t \in Threads : pc[t] \in {"dup", "dupclose"} => hnd[t] \in Slots

TypeOK == SlotType /\ HeapType /\ DataType /\ FrameType

Init ==
  /\ slotKind = [s \in Slots |-> "H_FREE"]
  /\ slotPtr  = [s \in Slots |-> Null]
  /\ life     = [o \in Objs |-> "unborn"]
  /\ rc       = [o \in Objs |-> 0]
  /\ okind    = [o \in Objs |-> "H_MUTEX"]
  /\ owner    = [o \in Objs |-> NoThread]
  /\ depth    = [o \in Objs |-> 0]
  /\ signaled = [o \in Objs |-> FALSE]
  /\ manual   = [o \in Objs |-> FALSE]
  /\ count    = [o \in Objs |-> 0]
  /\ pc  = [t \in Threads |-> "idle"]
  /\ op  = [t \in Threads |-> "none"]
  /\ hnd = [t \in Threads |-> Null]
  /\ knd = [t \in Threads |-> "H_FREE"]
  /\ ptr = [t \in Threads |-> Null]
  /\ inf = [t \in Threads |-> FALSE]
  /\ left = [t \in Threads |-> 0]
  /\ ret = [t \in Threads |-> "none"]

-----------------------------------------------------------------------------
(* Reference counts and the moves of a thread through its call.            *)

\* Mutant of Retain: the handle's pointer is used without a count.
NoRetain(o) == rc' = rc

Retain(o)  == rc' = [rc EXCEPT ![o] = @ + 1]
DropRef(o) == rc' = [rc EXCEPT ![o] = @ - 1]

Goto(t, where) == pc' = [pc EXCEPT ![t] = where]

\* End of the call: the frame and its locals are gone, the result stays.
Leave(t) == /\ Goto(t, "idle")
            /\ op'   = [op EXCEPT ![t] = "none"]
            /\ hnd'  = [hnd EXCEPT ![t] = Null]
            /\ knd'  = [knd EXCEPT ![t] = "H_FREE"]
            /\ ptr'  = [ptr EXCEPT ![t] = Null]
            /\ inf'  = [inf EXCEPT ![t] = FALSE]
            /\ left' = [left EXCEPT ![t] = 0]

Return(t, value) == Leave(t) /\ ret' = [ret EXCEPT ![t] = value]

\* On to the decrement at the bottom of every call, with the result decided.
Done(t, value) == /\ Goto(t, "release")
                  /\ ret' = [ret EXCEPT ![t] = value]
                  /\ UNCHANGED <<op, hnd, knd, ptr, inf>>

\* free(): what the object held is gone.
Free(o) ==
  /\ life'     = [life EXCEPT ![o] = "freed"]
  /\ okind'    = [okind EXCEPT ![o] = "H_MUTEX"]
  /\ owner'    = [owner EXCEPT ![o] = NoThread]
  /\ depth'    = [depth EXCEPT ![o] = 0]
  /\ signaled' = [signaled EXCEPT ![o] = FALSE]
  /\ manual'   = [manual EXCEPT ![o] = FALSE]
  /\ count'    = [count EXCEPT ![o] = 0]

FreeSlots == {s \in Slots : slotKind[s] = "H_FREE"}
FirstFree(s) == s \in FreeSlots /\ \A x \in FreeSlots : s <= x

-----------------------------------------------------------------------------
(* CreateMutex / CreateEvent / CreateSemaphore: malloc and initialise the  *)
(* object with refcount 1, then look for a free slot under g_handles_mu.   *)

NewObject(t, o, kind) ==
  /\ pc[t] = "idle"
  /\ kind \in Kinds
  /\ life[o] = "unborn"
  /\ life'  = [life EXCEPT ![o] = "live"]
  /\ rc'    = [rc EXCEPT ![o] = 1]
  /\ okind' = [okind EXCEPT ![o] = kind]
  /\ Goto(t, "alloc")
  /\ op'  = [op EXCEPT ![t] = "Create"]
  /\ knd' = [knd EXCEPT ![t] = kind]
  /\ ptr' = [ptr EXCEPT ![t] = o]
  /\ UNCHANGED <<slotVars, hnd, inf, left, ret>>

CreateMutexA(t, o, initial_owner) ==
  /\ NewObject(t, o, "H_MUTEX")
  /\ owner' = [owner EXCEPT ![o] = IF initial_owner THEN t ELSE NoThread]
  /\ depth' = [depth EXCEPT ![o] = IF initial_owner THEN 1 ELSE 0]
  /\ UNCHANGED <<signaled, manual, count>>

CreateEventA(t, o, manual_reset, initial_state) ==
  /\ NewObject(t, o, "H_EVENT")
  /\ manual'   = [manual EXCEPT ![o] = manual_reset]
  /\ signaled' = [signaled EXCEPT ![o] = initial_state]
  /\ UNCHANGED <<owner, depth, count>>

CreateSemaphoreA(t, o, initial) ==
  /\ NewObject(t, o, "H_SEMAPHORE")
  /\ count' = [count EXCEPT ![o] = initial]
  /\ UNCHANGED <<owner, depth, signaled, manual>>

\* The object's only reference passes from the call to the slot.
HandleAllocSync(t) ==
  /\ pc[t] = "alloc"
  /\ \E s \in FreeSlots :
       /\ FirstFree(s)
       /\ slotKind' = [slotKind EXCEPT ![s] = knd[t]]
       /\ slotPtr'  = [slotPtr EXCEPT ![s] = ptr[t]]
  /\ Return(t, "TRUE")
  /\ UNCHANGED <<heapVars, dataVars>>

\* Table full: the caller destroys the object itself (INVALID_HANDLE_VALUE).
HandleAllocSyncFull(t) ==
  /\ pc[t] = "alloc"
  /\ FreeSlots = {}
  /\ Free(ptr[t])
  /\ Return(t, "FALSE")
  /\ UNCHANGED <<slotVars, rc>>

-----------------------------------------------------------------------------
(* The lookup every call on a handle starts with: kind and pointer are     *)
(* read, and the count is raised, in one section under g_handles_mu.       *)

LookupRetain(t, name, s) ==
  /\ Retain(slotPtr[s])
  /\ Goto(t, "act")
  /\ op'  = [op EXCEPT ![t] = name]
  /\ hnd' = [hnd EXCEPT ![t] = s]
  /\ knd' = [knd EXCEPT ![t] = slotKind[s]]
  /\ ptr' = [ptr EXCEPT ![t] = slotPtr[s]]
  /\ UNCHANGED <<ret, slotVars, life, okind, dataVars>>

LookupFails(t, value) ==
  /\ Return(t, value)
  /\ UNCHANGED <<slotVars, heapVars, dataVars>>

WaitForSingleObject(t, s, infinite) ==
  /\ pc[t] = "idle"
  /\ \/ /\ slotKind[s] \in SyncKinds
        /\ inf' = [inf EXCEPT ![t] = infinite]
        /\ left' = left
        /\ LookupRetain(t, "WaitForSingleObject", s)
     \/ /\ slotKind[s] \notin SyncKinds
        /\ LookupFails(t, "WAIT_FAILED")

\* The calls that accept one kind of object only.
SignalCall(t, name, kind, s, n) ==
  /\ pc[t] = "idle"
  /\ \/ /\ slotKind[s] = kind
        /\ left' = [left EXCEPT ![t] = n]
        /\ inf' = inf
        /\ LookupRetain(t, name, s)
     \/ /\ slotKind[s] # kind
        /\ LookupFails(t, "FALSE")

ReleaseMutex(t, s)        == SignalCall(t, "ReleaseMutex", "H_MUTEX", s, 0)
SetEvent(t, s)            == SignalCall(t, "SetEvent", "H_EVENT", s, 0)
ResetEvent(t, s)          == SignalCall(t, "ResetEvent", "H_EVENT", s, 0)
ReleaseSemaphore(t, s, n) == SignalCall(t, "ReleaseSemaphore", "H_SEMAPHORE", s, n)

-----------------------------------------------------------------------------
(* What a call does to the object, outside g_handles_mu.                   *)

Acting(t, name, kind) == pc[t] = "act" /\ op[t] = name /\ knd[t] = kind
Waiting(t, kind)      == Acting(t, "WaitForSingleObject", kind)

\* pthread_mutex_lock / timedlock on a recursive mutex.
AcquireMutex(t) ==
  LET o == ptr[t] IN
  /\ Waiting(t, "H_MUTEX")
  /\ owner[o] \in {NoThread, t}
  /\ owner' = [owner EXCEPT ![o] = t]
  /\ depth' = [depth EXCEPT ![o] = @ + 1]
  /\ Done(t, "WAIT_OBJECT_0")
  /\ UNCHANGED <<slotVars, heapVars, signaled, manual, count, left>>

\* sem_wait / sem_timedwait.
AcquireSemaphore(t) ==
  LET o == ptr[t] IN
  /\ Waiting(t, "H_SEMAPHORE")
  /\ count[o] > 0
  /\ count' = [count EXCEPT ![o] = @ - 1]
  /\ Done(t, "WAIT_OBJECT_0")
  /\ UNCHANGED <<slotVars, heapVars, owner, depth, signaled, manual, left>>

\* ETIMEDOUT from timedlock or sem_timedwait.
WaitTimesOut(t) ==
  /\ \/ Waiting(t, "H_MUTEX") /\ owner[ptr[t]] \notin {NoThread, t}
     \/ Waiting(t, "H_SEMAPHORE") /\ count[ptr[t]] = 0
  /\ ~inf[t]
  /\ Done(t, "WAIT_TIMEOUT")
  /\ UNCHANGED <<slotVars, heapVars, dataVars, left>>

\* EINTR: SIGUSR1 (SuspendThread) is installed without SA_RESTART, so a
\* sem_wait it interrupts fails with an errno other than ETIMEDOUT.
SemaphoreWaitInterrupted(t) ==
  /\ Waiting(t, "H_SEMAPHORE")
  /\ count[ptr[t]] = 0
  /\ Done(t, "WAIT_FAILED")
  /\ UNCHANGED <<slotVars, heapVars, dataVars, left>>

\* The event branch, under ev->mu.  A thread in pthread_cond_wait is
\* "asleep"; woken, it re-tests the flag ("act"); past its deadline it tests
\* the flag a last time ("timedout").
TakeEvent(t) ==
  LET o == ptr[t] IN
  /\ signaled' = [signaled EXCEPT ![o] = manual[o]]
  /\ Done(t, "WAIT_OBJECT_0")
  /\ UNCHANGED <<slotVars, heapVars, owner, depth, manual, count, left>>

AcquireEvent(t) ==
  /\ Waiting(t, "H_EVENT") \/ pc[t] = "timedout"
  /\ signaled[ptr[t]]
  /\ TakeEvent(t)

SleepOnEvent(t) ==
  /\ Waiting(t, "H_EVENT")
  /\ ~signaled[ptr[t]]
  /\ Goto(t, "asleep")
  /\ UNCHANGED <<slotVars, heapVars, dataVars, op, hnd, knd, ptr, inf, left, ret>>

SpuriousWakeup(t) ==
  /\ pc[t] = "asleep"
  /\ Goto(t, "act")
  /\ UNCHANGED <<slotVars, heapVars, dataVars, op, hnd, knd, ptr, inf, left, ret>>

EventDeadline(t) ==
  /\ pc[t] = "asleep"
  /\ ~inf[t]
  /\ Goto(t, "timedout")
  /\ UNCHANGED <<slotVars, heapVars, dataVars, op, hnd, knd, ptr, inf, left, ret>>

EventTimesOut(t) ==
  /\ pc[t] = "timedout"
  /\ ~signaled[ptr[t]]
  /\ Done(t, "WAIT_TIMEOUT")
  /\ UNCHANGED <<slotVars, heapVars, dataVars, left>>

Sleepers(o) == {t \in Threads : pc[t] = "asleep" /\ ptr[t] = o}

\* Mutant of Woken: nobody wakes those who sleep on a manual-reset event.
WokenIfAuto(o) == IF manual[o] \/ Sleepers(o) = {} THEN {{}} ELSE {{w} : w \in Sleepers(o)}

\* The sets of threads that pthread_cond_broadcast or _signal may wake.
Woken(o) == IF manual[o] THEN {Sleepers(o)}
            ELSE IF Sleepers(o) = {} THEN {{}} ELSE {{w} : w \in Sleepers(o)}

\* event_signal, also the event branch of undo_wait_acquire.
EventSignal(t) ==
  LET o == ptr[t] IN
  /\ Acting(t, "SetEvent", "H_EVENT") \/ Acting(t, "undo_wait_acquire", "H_EVENT")
  /\ signaled' = [signaled EXCEPT ![o] = TRUE]
  /\ \E W \in Woken(o) :
       pc' = [u \in Threads |-> IF u = t THEN "release"
                                ELSE IF u \in W THEN "act" ELSE pc[u]]
  /\ ret' = [ret EXCEPT ![t] = "TRUE"]
  /\ UNCHANGED <<slotVars, heapVars, owner, depth, manual, count, op, hnd, knd, ptr, inf, left>>

EventReset(t) ==
  /\ Acting(t, "ResetEvent", "H_EVENT")
  /\ signaled' = [signaled EXCEPT ![ptr[t]] = FALSE]
  /\ Done(t, "TRUE")
  /\ UNCHANGED <<slotVars, heapVars, owner, depth, manual, count, left>>

\* Mutant of Unlocked: a mutex that anybody may unlock.
UnlockedByAnyone(t, o) == /\ depth' = [depth EXCEPT ![o] = @ - 1]
                          /\ owner' = [owner EXCEPT ![o] = IF depth[o] = 1 THEN NoThread ELSE t]

\* pthread_mutex_unlock: refused (EPERM, ignored) unless the caller owns it.
Unlocked(t, o) ==
  IF owner[o] # t THEN UNCHANGED <<owner, depth>>
  ELSE /\ depth' = [depth EXCEPT ![o] = @ - 1]
       /\ owner' = [owner EXCEPT ![o] = IF depth[o] = 1 THEN NoThread ELSE t]

MutexUnlock(t) ==
  /\ Acting(t, "ReleaseMutex", "H_MUTEX") \/ Acting(t, "undo_wait_acquire", "H_MUTEX")
  /\ Unlocked(t, ptr[t])
  /\ Done(t, "TRUE")
  /\ UNCHANGED <<slotVars, heapVars, signaled, manual, count, left>>

\* One turn of the sem_post loop.
SemaphorePost(t) ==
  LET o == ptr[t] IN
  /\ Acting(t, "ReleaseSemaphore", "H_SEMAPHORE") \/ Acting(t, "undo_wait_acquire", "H_SEMAPHORE")
  /\ left[t] > 0
  /\ count' = [count EXCEPT ![o] = @ + 1]
  /\ left'  = [left EXCEPT ![t] = @ - 1]
  /\ UNCHANGED <<slotVars, heapVars, owner, depth, signaled, manual, pc, op, hnd, knd, ptr, inf, ret>>

SemaphorePosted(t) ==
  /\ Acting(t, "ReleaseSemaphore", "H_SEMAPHORE") \/ Acting(t, "undo_wait_acquire", "H_SEMAPHORE")
  /\ left[t] = 0
  /\ Done(t, "TRUE")
  /\ UNCHANGED <<slotVars, heapVars, dataVars, left>>

-----------------------------------------------------------------------------
(* The bottom of every call: drop the reference under g_handles_mu and, if *)
(* it was the last one, destroy the object after unlocking g_handles_mu.   *)

\* Mutants of LastRef: CloseHandle destroys whatever the count; the count is
\* tested before it is decremented.
ClosedIsLast(t)    == op[t] = "CloseHandle" \/ rc[ptr[t]] = 1
TestedTooEarly(t)  == rc[ptr[t]] = 0

LastRef(t) == rc[ptr[t]] = 1

\* Only WaitForSingleObject unlocks a mutex it has just acquired.
MustUnlock(t) == /\ op[t] = "WaitForSingleObject"
                 /\ knd[t] = "H_MUTEX"
                 /\ ret[t] = "WAIT_OBJECT_0"

ReleaseRef(t) ==
  /\ pc[t] = "release"
  /\ DropRef(ptr[t])
  /\ \/ /\ ~LastRef(t)
        /\ Leave(t)
     \/ /\ LastRef(t)
        /\ Goto(t, IF MustUnlock(t) THEN "unlock" ELSE "destroy")
        /\ UNCHANGED <<op, hnd, knd, ptr, inf, left>>
  /\ UNCHANGED <<slotVars, life, okind, dataVars, ret>>

UnlockLast(t) ==
  /\ pc[t] = "unlock"
  /\ Unlocked(t, ptr[t])
  /\ Goto(t, "destroy")
  /\ UNCHANGED <<slotVars, heapVars, signaled, manual, count, op, hnd, knd, ptr, inf, left, ret>>

SyncObjDestroy(t) ==
  /\ pc[t] = "destroy"
  /\ Free(ptr[t])
  /\ Leave(t)
  /\ UNCHANGED <<slotVars, rc, ret>>

-----------------------------------------------------------------------------
(* CloseHandle clears the slot in one section under g_handles_mu and drops *)
(* the slot's reference in another.                                        *)

Duplicating(s) == \E t \in Threads : pc[t] = "dup" /\ hnd[t] = s

ClearSlot(t, name, s) ==
  /\ slotKind' = [slotKind EXCEPT ![s] = "H_FREE"]
  /\ Goto(t, "release")
  /\ op'  = [op EXCEPT ![t] = name]
  /\ hnd' = [hnd EXCEPT ![t] = s]
  /\ knd' = [knd EXCEPT ![t] = slotKind[s]]
  /\ ptr' = [ptr EXCEPT ![t] = slotPtr[s]]
  /\ ret' = [ret EXCEPT ![t] = "TRUE"]
  /\ UNCHANGED <<slotPtr, heapVars, dataVars, inf, left>>

CloseHandle(t, s) ==
  /\ pc[t] = "idle"
  /\ RacyDup \/ ~Duplicating(s)
  /\ \/ slotKind[s] # "H_FREE" /\ ClearSlot(t, "CloseHandle", s)
     \/ slotKind[s] = "H_FREE" /\ LookupFails(t, "FALSE")

(* DuplicateHandle reads the source's kind without g_handles_mu, then      *)
(* copies the source slot and raises the count under it, without looking   *)
(* at the kind again.                                                      *)
DuplicateHandle(t, s, close_source) ==
  /\ pc[t] = "idle"
  /\ RacyDup \/ slotKind[s] # "H_FREE"
  /\ Goto(t, "dup")
  /\ op'  = [op EXCEPT ![t] = IF close_source THEN "DuplicateCloseSource" ELSE "DuplicateHandle"]
  /\ hnd' = [hnd EXCEPT ![t] = s]
  /\ knd' = [knd EXCEPT ![t] = slotKind[s]]
  /\ UNCHANGED <<slotVars, heapVars, dataVars, ptr, inf, left, ret>>

DuplicateSlot(t) ==
  LET src == hnd[t] IN
  /\ pc[t] = "dup"
  /\ \E s \in FreeSlots :
       /\ FirstFree(s)
       /\ slotKind' = [slotKind EXCEPT ![s] = slotKind[src]]
       /\ slotPtr'  = [slotPtr EXCEPT ![s] = slotPtr[src]]
  /\ IF knd[t] \in SyncKinds THEN Retain(slotPtr[src]) ELSE UNCHANGED rc
  /\ \/ /\ op[t] = "DuplicateHandle"
        /\ Return(t, "TRUE")
     \/ /\ op[t] = "DuplicateCloseSource"
        /\ Goto(t, "dupclose")
        /\ UNCHANGED <<op, hnd, knd, ptr, inf, left, ret>>
  /\ UNCHANGED <<life, okind, dataVars>>

DuplicateFull(t) ==
  /\ pc[t] = "dup"
  /\ FreeSlots = {}
  /\ LookupFails(t, "FALSE")

\* DUPLICATE_CLOSE_SOURCE: CloseHandle(src), whose result is not looked at.
DuplicateCloses(t) ==
  LET s == hnd[t] IN
  /\ pc[t] = "dupclose"
  /\ RacyDup \/ ~Duplicating(s)
  /\ \/ slotKind[s] # "H_FREE" /\ ClearSlot(t, "DuplicateCloseSource", s)
     \/ slotKind[s] = "H_FREE" /\ LookupFails(t, "TRUE")

-----------------------------------------------------------------------------
\* Bounds of the model: how deep the program nests one mutex, and how far it
\* raises one semaphore.
DepthBound(t, s) == slotKind[s] = "H_MUTEX" /\ owner[slotPtr[s]] = t => depth[slotPtr[s]] < MaxDepth
CountBound(s, n) == slotKind[s] = "H_SEMAPHORE" => count[slotPtr[s]] + n <= MaxCount

\* A call the program makes.
Create(t) ==
  \E o \in Objs :
    \/ \E b \in BOOLEAN : CreateMutexA(t, o, b)
    \/ \E m, b \in BOOLEAN : CreateEventA(t, o, m, b)
    \/ \E n \in 0 .. MaxCount : CreateSemaphoreA(t, o, n)

Call(t) ==
  \E s \in Slots :
    \/ DepthBound(t, s) /\ \E b \in BOOLEAN : WaitForSingleObject(t, s, b)
    \/ ReleaseMutex(t, s)
    \/ SetEvent(t, s)
    \/ ResetEvent(t, s)
    \/ \E n \in 1 .. MaxRelease : CountBound(s, n) /\ ReleaseSemaphore(t, s, n)
    \/ CloseHandle(t, s)
    \/ \E b \in BOOLEAN : DuplicateHandle(t, s, b)

\* A step inside a call that depends on nobody else.
Progress(t) ==
  \/ HandleAllocSync(t) \/ HandleAllocSyncFull(t)
  \/ AcquireMutex(t) \/ AcquireSemaphore(t) \/ AcquireEvent(t)
  \/ SleepOnEvent(t) \/ EventTimesOut(t)
  \/ EventSignal(t) \/ EventReset(t) \/ MutexUnlock(t)
  \/ SemaphorePost(t) \/ SemaphorePosted(t)
  \/ ReleaseRef(t) \/ UnlockLast(t) \/ SyncObjDestroy(t)
  \/ DuplicateSlot(t) \/ DuplicateFull(t) \/ DuplicateCloses(t)

Deadline(t) == WaitTimesOut(t) \/ EventDeadline(t)

Disturbed(t) == SpuriousWakeup(t) \/ SemaphoreWaitInterrupted(t)

Next == \E t \in Threads :
          Create(t) \/ Call(t) \/ Progress(t) \/ Deadline(t) \/ Disturbed(t)

Spec == Init /\ [][Next]_vars

\* The kernel runs every runnable thread, and an absolute deadline passes
\* however often the sleeper is woken before it.  The program owes nothing.
Fairness == \A t \in Threads : WF_vars(Progress(t)) /\ SF_vars(Deadline(t))

FairSpec == Spec /\ Fairness

-----------------------------------------------------------------------------
(* Properties.                                                             *)

\* Program counters at which a call owns one count of its object.
Holding == {"alloc", "act", "asleep", "timedout", "release"}

SlotRefs(o)  == {s \in Slots : slotKind[s] # "H_FREE" /\ slotPtr[s] = o}
FrameRefs(o) == {t \in Threads : pc[t] \in Holding /\ ptr[t] = o}
Destroyers(o) == {t \in Threads : pc[t] \in {"unlock", "destroy"} /\ ptr[t] = o}

(* refcount, "protected by g_handles_mu" (shim.cpp:361-363), counts        *)
(* exactly the open slots and the calls in flight on a live object.        *)
RefCountExact ==
  \A o \in Objs : life[o] = "live" =>
     rc[o] = Cardinality(SlotRefs(o)) + Cardinality(FrameRefs(o))

(* No step of any call touches a freed object and no open handle leads to  *)
(* one: what the bump before the unlock in WaitForSingleObject is for.     *)
NoUseAfterFree ==
  /\ \A s \in Slots : slotKind[s] # "H_FREE" => slotPtr[s] \in Objs /\ life[slotPtr[s]] = "live"
  /\ \A t \in Threads : pc[t] \in Holding \cup {"unlock", "destroy"} =>
        ptr[t] \in Objs /\ life[ptr[t]] = "live"

(* sync_obj_destroy runs for an object nobody can reach any more, in one   *)
(* thread only; and an object nobody can reach is being destroyed.         *)
DestroyedOnceUnreachable ==
  \A o \in Objs :
    /\ \A t, u \in Destroyers(o) : t = u
    /\ Destroyers(o) # {} => SlotRefs(o) = {} /\ FrameRefs(o) = {}
    /\ life[o] = "live" => SlotRefs(o) \cup FrameRefs(o) # {} \/ Destroyers(o) # {}

(* A set event with sleepers on its condition variable always has a thread *)
(* awake that will take the event or pass through: no lost wakeup between  *)
(* event_signal and the wait loop.                                         *)
NoLostWakeup ==
  \A o \in Objs :
    life[o] = "live" /\ okind[o] = "H_EVENT" /\ signaled[o] /\ Sleepers(o) # {} =>
      \E t \in Threads : ptr[t] = o /\ op[t] = "WaitForSingleObject" /\ pc[t] \in {"act", "timedout"}

(* Once its last handle is closed, an object is freed, or some call on it  *)
(* blocks without a deadline.                                              *)
BlockedForever(o) ==
  \E t \in Threads : ptr[t] = o /\ inf[t] /\ op[t] = "WaitForSingleObject" /\ pc[t] \in {"act", "asleep"}

ClosedIsFreed ==
  \A o \in Objs :
    (life[o] = "live" /\ SlotRefs(o) = {}) ~> (life[o] = "freed" \/ SlotRefs(o) # {} \/ BlockedForever(o))

-----------------------------------------------------------------------------
(* The inductive invariant behind RefCountExact, NoUseAfterFree and        *)
(* DestroyedOnceUnreachable (SyncHandlesProofs).                           *)

Destroying == {"unlock", "destroy"}

\* A destroyer found the count at 0, it is alone, and every live object whose
\* count is 0 has one.
DestroyerCount == /\ \A t \in Threads : pc[t] \in Destroying => rc[ptr[t]] = 0
                  /\ \A t, u \in Threads : pc[t] \in Destroying /\ pc[u] \in Destroying
                                            /\ ptr[t] = ptr[u] => t = u
                  /\ \A o \in Objs : life[o] = "live" /\ rc[o] = 0 =>
                        \E t \in Threads : pc[t] \in Destroying /\ ptr[t] = o

\* Until it is in the table, a new object is known to its creator only.
AllocExclusive ==
  \A t \in Threads : pc[t] = "alloc" =>
    /\ knd[t] \in SyncKinds
    /\ \A s \in Slots : slotKind[s] # "H_FREE" => slotPtr[s] # ptr[t]
    /\ \A u \in Threads : pc[u] \in Holding \cup Destroying /\ ptr[u] = ptr[t] => u = t

\* A program that does not race on DuplicateHandle keeps its source open.
DupSourceOpen ==
  /\ \A t \in Threads : pc[t] = "dup" => /\ hnd[t] \in Slots
                                         /\ knd[t] \in SyncKinds
                                         /\ slotKind[hnd[t]] # "H_FREE"
  /\ \A t \in Threads : pc[t] = "dupclose" => hnd[t] \in Slots

IndInv == /\ RefCountExact
          /\ NoUseAfterFree
          /\ DestroyerCount
          /\ AllocExclusive
          /\ DupSourceOpen

=============================================================================
