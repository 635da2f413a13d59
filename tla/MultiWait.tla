------------------------------ MODULE MultiWait ------------------------------
(***************************************************************************)
(* WaitForMultipleObjects and SignalObjectAndWait, which are loops over    *)
(* the calls of SyncHandles: wait-any and wait-all poll every handle with  *)
(* a zero timeout, and wait-all rolls back what it took before it sleeps.  *)
(* The handles are open when the threads start; the program does not close *)
(* a handle that another of its threads is polling.                        *)
(***************************************************************************)
EXTENDS SyncHandles, Sequences

CONSTANTS
  Lists,   \* the handle lists the program passes (1 to MAXIMUM_WAIT_OBJECTS handles)
  Fns,     \* the composite calls it makes
  Calls,   \* the single calls it makes
  Infinite \* whether a call may wait for INFINITE

ASSUME ListAssumption == \A hs \in Lists : hs \in Seq(Slots) /\ hs # <<>>
ASSUME KindAssumption == Kinds \subseteq SyncKinds
ASSUME FnAssumption   == Fns \subseteq {"any", "all", "signal"} /\ Calls \subseteq Ops /\ Infinite \subseteq BOOLEAN

VARIABLES
  multi,   \* per thread, the locals of the composite call it is in
  tokens   \* history: what the program gave each semaphore, less what it got

mvars == <<vars, multi, tokens>>

Idle  == [fn |-> "none"]

\* How often t holds the mutex o.
Held(t, o) == IF owner[o] = t THEN depth[o] ELSE 0

Set(t, m) == multi' = [multi EXCEPT ![t] = m]
At(t, fns, where) == multi[t].fn \in fns /\ multi[t].at = where /\ pc[t] = "idle"

\* The program has created and duplicated its handles.
MInit ==
  /\ slotPtr \in [Slots -> Objs]
  /\ LET open == {slotPtr[s] : s \in Slots} IN
     /\ life = [o \in Objs |-> IF o \in open THEN "live" ELSE "unborn"]
     /\ rc   = [o \in Objs |-> Cardinality({s \in Slots : slotPtr[s] = o})]
     /\ okind \in [Objs -> Kinds]
     /\ signaled \in [Objs -> BOOLEAN] /\ manual \in [Objs -> BOOLEAN]
     /\ count \in [Objs -> 0 .. MaxCount]
     /\ \A o \in Objs : /\ okind[o] # "H_EVENT" \/ o \notin open => ~signaled[o] /\ ~manual[o]
                        /\ okind[o] # "H_SEMAPHORE" \/ o \notin open => count[o] = 0
  /\ slotKind = [s \in Slots |-> okind[slotPtr[s]]]
  /\ owner = [o \in Objs |-> NoThread]
  /\ depth = [o \in Objs |-> 0]
  /\ pc  = [t \in Threads |-> "idle"]
  /\ op  = [t \in Threads |-> "none"]
  /\ hnd = [t \in Threads |-> Null]
  /\ knd = [t \in Threads |-> "H_FREE"]
  /\ ptr = [t \in Threads |-> Null]
  /\ inf = [t \in Threads |-> FALSE]
  /\ left = [t \in Threads |-> 0]
  /\ ret = [t \in Threads |-> "none"]
  /\ multi = [t \in Threads |-> Idle]
  /\ tokens = count

-----------------------------------------------------------------------------
(* WaitForMultipleObjects.                                                 *)

\* Bound: the list must not nest a mutex deeper than MaxDepth.
Room(t, hs) ==
  \A k \in DOMAIN hs : slotKind[hs[k]] = "H_MUTEX" =>
    Held(t, slotPtr[hs[k]]) + Cardinality({j \in DOMAIN hs : slotPtr[hs[j]] = slotPtr[hs[k]]}) <= MaxDepth

WaitForMultipleObjects(t, hs, fn, infinite) ==
  /\ multi[t].fn = "none" /\ pc[t] = "idle"
  /\ Room(t, hs)
  /\ Set(t, [fn |-> fn, hs |-> hs, i |-> 1, n_acq |-> 0, at |-> "poll",
             inf |-> infinite, fail |-> "WAIT_OBJECT_0",
             entry |-> [o \in Objs |-> Held(t, o)]])
  /\ UNCHANGED <<vars, tokens>>

\* kernel32_WaitForSingleObject(handles[k], 0): the lookup that starts it.
Poll(t, m, k) ==
  /\ WaitForSingleObject(t, m.hs[k], FALSE)
  /\ Set(t, [m EXCEPT !.i = k, !.at = "polled"])

PollFirst(t) == At(t, {"any", "all"}, "poll") /\ Poll(t, multi[t], 1) /\ UNCHANGED tokens

\* i is the last index of the for loop.
LastHandle(m) == m.i = Len(m.hs)

\* Mutant of the next definition: one handle too few is rolled back.
AcquiredShort(m) == IF m.i > 1 THEN m.i - 2 ELSE 0

\* n_acq when the poll of handle i fails.
Acquired(m) == m.i - 1

\* It has returned: the body of the for loop, up to the lookup of the next poll.
PolledAny(t) ==
  LET m == multi[t] IN
  /\ At(t, {"any"}, "polled")
  /\ \/ ret[t] # "WAIT_OBJECT_0" /\ ~LastHandle(m) /\ Poll(t, m, m.i + 1)
     \/ /\ \/ ret[t] = "WAIT_OBJECT_0" /\ Set(t, [m EXCEPT !.at = "done"])
           \/ ret[t] # "WAIT_OBJECT_0" /\ LastHandle(m) /\ Set(t, [m EXCEPT !.at = "check"])
        /\ UNCHANGED vars
  /\ UNCHANGED tokens

\* A failed poll ends the round: handles 1 .. i-1 are to be undone.
PolledAll(t) ==
  LET m == multi[t] IN
  /\ At(t, {"all"}, "polled")
  /\ \/ ret[t] = "WAIT_OBJECT_0" /\ ~LastHandle(m) /\ Poll(t, m, m.i + 1)
     \/ /\ \/ ret[t] = "WAIT_OBJECT_0" /\ LastHandle(m) /\ Set(t, [m EXCEPT !.at = "done"])
           \/ /\ ret[t] # "WAIT_OBJECT_0"
              /\ Set(t, [m EXCEPT !.i = 1, !.n_acq = Acquired(m), !.at = "undo", !.fail = ret[t]])
        /\ UNCHANGED vars
  /\ UNCHANGED tokens

\* Mutant of UndoLookup: without sem_post.
UndoNoPost(t, s) ==
  \/ /\ slotKind[s] \in SyncKinds
     /\ UNCHANGED <<left, inf>>
     /\ LookupRetain(t, "undo_wait_acquire", s)
  \/ slotKind[s] \notin SyncKinds /\ UNCHANGED vars

\* undo_wait_acquire(handles[j]): the lookup retains whatever object the
\* handle leads to now, and nothing if it leads to none.
UndoLookup(t, s) ==
  \/ /\ slotKind[s] \in SyncKinds
     /\ left' = [left EXCEPT ![t] = IF slotKind[s] = "H_SEMAPHORE" THEN 1 ELSE 0]
     /\ inf' = inf
     /\ LookupRetain(t, "undo_wait_acquire", s)
  \/ /\ slotKind[s] \notin SyncKinds
     /\ UNCHANGED vars

UndoNext(t) ==
  LET m == multi[t] IN
  /\ At(t, {"all"}, "undo")
  /\ m.i <= m.n_acq
  /\ UndoLookup(t, m.hs[m.i])
  /\ Set(t, [m EXCEPT !.i = @ + 1])
  /\ UNCHANGED tokens

UndoDone(t) ==
  LET m == multi[t] IN
  /\ At(t, {"all"}, "undo")
  /\ m.i > m.n_acq
  /\ Set(t, [m EXCEPT !.at = IF m.fail = "WAIT_FAILED" THEN "done" ELSE "check"])
  /\ UNCHANGED <<vars, tokens>>

\* There is time left: the nap, and the first poll of the next round.
Nap(t) ==
  /\ At(t, {"any", "all"}, "check")
  /\ Poll(t, [multi[t] EXCEPT !.n_acq = 0, !.fail = "WAIT_OBJECT_0"], 1)
  /\ UNCHANGED tokens

MultiTimesOut(t) ==
  LET m == multi[t] IN
  /\ At(t, {"any", "all"}, "check")
  /\ ~m.inf
  /\ Set(t, [m EXCEPT !.at = "done", !.fail = "WAIT_TIMEOUT"])
  /\ UNCHANGED <<vars, tokens>>

\* The handles whose objects the call gives its caller.
Given(m) == IF m.fail # "WAIT_OBJECT_0" THEN {}
            ELSE IF m.fn = "all" THEN DOMAIN m.hs ELSE {m.i}

GivenTo(m, o) == Cardinality({k \in Given(m) : slotPtr[m.hs[k]] = o})

MultiReturn(t) ==
  LET m == multi[t] IN
  /\ At(t, {"any", "all"}, "done")
  /\ Set(t, Idle)
  /\ ret' = [ret EXCEPT ![t] = m.fail]
  /\ tokens' = [o \in Objs |-> IF okind[o] = "H_SEMAPHORE" THEN tokens[o] - GivenTo(m, o)
                               ELSE tokens[o]]
  /\ UNCHANGED <<slotVars, heapVars, dataVars, pc, op, hnd, knd, ptr, inf, left>>

-----------------------------------------------------------------------------
(* SignalObjectAndWait: signal_handle reads the kind under g_handles_mu    *)
(* and dispatches on it after unlocking; its result is ignored.            *)

SignalObjectAndWait(t, signal, wait, infinite) ==
  /\ multi[t].fn = "none" /\ pc[t] = "idle"
  /\ Room(t, <<wait>>) /\ CountBound(signal, 1)
  /\ Set(t, [fn |-> "signal", hs |-> <<signal, wait>>, inf |-> infinite,
             at |-> IF slotKind[signal] \in SyncKinds THEN slotKind[signal] ELSE "wait"])
  /\ UNCHANGED <<vars, tokens>>

SignalHandle(t) ==
  LET m == multi[t]
      s == m.hs[1]
  IN
  /\ \/ At(t, {"signal"}, "H_MUTEX") /\ ReleaseMutex(t, s)
     \/ At(t, {"signal"}, "H_EVENT") /\ SetEvent(t, s)
     \/ At(t, {"signal"}, "H_SEMAPHORE") /\ ReleaseSemaphore(t, s, 1)
  /\ Set(t, [m EXCEPT !.at = "wait"])
  /\ UNCHANGED tokens

SignalledWait(t) ==
  LET m == multi[t] IN
  /\ At(t, {"signal"}, "wait")
  /\ WaitForSingleObject(t, m.hs[2], m.inf)
  /\ Set(t, Idle)
  /\ UNCHANGED tokens

-----------------------------------------------------------------------------
\* Some thread is in a call on a list that names s.
Listed(s) == \E t \in Threads : multi[t].fn # "none" /\ \E k \in DOMAIN multi[t].hs : multi[t].hs[k] = s

\* Effects on semaphores of calls that are not part of a WaitForMultipleObjects.
Counted(t) == tokens' = IF multi[t].fn \in {"any", "all"} THEN tokens
                        ELSE [o \in Objs |-> tokens[o] + count'[o] - count[o]]

Simple(t) ==
  /\ multi[t].fn = "none" /\ pc[t] = "idle"
  /\ \E s \in Slots :
       \/ "WaitForSingleObject" \in Calls /\ DepthBound(t, s)
            /\ \E b \in Infinite : WaitForSingleObject(t, s, b)
       \/ "ReleaseMutex" \in Calls /\ ReleaseMutex(t, s)
       \/ "SetEvent" \in Calls /\ SetEvent(t, s)
       \/ "ResetEvent" \in Calls /\ ResetEvent(t, s)
       \/ "ReleaseSemaphore" \in Calls /\ CountBound(s, 1) /\ ReleaseSemaphore(t, s, 1)
       \/ "CloseHandle" \in Calls /\ ~Listed(s) /\ CloseHandle(t, s)
  /\ UNCHANGED <<multi, tokens>>

Composite(t) ==
  \/ \E hs \in Lists, fn \in Fns \ {"signal"}, infinite \in Infinite :
       WaitForMultipleObjects(t, hs, fn, infinite)
  \/ "signal" \in Fns /\ \E signal, wait \in Slots, infinite \in Infinite : SignalObjectAndWait(t, signal, wait, infinite)

\* The steps of the single call in progress.
Inner(t) == (Progress(t) \/ Deadline(t) \/ Disturbed(t)) /\ Counted(t) /\ UNCHANGED multi

\* The steps of the composite call between single calls.
Outer(t) ==
  \/ PollFirst(t) \/ PolledAny(t) \/ PolledAll(t)
  \/ UndoNext(t) \/ UndoDone(t) \/ MultiReturn(t)
  \/ SignalHandle(t) \/ SignalledWait(t) \/ Nap(t)

MNext == \E t \in Threads : Simple(t) \/ Composite(t) \/ Inner(t) \/ Outer(t) \/ MultiTimesOut(t)

MSpec == MInit /\ [][MNext]_mvars

-----------------------------------------------------------------------------
(* Between rounds, and when it returns, WaitForMultipleObjects holds       *)
(* exactly what it gives its caller: nothing while it sleeps ("so no       *)
(* handle (e.g. a mutex) stays locked while we wait for the rest") or      *)
(* after a timeout or failure, every mutex of the list after a successful  *)
(* wait-all, and one after a wait-any.                                     *)
AllOrNothing ==
  \A t \in Threads :
    multi[t].fn \in {"any", "all"} /\ multi[t].at \in {"check", "done"} =>
      \A o \in Objs : life[o] = "live" /\ okind[o] = "H_MUTEX" =>
        Held(t, o) - multi[t].entry[o] = IF multi[t].at = "done" THEN GivenTo(multi[t], o) ELSE 0

(* When no call is in flight, a semaphore's count is its initial value     *)
(* plus what ReleaseSemaphore posted, less what successful waits took: the *)
(* polls and the roll-backs of wait-all neither lose nor invent a token.   *)
TokensConserved ==
  (\A t \in Threads : pc[t] = "idle" /\ multi[t].fn = "none") =>
    \A o \in Objs : life[o] = "live" /\ okind[o] = "H_SEMAPHORE" => count[o] = tokens[o]

=============================================================================
