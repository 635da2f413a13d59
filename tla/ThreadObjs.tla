------------------------------ MODULE ThreadObjs ------------------------------
(***************************************************************************)
(* Threads of the converted program and the ThreadObj behind an H_THREAD   *)
(* handle: CreateThread and its trampoline, ExitThread, waiting for a      *)
(* thread, closing and duplicating its handles (GetCurrentThread's -2      *)
(* too), SuspendThread and ResumeThread over SIGUSR1 and a semaphore.      *)
(*                                                                         *)
(* Callers are threads the shim did not create (main); Kids are the ones   *)
(* CreateThread starts.  A handle is a count of open slots here: the table *)
(* itself is in SyncHandles, and may be full at any time because of the    *)
(* handles of other kinds in it.                                           *)
(***************************************************************************)
EXTENDS Integers, FiniteSets

CONSTANTS
  Callers,       \* unmanaged threads, which make the calls
  Kids,          \* threads CreateThread may start
  Objs,          \* addresses malloc may return
  Null,
  MaxOpen,       \* bound: open handles of one thread
  MaxSuspend,    \* bound: suspend_count of one thread
  MaxSem,        \* bound: value of one suspend_sem
  CloseRunning,  \* may the program close the last handle of a running thread?
  StaleSelf      \* may a caller duplicate -2 after, or while, what it got is closed?

ASSUME PeopleAssumption == /\ IsFiniteSet(Callers) /\ IsFiniteSet(Kids) /\ Callers \cap Kids = {}
                           /\ Null \notin Objs \cup Callers \cup Kids
ASSUME LimitAssumption  == MaxOpen \in Nat /\ MaxSuspend \in Nat /\ MaxSem \in Nat
ASSUME HabitAssumption  == {CloseRunning, StaleSelf} \subseteq BOOLEAN

VARIABLES
  life,    \* whether an address is unused, allocated or freed
  rc,      \* ThreadObj.refcount
  open,    \* slots of g_handles that lead to the object
  tid,     \* ThreadObj.tid: the kid, or Null for 0
  done,    \* ThreadObj.done
  mu,      \* ThreadObj.mu: its holder
  susp,    \* ThreadObj.suspend_count
  sem,     \* ThreadObj.suspend_sem
  key,     \* g_thread_obj_key of every thread
  kpc,     \* where in the trampoline a kid is
  start,   \* its ThreadStart.obj
  gated,   \* its ThreadStart.create_suspended
  sig,     \* SIGUSR1 is pending for it
  frozen,  \* it is inside suspend_signal_handler
  pc,      \* where in its call a caller is
  fn,      \* the call
  at,      \* the object it works on
  saw,     \* the value of done that sync_obj_destroy read
  inf      \* the wait has no deadline

objVars  == <<life, rc, open, tid, done, mu, susp, sem>>
kidVars  == <<kpc, start, gated, sig, frozen>>
callVars == <<pc, fn, at, saw, inf>>
vars     == <<objVars, key, kidVars, callVars>>

Fns == {"none", "Wait", "GetExitCode", "Suspend", "Resume", "Close", "DupSelf"}

Init ==
  /\ life = [o \in Objs |-> "unborn"]
  /\ rc   = [o \in Objs |-> 0] /\ open = [o \in Objs |-> 0]
  /\ tid  = [o \in Objs |-> Null]
  /\ done = [o \in Objs |-> FALSE]
  /\ mu   = [o \in Objs |-> Null]
  /\ susp = [o \in Objs |-> 0] /\ sem = [o \in Objs |-> 0]
  /\ key  = [x \in Callers \cup Kids |-> Null]
  /\ kpc  = [k \in Kids |-> "unborn"]
  /\ start = [k \in Kids |-> Null]
  /\ gated = [k \in Kids |-> FALSE] /\ sig = [k \in Kids |-> FALSE] /\ frozen = [k \in Kids |-> FALSE]
  /\ pc   = [p \in Callers |-> "idle"]
  /\ fn   = [p \in Callers |-> "none"]
  /\ at   = [p \in Callers |-> Null]
  /\ saw  = [p \in Callers |-> FALSE] /\ inf = [p \in Callers |-> FALSE]

-----------------------------------------------------------------------------
(* A caller's way through its call.                                        *)

Begin(p, f, o, where) ==
  /\ pc' = [pc EXCEPT ![p] = where]
  /\ fn' = [fn EXCEPT ![p] = f]
  /\ at' = [at EXCEPT ![p] = o]

Move(p, where) == pc' = [pc EXCEPT ![p] = where] /\ UNCHANGED <<fn, at, saw, inf>>

Leave(p) ==
  /\ pc'  = [pc EXCEPT ![p] = "idle"]
  /\ fn'  = [fn EXCEPT ![p] = "none"]
  /\ at'  = [at EXCEPT ![p] = Null]
  /\ saw' = [saw EXCEPT ![p] = FALSE]
  /\ inf' = [inf EXCEPT ![p] = FALSE]

\* A step of p that concerns no object.
NoObject == UNCHANGED <<objVars, key, kidVars>>

-----------------------------------------------------------------------------
(* CreateThread: object, slot and pthread in one call; nobody else can     *)
(* know the handle before it returns.                                      *)

CreateThread(p, k, o, create_suspended) ==
  /\ pc[p] = "idle" /\ kpc[k] = "unborn" /\ life[o] = "unborn"
  /\ life' = [life EXCEPT ![o] = "live"]
  /\ rc'   = [rc EXCEPT ![o] = 1]
  /\ open' = [open EXCEPT ![o] = 1]
  /\ tid'  = [tid EXCEPT ![o] = k]
  /\ susp' = [susp EXCEPT ![o] = IF create_suspended THEN 1 ELSE 0]
  /\ kpc'   = [kpc EXCEPT ![k] = "starting"]
  /\ start' = [start EXCEPT ![k] = o]
  /\ gated' = [gated EXCEPT ![k] = create_suspended]
  /\ UNCHANGED <<done, mu, sem, key, sig, frozen, callVars>>

\* The table is full, or pthread_create fails: everything is undone.
CreateThreadFails(p, o) ==
  /\ pc[p] = "idle" /\ life[o] = "unborn"
  /\ life' = [life EXCEPT ![o] = "freed"]
  /\ UNCHANGED <<rc, open, tid, done, mu, susp, sem, key, kidVars, callVars>>

(* The trampoline.  A signal is handled between any two of its steps.      *)

\* TEB, TLS callbacks and static TLS are set up; the key is set.
Attach(k) ==
  /\ kpc[k] = "starting" /\ ~frozen[k]
  /\ key' = [key EXCEPT ![k] = start[k]]
  /\ kpc' = [kpc EXCEPT ![k] = IF gated[k] THEN "gate" ELSE "run"]
  /\ UNCHANGED <<objVars, start, gated, sig, frozen, callVars>>

TakeToken(o) == sem[o] > 0 /\ sem' = [sem EXCEPT ![o] = @ - 1]

\* CREATE_SUSPENDED: sem_wait until the first ResumeThread.
PassGate(k) ==
  /\ kpc[k] = "gate" /\ ~frozen[k]
  /\ TakeToken(start[k])
  /\ kpc' = [kpc EXCEPT ![k] = "run"]
  /\ UNCHANGED <<life, rc, open, tid, done, mu, susp, key, start, gated, sig, frozen, callVars>>

\* Mutant of Awakened: no broadcast.
NobodyAwakened(o) == pc

\* The callers' program counters after pthread_cond_broadcast.
Awakened(o) == [p \in Callers |-> IF pc[p] = "asleep" /\ at[p] = o THEN "act" ELSE pc[p]]

\* thread_finish, from the end of fn or from ExitThread: done and the
\* broadcast are one section under mu, which is still held afterwards.
Finish(k) ==
  LET o == start[k] IN
  /\ kpc[k] = "run" /\ ~frozen[k]
  /\ mu[o] = Null
  /\ mu'   = [mu EXCEPT ![o] = k]
  /\ done' = [done EXCEPT ![o] = TRUE]
  /\ pc'   = Awakened(o)
  /\ kpc'  = [kpc EXCEPT ![k] = "unlock"]
  /\ UNCHANGED <<life, rc, open, tid, susp, sem, key, start, gated, sig, frozen, fn, at, saw, inf>>

FinishUnlock(k) ==
  /\ kpc[k] = "unlock" /\ ~frozen[k]
  /\ mu'  = [mu EXCEPT ![start[k]] = Null]
  /\ kpc' = [kpc EXCEPT ![k] = "exiting"]
  /\ UNCHANGED <<life, rc, open, tid, done, susp, sem, key, start, gated, sig, frozen, callVars>>

\* Key destructors have run; the pthread is gone.
Exit(k) ==
  /\ kpc[k] = "exiting" /\ ~frozen[k]
  /\ kpc' = [kpc EXCEPT ![k] = "ended"]
  /\ sig' = [sig EXCEPT ![k] = FALSE]
  /\ UNCHANGED <<objVars, key, start, gated, frozen, callVars>>

\* suspend_signal_handler: returns at once if the key is not set, otherwise
\* waits for a token.  SIGUSR1 is blocked meanwhile.
TakeSignal(k) ==
  /\ sig[k] /\ ~frozen[k] /\ kpc[k] \notin {"unborn", "ended"}
  /\ sig'    = [sig EXCEPT ![k] = FALSE]
  /\ frozen' = [frozen EXCEPT ![k] = key[k] # Null]
  /\ UNCHANGED <<objVars, key, kpc, start, gated, callVars>>

Thaw(k) ==
  /\ frozen[k]
  /\ TakeToken(key[k])
  /\ frozen' = [frozen EXCEPT ![k] = FALSE]
  /\ UNCHANGED <<life, rc, open, tid, done, mu, susp, key, kpc, start, gated, sig, callVars>>

-----------------------------------------------------------------------------
(* Calls on an open handle: the lookup raises the count under g_handles_mu.*)

\* Mutant of Retain: the lookup does not count.
NoRetain(o) == rc' = rc

Retain(o) == rc' = [rc EXCEPT ![o] = @ + 1]

Enter(p, f, o, infinite) ==
  /\ pc[p] = "idle" /\ open[o] > 0
  /\ Retain(o)
  /\ Begin(p, f, o, "act")
  /\ inf' = [inf EXCEPT ![p] = infinite]
  /\ UNCHANGED <<life, open, tid, done, mu, susp, sem, key, kidVars, saw>>

Doing(p, f) == pc[p] = "act" /\ fn[p] = f

\* WaitForSingleObject, thread branch, under t->mu.
WaitDone(p) ==
  /\ Doing(p, "Wait") /\ mu[at[p]] = Null /\ done[at[p]]
  /\ Move(p, "release") /\ NoObject

WaitSleeps(p) ==
  /\ Doing(p, "Wait") /\ mu[at[p]] = Null /\ ~done[at[p]]
  /\ Move(p, "asleep") /\ NoObject

WaitTimesOut(p) ==
  /\ pc[p] = "asleep" /\ ~inf[p] /\ mu[at[p]] = Null
  /\ Move(p, "release") /\ NoObject

\* GetExitCodeThread reads done and exit_code under t->mu.
ReadExitCode(p) ==
  /\ Doing(p, "GetExitCode") /\ mu[at[p]] = Null
  /\ Move(p, "release") /\ NoObject

\* SuspendThread: fetch_add, then pthread_kill on the 0 -> 1 transition.  (The
\* object is one of a thread with an id; Suspendable leaves the others out.)
SuspendAdd(p) ==
  LET o == at[p] IN
  /\ Doing(p, "Suspend")
  /\ susp' = [susp EXCEPT ![o] = @ + 1]
  /\ Move(p, IF susp[o] = 0 THEN "kill" ELSE "release")
  /\ UNCHANGED <<life, rc, open, tid, done, mu, sem, key, kidVars>>

Kill(p) ==
  LET k == tid[at[p]] IN
  /\ pc[p] = "kill"
  /\ sig' = [sig EXCEPT ![k] = kpc[k] # "ended"]
  /\ Move(p, "release")
  /\ UNCHANGED <<objVars, key, kpc, start, gated, frozen>>

\* Mutant of AfterSub: no post when the count returns to zero.
AfterSubSilent(prev) == IF prev <= 0 THEN "undo" ELSE "release"

\* What ResumeThread does next, from the value fetch_sub returned.
AfterSub(prev) == IF prev <= 0 THEN "undo" ELSE IF prev = 1 THEN "post" ELSE "release"

ResumeSub(p) ==
  LET o == at[p] IN
  /\ Doing(p, "Resume")
  /\ susp' = [susp EXCEPT ![o] = @ - 1]
  /\ Move(p, AfterSub(susp[o]))
  /\ UNCHANGED <<life, rc, open, tid, done, mu, sem, key, kidVars>>

ResumeUndo(p) ==
  /\ pc[p] = "undo"
  /\ susp' = [susp EXCEPT ![at[p]] = @ + 1]
  /\ Move(p, "release")
  /\ UNCHANGED <<life, rc, open, tid, done, mu, sem, key, kidVars>>

ResumePost(p) ==
  /\ pc[p] = "post"
  /\ sem' = [sem EXCEPT ![at[p]] = @ + 1]
  /\ Move(p, "release")
  /\ UNCHANGED <<life, rc, open, tid, done, mu, susp, key, kidVars>>

-----------------------------------------------------------------------------
(* Dropping a reference, and sync_obj_destroy for a ThreadObj.             *)

Release(p) ==
  LET o == at[p] IN
  /\ pc[p] = "release"
  /\ rc' = [rc EXCEPT ![o] = @ - 1]
  /\ IF rc[o] = 1 THEN Move(p, "inspect") ELSE Leave(p)
  /\ UNCHANGED <<life, open, tid, done, mu, susp, sem, key, kidVars>>

\* done is read under t->mu.
Inspect(p) ==
  /\ pc[p] = "inspect" /\ mu[at[p]] = Null
  /\ saw' = [saw EXCEPT ![p] = done[at[p]]]
  /\ pc'  = [pc EXCEPT ![p] = "reap"]
  /\ NoObject /\ UNCHANGED <<fn, at, inf>>

\* Mutant of Joined: pthread_detach whatever done says.
NeverJoins(o, was_done) == TRUE

\* pthread_join blocks until the kid is gone; pthread_detach does not, and
\* tid 0 marks a wrapper without a pthread of its own.
Joined(o, was_done) == tid[o] # Null /\ was_done => kpc[tid[o]] = "ended"

Reap(p) ==
  /\ pc[p] = "reap"
  /\ Joined(at[p], saw[p])
  /\ life' = [life EXCEPT ![at[p]] = "freed"]
  /\ Leave(p)
  /\ UNCHANGED <<rc, open, tid, done, mu, susp, sem, key, kidVars>>

CloseHandle(p, o) ==
  /\ pc[p] = "idle" /\ open[o] > 0
  /\ CloseRunning \/ open[o] > 1 \/ done[o]
  /\ StaleSelf \/ \A q \in Callers : pc[q] = "self" => at[q] # o
  /\ open' = [open EXCEPT ![o] = @ - 1]
  /\ Begin(p, "Close", o, "release")
  /\ UNCHANGED <<life, rc, tid, done, mu, susp, sem, key, kidVars, saw, inf>>

-----------------------------------------------------------------------------
(* DuplicateHandle, of a thread handle and of GetCurrentThread's -2.       *)

NewSlot(o) == /\ rc'   = [rc EXCEPT ![o] = @ + 1]
              /\ open' = [open EXCEPT ![o] = @ + 1]

DuplicateHandle(p, o) ==
  /\ pc[p] = "idle" /\ open[o] \in 1 .. MaxOpen - 1
  /\ NewSlot(o)
  /\ UNCHANGED <<life, tid, done, mu, susp, sem, key, kidVars, callVars>>

\* A kid finds its own ThreadObj in the key.
DuplicateSelf(k) ==
  /\ kpc[k] = "run" /\ ~frozen[k] /\ open[key[k]] < MaxOpen
  /\ CloseRunning \/ open[key[k]] > 0
  /\ NewSlot(key[k])
  /\ UNCHANGED <<life, tid, done, mu, susp, sem, key, kidVars, callVars>>

\* A thread the shim did not create gets a wrapper, cached in the key ...
WrapSelf(p, o) ==
  /\ pc[p] = "idle" /\ key[p] = Null /\ life[o] = "unborn"
  /\ life' = [life EXCEPT ![o] = "live"]
  /\ done' = [done EXCEPT ![o] = TRUE]
  /\ key'  = [key EXCEPT ![p] = o]
  /\ Begin(p, "DupSelf", o, "self")
  /\ UNCHANGED <<rc, open, tid, mu, susp, sem, kidVars, saw, inf>>

\* ... and used again the next time.
CachedSelf(p) ==
  /\ pc[p] = "idle" /\ key[p] # Null
  /\ StaleSelf \/ open[key[p]] > 0
  /\ open[key[p]] < MaxOpen
  /\ Begin(p, "DupSelf", key[p], "self")
  /\ NoObject /\ UNCHANGED <<saw, inf>>

SelfSlot(p) ==
  /\ pc[p] = "self"
  /\ NewSlot(at[p])
  /\ Leave(p)
  /\ UNCHANGED <<life, tid, done, mu, susp, sem, key, kidVars>>

\* Table full: a wrapper without a slot is freed and forgotten.
SelfFull(p) ==
  LET o == at[p] IN
  /\ pc[p] = "self"
  /\ \/ /\ rc[o] = 0
        /\ life' = [life EXCEPT ![o] = "freed"]
        /\ key'  = [key EXCEPT ![p] = Null]
     \/ /\ rc[o] # 0
        /\ UNCHANGED <<life, key>>
  /\ Leave(p)
  /\ UNCHANGED <<rc, open, tid, done, mu, susp, sem, kidVars>>

-----------------------------------------------------------------------------
Suspendable(o) == tid[o] # Null /\ susp[o] < MaxSuspend

Call(p) ==
  \/ \E k \in Kids, o \in Objs, b \in BOOLEAN : CreateThread(p, k, o, b)
  \/ \E o \in Objs :
       \/ CreateThreadFails(p, o)
       \/ \E b \in BOOLEAN : Enter(p, "Wait", o, b)
       \/ Enter(p, "GetExitCode", o, FALSE)
       \/ Suspendable(o) /\ Enter(p, "Suspend", o, FALSE)
       \/ tid[o] # Null /\ sem[o] < MaxSem /\ Enter(p, "Resume", o, FALSE)
       \/ CloseHandle(p, o)
       \/ DuplicateHandle(p, o)
       \/ WrapSelf(p, o)
  \/ CachedSelf(p)

CallerStep(p) ==
  \/ WaitDone(p) \/ WaitSleeps(p) \/ ReadExitCode(p)
  \/ SuspendAdd(p) \/ Kill(p)
  \/ ResumeSub(p) \/ ResumeUndo(p) \/ ResumePost(p)
  \/ Release(p) \/ Inspect(p) \/ Reap(p)
  \/ SelfSlot(p) \/ SelfFull(p)

\* The steps of a kid the kernel runs; when fn returns is up to the program.
KidStep(k) ==
  Attach(k) \/ PassGate(k) \/ FinishUnlock(k) \/ Exit(k) \/ TakeSignal(k) \/ Thaw(k)

Next ==
  \/ \E p \in Callers : Call(p) \/ CallerStep(p) \/ WaitTimesOut(p)
  \/ \E k \in Kids : KidStep(k) \/ Finish(k) \/ DuplicateSelf(k)

Spec == Init /\ [][Next]_vars

\* The kernel runs runnable threads; a blocked signal handler or sem_wait
\* gets a token that stays available.
Fairness == /\ \A p \in Callers : WF_vars(CallerStep(p))
            /\ \A k \in Kids : WF_vars(KidStep(k))

FairSpec == Spec /\ Fairness

-----------------------------------------------------------------------------
(* Properties.                                                             *)

InCall(o) == {p \in Callers : at[p] = o /\ pc[p] \notin {"idle", "self", "inspect", "reap"}}

(* refcount is the number of open handles plus the calls in flight: the    *)
(* running thread itself owns no reference.                                *)
ThreadRefs ==
  \A o \in Objs : life[o] = "live" => rc[o] = open[o] + Cardinality(InCall(o))

\* The kid still has to touch its ThreadObj: sem_wait or thread_finish.
NeedsObj(k) == kpc[k] \in {"starting", "gate", "run", "unlock"} \/ frozen[k]

(* "refcounted lifetimes": the ThreadObj exists as long as its thread      *)
(* (gate, thread_finish, signal handler) will touch it.                    *)
KidObjAlive == \A k \in Kids : NeedsObj(k) => life[start[k]] = "live"

(* Neither the thread nor any call on it touches a freed ThreadObj,        *)
(* however closing, waiting, suspending and the end of the thread          *)
(* interleave.                                                             *)
ObjAlive == KidObjAlive /\ \A p \in Callers : pc[p] # "idle" => life[at[p]] = "live"

(* A thread whose suspend count is back to zero is not stuck: if it still  *)
(* blocks at its gate or in the signal handler, there is a token for it.   *)
Resumable ==
  (\A p \in Callers : fn[p] \notin {"Suspend", "Resume"}) =>
    \A k \in Kids : (frozen[k] \/ kpc[k] = "gate") /\ susp[start[k]] = 0 => sem[start[k]] > 0

(* If the program stops suspending threads, every call on a thread that    *)
(* has set done returns: no wakeup is lost, a suspended thread gets its    *)
(* token, and the pthread_join in sync_obj_destroy terminates.             *)
NobodySuspends == \A p \in Callers, o \in Objs : fn[p] # "Suspend" /\ susp[o] <= 0

WaitersReleased ==
  <>[]NobodySuspends =>
     \A p \in Callers : (pc[p] # "idle" /\ done[at[p]]) ~> (pc[p] = "idle")

=============================================================================
