--------------------------- MODULE ThreadObjsProofs ---------------------------
(***************************************************************************)
(* Proofs about ThreadObjs, for any numbers of callers, kids and objects:  *)
(* the reference count is exact and a suspended thread never misses its    *)
(* token, whatever the program does; no thread and no call works on a      *)
(* freed object, if the program is Cautious.                               *)
(*                                                                         *)
(* Three invariants share the types, Linked and Fresh: CountInv adds       *)
(* Counted, LifeInv adds who may still use an object to CountInv, TokenInv *)
(* adds what a kid owes and what its object holds.                         *)
(***************************************************************************)
EXTENDS ThreadObjs, FiniteSetTheorems, TLAPS
-----------------------------------------------------------------------------
(* The parts of the inductive invariants. *)

CallerPCs == {"idle", "act", "asleep", "release", "kill", "undo", "post", "inspect", "reap", "self"}
KidPCs    == {"unborn", "starting", "gate", "run", "unlock", "exiting", "ended"}

ObjType ==
  /\ life \in [Objs -> {"unborn", "live", "freed"}]
  /\ rc \in [Objs -> Int] /\ open \in [Objs -> Nat]
  /\ tid \in [Objs -> Kids \cup {Null}] /\ done \in [Objs -> BOOLEAN]
  /\ mu \in [Objs -> Kids \cup {Null}]
  /\ susp \in [Objs -> Int] /\ sem \in [Objs -> Nat]

KidType ==
  /\ kpc \in [Kids -> KidPCs] /\ start \in [Kids -> Objs \cup {Null}]
  /\ gated \in [Kids -> BOOLEAN] /\ sig \in [Kids -> BOOLEAN] /\ frozen \in [Kids -> BOOLEAN]
  /\ key \in [Callers \cup Kids -> Objs \cup {Null}]

CallType ==
  /\ pc \in [Callers -> CallerPCs] /\ fn \in [Callers -> Fns]
  /\ at \in [Callers -> Objs \cup {Null}]
  /\ saw \in [Callers -> BOOLEAN] /\ inf \in [Callers -> BOOLEAN]

ThreadType == ObjType /\ KidType /\ CallType

(* A call works on an object, a started kid has one, and its key, once     *)
(* set, names it; the signal handler only blocks a kid whose key is set.   *)
Linked ==
  /\ \A p \in Callers : pc[p] # "idle" => at[p] \in Objs
  /\ \A k \in Kids : /\ kpc[k] # "unborn" => start[k] \in Objs
                     /\ kpc[k] \notin {"unborn", "starting"} => key[k] = start[k]
                     /\ kpc[k] \in {"unborn", "starting"} => key[k] = Null
                     /\ frozen[k] => key[k] = start[k] /\ kpc[k] \notin {"unborn", "starting", "ended"}

(* Nobody refers to an object before it is created. *)
Fresh ==
  \A o \in Objs : life[o] = "unborn" =>
    /\ rc[o] = 0 /\ open[o] = 0 /\ tid[o] = Null /\ ~done[o] /\ sem[o] = 0
    /\ \A p \in Callers : at[p] # o /\ key[p] # o
    /\ \A k \in Kids : start[k] # o

(* refcount, whether or not the object is live. *)
Counted == \A o \in Objs : rc[o] = open[o] + Cardinality(InCall(o))

(* p is the only caller busy with its object. *)
Alone(p) == \A q \in Callers : pc[q] # "idle" /\ at[q] = at[p] => q = p

(* Lives: what a call or a kid works on is live; the call that destroys an *)
(* object, and the one that wraps its own thread, is alone with it.        *)
CallsLive ==
  /\ \A o \in Objs : open[o] > 0 => life[o] = "live"
  /\ \A p \in Callers :
       /\ pc[p] # "idle" => life[at[p]] = "live"
       /\ pc[p] \in {"inspect", "reap"} => open[at[p]] = 0 /\ Alone(p)
       /\ pc[p] = "self" => tid[at[p]] = Null /\ (open[at[p]] = 0 => Alone(p))
       /\ pc[p] = "reap" /\ tid[at[p]] # Null => saw[p]
       /\ key[p] # Null => tid[key[p]] = Null

(* A kid and the object CreateThread made for it name each other. *)
Owned ==
  /\ \A o \in Objs : tid[o] # Null => kpc[tid[o]] # "unborn" /\ start[tid[o]] = o
  /\ \A k \in Kids : kpc[k] # "unborn" => tid[start[k]] = k

(* A kid's object stays live until the kid is gone: it is open until done  *)
(* is set, and joined after that.                                          *)
KidsLive ==
  \A k \in Kids :
    /\ kpc[k] \in {"starting", "gate", "run"} => ~done[start[k]] /\ open[start[k]] > 0
    /\ kpc[k] \in {"unlock", "exiting", "ended"} => done[start[k]]
    /\ kpc[k] \notin {"unborn", "ended"} => life[start[k]] = "live"

(* Tokens.  A kid owes one token for its gate, one while it is in the      *)
(* signal handler, one for a pending SIGUSR1 and one for every call about  *)
(* to send it; its object holds the tokens in suspend_sem, those about to  *)
(* be posted, and the one the next return of the count to zero will post.  *)
Posting(o) == {p \in Callers : at[p] = o /\ pc[p] = "post"}
Killing(o) == {p \in Callers : at[p] = o /\ pc[p] = "kill"}
One(b) == IF b THEN 1 ELSE 0
Credit(o) == sem[o] + Cardinality(Posting(o)) + One(susp[o] >= 1)
Debt(k) == One(kpc[k] \in {"starting", "gate"} /\ gated[k]) + One(frozen[k]) + One(sig[k])
             + Cardinality(Killing(start[k]))

Tokens == \A k \in Kids : kpc[k] # "unborn" => Credit(start[k]) >= Debt(k)

(* What a call in its kill, undo or post step is, and whom it is about. *)
Suspending ==
  /\ \A p \in Callers : /\ pc[p] = "kill" => fn[p] = "Suspend"
                        /\ pc[p] \in {"undo", "post"} => fn[p] = "Resume"
                        /\ fn[p] \in {"Suspend", "Resume"} => pc[p] # "idle" /\ tid[at[p]] # Null
  /\ \A k \in Kids : /\ kpc[k] = "gate" => gated[k]
                     /\ kpc[k] = "unborn" => ~sig[k]

(* The calls that look a handle up. *)
Entries == {"Wait", "GetExitCode", "Suspend", "Resume"}

Entering(p, f, o, b) ==
  /\ f \in {"Suspend", "Resume"} => tid[o] # Null
  /\ Enter(p, f, o, b)

(* The actions of Next, one by one. *)
LEMMA NextCases ==
  ASSUME Next
  PROVE
     \/ \E p \in Callers, k \in Kids, o \in Objs, b \in BOOLEAN : CreateThread(p, k, o, b)
     \/ \E p \in Callers, o \in Objs : CreateThreadFails(p, o)
     \/ \E p \in Callers, f \in Entries, o \in Objs, b \in BOOLEAN : Entering(p, f, o, b)
     \/ \E p \in Callers, o \in Objs : CloseHandle(p, o)
     \/ \E p \in Callers, o \in Objs : DuplicateHandle(p, o)
     \/ \E p \in Callers, o \in Objs : WrapSelf(p, o)
     \/ \E p \in Callers : CachedSelf(p)
     \/ \E p \in Callers : WaitDone(p)
     \/ \E p \in Callers : WaitSleeps(p)
     \/ \E p \in Callers : WaitTimesOut(p)
     \/ \E p \in Callers : ReadExitCode(p)
     \/ \E p \in Callers : SuspendAdd(p)
     \/ \E p \in Callers : Kill(p)
     \/ \E p \in Callers : ResumeSub(p)
     \/ \E p \in Callers : ResumeUndo(p)
     \/ \E p \in Callers : ResumePost(p)
     \/ \E p \in Callers : Release(p)
     \/ \E p \in Callers : Inspect(p)
     \/ \E p \in Callers : Reap(p)
     \/ \E p \in Callers : SelfSlot(p)
     \/ \E p \in Callers : SelfFull(p)
     \/ \E k \in Kids : Attach(k)
     \/ \E k \in Kids : PassGate(k)
     \/ \E k \in Kids : FinishUnlock(k)
     \/ \E k \in Kids : Exit(k)
     \/ \E k \in Kids : TakeSignal(k)
     \/ \E k \in Kids : Thaw(k)
     \/ \E k \in Kids : Finish(k)
     \/ \E k \in Kids : DuplicateSelf(k)
  BY DEF Next, Call, CallerStep, KidStep, Entering, Entries, Suspendable

(* The habits under which objects live as long as they are used: the       *)
(* program keeps a handle of a running thread, and a caller does not       *)
(* duplicate -2 once, or while, what it got before is closed.              *)
Cautious == ~CloseRunning /\ ~StaleSelf

(* The types. *)
LEMMA TypeStep ==
  ASSUME ThreadType, Linked, [Next]_vars
  PROVE  ThreadType'
<1> USE PeopleAssumption DEF ThreadType, ObjType, KidType, CallType, CallerPCs, KidPCs, Fns, Linked
<1>0. CASE UNCHANGED vars
  BY <1>0 DEF vars, objVars, kidVars, callVars
<1>1. ASSUME NEW p \in Callers, NEW k \in Kids, NEW o \in Objs, NEW b \in BOOLEAN,
             CreateThread(p, k, o, b)
      PROVE  ThreadType'
  BY <1>1 DEF CreateThread, callVars
<1>2. ASSUME NEW p \in Callers, NEW o \in Objs, CreateThreadFails(p, o) PROVE ThreadType'
  BY <1>2 DEF CreateThreadFails, kidVars, callVars
<1>3. ASSUME NEW p \in Callers, NEW f \in Entries, NEW o \in Objs, NEW b \in BOOLEAN,
             Entering(p, f, o, b)
      PROVE  ThreadType'
  BY <1>3 DEF Entering, Enter, Retain, Begin, kidVars, Entries
<1>4. ASSUME NEW p \in Callers, NEW o \in Objs, CloseHandle(p, o) PROVE ThreadType'
  BY <1>4 DEF CloseHandle, Begin, kidVars
<1>5. ASSUME NEW p \in Callers, NEW o \in Objs, DuplicateHandle(p, o) PROVE ThreadType'
  BY <1>5 DEF DuplicateHandle, NewSlot, kidVars, callVars
<1>6. ASSUME NEW p \in Callers, NEW o \in Objs, WrapSelf(p, o) PROVE ThreadType'
  BY <1>6 DEF WrapSelf, Begin, kidVars
<1>7. ASSUME NEW p \in Callers, CachedSelf(p) PROVE ThreadType'
  BY <1>7 DEF CachedSelf, Begin, NoObject, objVars, kidVars
<1>8. ASSUME NEW p \in Callers, WaitDone(p) PROVE ThreadType'
  BY <1>8 DEF WaitDone, Doing, Move, NoObject, objVars, kidVars
<1>9. ASSUME NEW p \in Callers, WaitSleeps(p) PROVE ThreadType'
  BY <1>9 DEF WaitSleeps, Doing, Move, NoObject, objVars, kidVars
<1>10. ASSUME NEW p \in Callers, WaitTimesOut(p) PROVE ThreadType'
  BY <1>10 DEF WaitTimesOut, Move, NoObject, objVars, kidVars
<1>11. ASSUME NEW p \in Callers, ReadExitCode(p) PROVE ThreadType'
  BY <1>11 DEF ReadExitCode, Doing, Move, NoObject, objVars, kidVars
<1>12. ASSUME NEW p \in Callers, SuspendAdd(p) PROVE ThreadType'
  BY <1>12 DEF SuspendAdd, Doing, Move, kidVars
<1>13. ASSUME NEW p \in Callers, Kill(p) PROVE ThreadType'
  BY <1>13 DEF Kill, Move, objVars
<1>14. ASSUME NEW p \in Callers, ResumeSub(p) PROVE ThreadType'
  BY <1>14 DEF ResumeSub, AfterSub, Doing, Move, kidVars
<1>15. ASSUME NEW p \in Callers, ResumeUndo(p) PROVE ThreadType'
  BY <1>15 DEF ResumeUndo, Move, kidVars
<1>16. ASSUME NEW p \in Callers, ResumePost(p) PROVE ThreadType'
  BY <1>16 DEF ResumePost, Move, kidVars
<1>17. ASSUME NEW p \in Callers, Release(p) PROVE ThreadType'
  <2>0. at[p] \in Objs
    BY <1>17 DEF Release, Linked
  <2>1. ObjType' /\ KidType'
    BY PeopleAssumption, <1>17, <2>0 DEF Release, kidVars, ThreadType, ObjType, KidType
  <2>2. CASE rc[at[p]] = 1
    BY <2>1, <1>17, <2>0, <2>2 DEF Release, Move, ThreadType, CallType, CallerPCs
  <2>3. CASE rc[at[p]] # 1
    <3>1. Leave(p) BY <1>17, <2>3 DEF Release
    <3> QED BY <2>1, <3>1 DEF Leave, ThreadType, CallType, CallerPCs, Fns
  <2> QED BY <2>2, <2>3
<1>18. ASSUME NEW p \in Callers, Inspect(p) PROVE ThreadType'
  BY <1>18 DEF Inspect, NoObject, objVars, kidVars
<1>19. ASSUME NEW p \in Callers, Reap(p) PROVE ThreadType'
  BY <1>19 DEF Reap, Leave, kidVars
<1>20. ASSUME NEW p \in Callers, SelfSlot(p) PROVE ThreadType'
  BY <1>20 DEF SelfSlot, NewSlot, Leave, kidVars
<1>21. ASSUME NEW p \in Callers, SelfFull(p) PROVE ThreadType'
  BY <1>21 DEF SelfFull, Leave, kidVars
<1>22. ASSUME NEW k \in Kids, Attach(k) PROVE ThreadType'
  BY <1>22 DEF Attach, objVars, callVars
<1>23. ASSUME NEW k \in Kids, PassGate(k) PROVE ThreadType'
  BY <1>23 DEF PassGate, TakeToken, callVars
<1>24. ASSUME NEW k \in Kids, FinishUnlock(k) PROVE ThreadType'
  BY <1>24 DEF FinishUnlock, callVars
<1>25. ASSUME NEW k \in Kids, Exit(k) PROVE ThreadType'
  BY <1>25 DEF Exit, objVars, callVars
<1>26. ASSUME NEW k \in Kids, TakeSignal(k) PROVE ThreadType'
  BY <1>26 DEF TakeSignal, objVars, callVars
<1>27. ASSUME NEW k \in Kids, Thaw(k) PROVE ThreadType'
  BY <1>27 DEF Thaw, TakeToken, callVars
<1>28. ASSUME NEW k \in Kids, Finish(k) PROVE ThreadType'
  BY <1>28 DEF Finish, Awakened
<1>29. ASSUME NEW k \in Kids, DuplicateSelf(k) PROVE ThreadType'
  BY <1>29 DEF DuplicateSelf, NewSlot, kidVars, callVars
<1> HIDE DEF ThreadType, ObjType, KidType, CallType, CallerPCs, KidPCs, Fns, Linked
<1> QED BY NextCases, <1>0, <1>1, <1>2, <1>3, <1>4, <1>5, <1>6, <1>7, <1>8, <1>9, <1>10, <1>11,
    <1>12, <1>13, <1>14, <1>15, <1>16, <1>17, <1>18, <1>19, <1>20, <1>21, <1>22, <1>23, <1>24,
    <1>25, <1>26, <1>27, <1>28, <1>29

(* The links between calls, kids and objects. *)
LEMMA LinkStep ==
  ASSUME ThreadType, Linked, Fresh, [Next]_vars
  PROVE  Linked'
<1> USE PeopleAssumption DEF ThreadType, ObjType, KidType, CallType, CallerPCs, KidPCs, Linked,
  Fresh
<1>0. CASE UNCHANGED vars
  BY <1>0 DEF vars, objVars, kidVars, callVars
<1>1. ASSUME NEW p \in Callers, NEW k \in Kids, NEW o \in Objs, NEW b \in BOOLEAN,
             CreateThread(p, k, o, b)
      PROVE  Linked'
  BY <1>1 DEF CreateThread, callVars
<1>2. ASSUME NEW p \in Callers, NEW o \in Objs, CreateThreadFails(p, o) PROVE Linked'
  BY <1>2 DEF CreateThreadFails, kidVars, callVars
<1>3. ASSUME NEW p \in Callers, NEW f \in Entries, NEW o \in Objs, NEW b \in BOOLEAN,
             Entering(p, f, o, b)
      PROVE  Linked'
  BY <1>3 DEF Entering, Enter, Retain, Begin, kidVars, Entries
<1>4. ASSUME NEW p \in Callers, NEW o \in Objs, CloseHandle(p, o) PROVE Linked'
  BY <1>4 DEF CloseHandle, Begin, kidVars
<1>5. ASSUME NEW p \in Callers, NEW o \in Objs, DuplicateHandle(p, o) PROVE Linked'
  BY <1>5 DEF DuplicateHandle, NewSlot, kidVars, callVars
<1>6. ASSUME NEW p \in Callers, NEW o \in Objs, WrapSelf(p, o) PROVE Linked'
  BY <1>6 DEF WrapSelf, Begin, kidVars
<1>7. ASSUME NEW p \in Callers, CachedSelf(p) PROVE Linked'
  BY <1>7 DEF CachedSelf, Begin, NoObject, objVars, kidVars
<1>8. ASSUME NEW p \in Callers, WaitDone(p) PROVE Linked'
  BY <1>8 DEF WaitDone, Doing, Move, NoObject, objVars, kidVars
<1>9. ASSUME NEW p \in Callers, WaitSleeps(p) PROVE Linked'
  BY <1>9 DEF WaitSleeps, Doing, Move, NoObject, objVars, kidVars
<1>10. ASSUME NEW p \in Callers, WaitTimesOut(p) PROVE Linked'
  BY <1>10 DEF WaitTimesOut, Move, NoObject, objVars, kidVars
<1>11. ASSUME NEW p \in Callers, ReadExitCode(p) PROVE Linked'
  BY <1>11 DEF ReadExitCode, Doing, Move, NoObject, objVars, kidVars
<1>12. ASSUME NEW p \in Callers, SuspendAdd(p) PROVE Linked'
  BY <1>12 DEF SuspendAdd, Doing, Move, kidVars
<1>13. ASSUME NEW p \in Callers, Kill(p) PROVE Linked'
  BY <1>13 DEF Kill, Move, objVars
<1>14. ASSUME NEW p \in Callers, ResumeSub(p) PROVE Linked'
  BY <1>14 DEF ResumeSub, AfterSub, Doing, Move, kidVars
<1>15. ASSUME NEW p \in Callers, ResumeUndo(p) PROVE Linked'
  BY <1>15 DEF ResumeUndo, Move, kidVars
<1>16. ASSUME NEW p \in Callers, ResumePost(p) PROVE Linked'
  BY <1>16 DEF ResumePost, Move, kidVars
<1>17. ASSUME NEW p \in Callers, Release(p) PROVE Linked'
  BY <1>17 DEF Release, Move, Leave, kidVars
<1>18. ASSUME NEW p \in Callers, Inspect(p) PROVE Linked'
  BY <1>18 DEF Inspect, NoObject, objVars, kidVars
<1>19. ASSUME NEW p \in Callers, Reap(p) PROVE Linked'
  BY <1>19 DEF Reap, Leave, kidVars
<1>20. ASSUME NEW p \in Callers, SelfSlot(p) PROVE Linked'
  BY <1>20 DEF SelfSlot, NewSlot, Leave, kidVars
<1>21. ASSUME NEW p \in Callers, SelfFull(p) PROVE Linked'
  BY <1>21 DEF SelfFull, Leave, kidVars
<1>22. ASSUME NEW k \in Kids, Attach(k) PROVE Linked'
  BY <1>22 DEF Attach, objVars, callVars
<1>23. ASSUME NEW k \in Kids, PassGate(k) PROVE Linked'
  BY <1>23 DEF PassGate, TakeToken, callVars
<1>24. ASSUME NEW k \in Kids, FinishUnlock(k) PROVE Linked'
  BY <1>24 DEF FinishUnlock, callVars
<1>25. ASSUME NEW k \in Kids, Exit(k) PROVE Linked'
  BY <1>25 DEF Exit, objVars, callVars
<1>26. ASSUME NEW k \in Kids, TakeSignal(k) PROVE Linked'
  BY <1>26 DEF TakeSignal, objVars, callVars
<1>27. ASSUME NEW k \in Kids, Thaw(k) PROVE Linked'
  BY <1>27 DEF Thaw, TakeToken, callVars
<1>28. ASSUME NEW k \in Kids, Finish(k) PROVE Linked'
  BY <1>28 DEF Finish, Awakened
<1>29. ASSUME NEW k \in Kids, DuplicateSelf(k) PROVE Linked'
  BY <1>29 DEF DuplicateSelf, NewSlot, kidVars, callVars
<1> HIDE DEF ThreadType, ObjType, KidType, CallType, CallerPCs, KidPCs, Linked, Fresh
<1> QED BY NextCases, <1>0, <1>1, <1>2, <1>3, <1>4, <1>5, <1>6, <1>7, <1>8, <1>9, <1>10, <1>11,
    <1>12, <1>13, <1>14, <1>15, <1>16, <1>17, <1>18, <1>19, <1>20, <1>21, <1>22, <1>23, <1>24,
    <1>25, <1>26, <1>27, <1>28, <1>29

(* An address malloc has not returned yet. *)
LEMMA FreshStep ==
  ASSUME ThreadType, Linked, Fresh, [Next]_vars
  PROVE  Fresh'
<1> USE PeopleAssumption DEF ThreadType, ObjType, KidType, CallType, CallerPCs, KidPCs, Linked,
  Fresh
<1>0. CASE UNCHANGED vars
  BY <1>0 DEF vars, objVars, kidVars, callVars
<1>1. ASSUME NEW p \in Callers, NEW k \in Kids, NEW o \in Objs, NEW b \in BOOLEAN,
             CreateThread(p, k, o, b)
      PROVE  Fresh'
  BY <1>1 DEF CreateThread, callVars
<1>2. ASSUME NEW p \in Callers, NEW o \in Objs, CreateThreadFails(p, o) PROVE Fresh'
  BY <1>2 DEF CreateThreadFails, kidVars, callVars
<1>3. ASSUME NEW p \in Callers, NEW f \in Entries, NEW o \in Objs, NEW b \in BOOLEAN,
             Entering(p, f, o, b)
      PROVE  Fresh'
  BY <1>3 DEF Entering, Enter, Retain, Begin, kidVars, Entries
<1>4. ASSUME NEW p \in Callers, NEW o \in Objs, CloseHandle(p, o) PROVE Fresh'
  BY <1>4 DEF CloseHandle, Begin, kidVars
<1>5. ASSUME NEW p \in Callers, NEW o \in Objs, DuplicateHandle(p, o) PROVE Fresh'
  BY <1>5 DEF DuplicateHandle, NewSlot, kidVars, callVars
<1>6. ASSUME NEW p \in Callers, NEW o \in Objs, WrapSelf(p, o) PROVE Fresh'
  BY <1>6 DEF WrapSelf, Begin, kidVars
<1>7. ASSUME NEW p \in Callers, CachedSelf(p) PROVE Fresh'
  BY <1>7 DEF CachedSelf, Begin, NoObject, objVars, kidVars
<1>8. ASSUME NEW p \in Callers, WaitDone(p) PROVE Fresh'
  BY <1>8 DEF WaitDone, Doing, Move, NoObject, objVars, kidVars
<1>9. ASSUME NEW p \in Callers, WaitSleeps(p) PROVE Fresh'
  BY <1>9 DEF WaitSleeps, Doing, Move, NoObject, objVars, kidVars
<1>10. ASSUME NEW p \in Callers, WaitTimesOut(p) PROVE Fresh'
  BY <1>10 DEF WaitTimesOut, Move, NoObject, objVars, kidVars
<1>11. ASSUME NEW p \in Callers, ReadExitCode(p) PROVE Fresh'
  BY <1>11 DEF ReadExitCode, Doing, Move, NoObject, objVars, kidVars
<1>12. ASSUME NEW p \in Callers, SuspendAdd(p) PROVE Fresh'
  BY <1>12 DEF SuspendAdd, Doing, Move, kidVars
<1>13. ASSUME NEW p \in Callers, Kill(p) PROVE Fresh'
  BY <1>13 DEF Kill, Move, objVars
<1>14. ASSUME NEW p \in Callers, ResumeSub(p) PROVE Fresh'
  BY <1>14 DEF ResumeSub, AfterSub, Doing, Move, kidVars
<1>15. ASSUME NEW p \in Callers, ResumeUndo(p) PROVE Fresh'
  BY <1>15 DEF ResumeUndo, Move, kidVars
<1>16. ASSUME NEW p \in Callers, ResumePost(p) PROVE Fresh'
  BY <1>16 DEF ResumePost, Move, kidVars
<1>17. ASSUME NEW p \in Callers, Release(p) PROVE Fresh'
  BY <1>17 DEF Release, Move, Leave, kidVars
<1>18. ASSUME NEW p \in Callers, Inspect(p) PROVE Fresh'
  BY <1>18 DEF Inspect, NoObject, objVars, kidVars
<1>19. ASSUME NEW p \in Callers, Reap(p) PROVE Fresh'
  BY <1>19 DEF Reap, Leave, kidVars
<1>20. ASSUME NEW p \in Callers, SelfSlot(p) PROVE Fresh'
  BY <1>20 DEF SelfSlot, NewSlot, Leave, kidVars
<1>21. ASSUME NEW p \in Callers, SelfFull(p) PROVE Fresh'
  BY <1>21 DEF SelfFull, Leave, kidVars
<1>22. ASSUME NEW k \in Kids, Attach(k) PROVE Fresh'
  BY <1>22 DEF Attach, objVars, callVars
<1>23. ASSUME NEW k \in Kids, PassGate(k) PROVE Fresh'
  BY <1>23 DEF PassGate, TakeToken, callVars
<1>24. ASSUME NEW k \in Kids, FinishUnlock(k) PROVE Fresh'
  BY <1>24 DEF FinishUnlock, callVars
<1>25. ASSUME NEW k \in Kids, Exit(k) PROVE Fresh'
  BY <1>25 DEF Exit, objVars, callVars
<1>26. ASSUME NEW k \in Kids, TakeSignal(k) PROVE Fresh'
  BY <1>26 DEF TakeSignal, objVars, callVars
<1>27. ASSUME NEW k \in Kids, Thaw(k) PROVE Fresh'
  BY <1>27 DEF Thaw, TakeToken, callVars
<1>28. ASSUME NEW k \in Kids, Finish(k) PROVE Fresh'
  BY <1>28 DEF Finish, Awakened
<1>29. ASSUME NEW k \in Kids, DuplicateSelf(k) PROVE Fresh'
  BY <1>29 DEF DuplicateSelf, NewSlot, kidVars, callVars
<1> HIDE DEF ThreadType, ObjType, KidType, CallType, CallerPCs, KidPCs, Linked, Fresh
<1> QED BY NextCases, <1>0, <1>1, <1>2, <1>3, <1>4, <1>5, <1>6, <1>7, <1>8, <1>9, <1>10, <1>11,
    <1>12, <1>13, <1>14, <1>15, <1>16, <1>17, <1>18, <1>19, <1>20, <1>21, <1>22, <1>23, <1>24,
    <1>25, <1>26, <1>27, <1>28, <1>29

(* The calls in flight on an object can be counted. *)
LEMMA InCallFinite ==
  ASSUME NEW o
  PROVE  /\ IsFiniteSet(InCall(o)) /\ Cardinality(InCall(o)) \in Nat
         /\ InCall(o) # {} => Cardinality(InCall(o)) >= 1
         /\ \A p \in InCall(o) : Cardinality(InCall(o)) = 1 => InCall(o) = {p}
  <1>1. IsFiniteSet(InCall(o)) /\ Cardinality(InCall(o)) \in Nat
    <2>1. InCall(o) \subseteq Callers BY DEF InCall
    <2> QED BY <2>1, PeopleAssumption, FS_Subset, FS_CardinalityType
  <1>2. InCall(o) # {} => Cardinality(InCall(o)) >= 1
    BY <1>1, FS_EmptySet
  <1>3. ASSUME NEW p \in InCall(o), Cardinality(InCall(o)) = 1 PROVE InCall(o) = {p}
    <2>1. IsFiniteSet(InCall(o) \ {p}) /\ Cardinality(InCall(o) \ {p}) = 0
      BY <1>1, <1>3, FS_RemoveElement
    <2>2. InCall(o) \ {p} = {} BY <2>1, FS_EmptySet
    <2> QED BY <2>2
  <1> QED BY <1>1, <1>2, <1>3

(* A caller that was not in a call on o is now. *)
LEMMA Joins ==
  ASSUME NEW o, NEW p, p \notin InCall(o), InCall(o)' = InCall(o) \cup {p}
  PROVE  Cardinality(InCall(o))' = Cardinality(InCall(o)) + 1
  BY InCallFinite, FS_AddElement

(* A caller leaves its call on o. *)
LEMMA Parts ==
  ASSUME NEW o, NEW p, p \in InCall(o), InCall(o)' = InCall(o) \ {p}
  PROVE  Cardinality(InCall(o))' = Cardinality(InCall(o)) - 1
  BY InCallFinite, FS_RemoveElement

(* An object without a reference has no open handle. *)
LEMMA NoneOpen ==
  ASSUME ThreadType, Counted, NEW o \in Objs, rc[o] = 0
  PROVE  open[o] = 0
  BY InCallFinite DEF Counted, ThreadType, ObjType

(* The last reference a call drops is its own. *)
LEMMA LastRef ==
  ASSUME ThreadType, Counted, NEW p \in Callers, at[p] \in Objs, pc[p] = "release", rc[at[p]] = 1
  PROVE  open[at[p]] = 0 /\ InCall(at[p]) = {p}
  <1>1. p \in InCall(at[p])
    BY DEF InCall
  <1>2. Cardinality(InCall(at[p])) >= 1
    BY <1>1, InCallFinite
  <1>3. open[at[p]] = 0 /\ Cardinality(InCall(at[p])) = 1
    BY <1>2, InCallFinite DEF Counted, ThreadType, ObjType
  <1> QED BY <1>1, <1>3, InCallFinite

(* refcount is exact: a lookup and a new slot count one more, a call that *)
(* returns one less, and CloseHandle hands the reference of its slot over  *)
(* to the call.                                                            *)
LEMMA CountStep ==
  ASSUME ThreadType, Linked, Fresh, Counted, [Next]_vars
  PROVE  Counted'
<1>0. CASE UNCHANGED vars
  BY <1>0 DEF Counted, InCall, vars, objVars, kidVars, callVars
<1>1. ASSUME NEW p \in Callers, NEW k \in Kids, NEW o \in Objs, NEW b \in BOOLEAN,
             CreateThread(p, k, o, b)
      PROVE  Counted'
  <2>1. \A x \in Objs : InCall(x)' = InCall(x)
    BY <1>1 DEF CreateThread, callVars, InCall
  <2>2. InCall(o) = {}
    BY <1>1 DEF CreateThread, Fresh, InCall
  <2>3. \A x \in Objs : rc'[x] = IF x = o THEN 1 ELSE rc[x]
    BY <1>1 DEF CreateThread, ThreadType, ObjType
  <2>4. \A x \in Objs : open'[x] = IF x = o THEN 1 ELSE open[x]
    BY <1>1 DEF CreateThread, ThreadType, ObjType
  <2> QED BY <2>1, <2>2, <2>3, <2>4, FS_EmptySet DEF Counted
<1>2. ASSUME NEW p \in Callers, NEW o \in Objs, CreateThreadFails(p, o) PROVE Counted'
  <2>1. (\A x \in Objs : InCall(x)' = InCall(x)) /\ rc' = rc /\ open' = open
    BY PeopleAssumption, <1>2 DEF CreateThreadFails, callVars, ThreadType, CallType, InCall
  <2> QED BY <2>1 DEF Counted
<1>3. ASSUME NEW p \in Callers, NEW f \in Entries, NEW o \in Objs, NEW b \in BOOLEAN,
             Entering(p, f, o, b)
      PROVE  Counted'
  <2>1. p \notin InCall(o) /\ InCall(o)' = InCall(o) \cup {p}
    BY PeopleAssumption, <1>3 DEF Entering, Enter, Retain, Begin, InCall, ThreadType, CallType
  <2>2. \A x \in Objs \ {o} : InCall(x)' = InCall(x)
    BY PeopleAssumption, <1>3 DEF Entering, Enter, Retain, Begin, InCall, ThreadType, CallType
  <2>3. \A x \in Objs : rc'[x] = IF x = o THEN rc[x] + 1 ELSE rc[x]
    BY <1>3 DEF Entering, Enter, Retain, Begin, ThreadType, ObjType
  <2>4. \A x \in Objs : open'[x] = open[x]
    BY <1>3 DEF Entering, Enter, Retain, Begin, ThreadType, ObjType
  <2>5. Cardinality(InCall(o))' = Cardinality(InCall(o)) + 1
    BY <2>1, Joins
  <2> QED BY <2>2, <2>3, <2>4, <2>5, InCallFinite DEF Counted, ThreadType, ObjType
<1>4. ASSUME NEW p \in Callers, NEW o \in Objs, CloseHandle(p, o) PROVE Counted'
  <2>1. p \notin InCall(o) /\ InCall(o)' = InCall(o) \cup {p}
    BY PeopleAssumption, <1>4 DEF CloseHandle, Begin, InCall, ThreadType, CallType
  <2>2. \A x \in Objs \ {o} : InCall(x)' = InCall(x)
    BY PeopleAssumption, <1>4 DEF CloseHandle, Begin, InCall, ThreadType, CallType
  <2>3. \A x \in Objs : rc'[x] = rc[x]
    BY <1>4 DEF CloseHandle, Begin, ThreadType, ObjType
  <2>4. \A x \in Objs : open'[x] = IF x = o THEN open[x] - 1 ELSE open[x]
    BY <1>4 DEF CloseHandle, Begin, ThreadType, ObjType
  <2>5. Cardinality(InCall(o))' = Cardinality(InCall(o)) + 1
    BY <2>1, Joins
  <2> QED BY <2>2, <2>3, <2>4, <2>5, InCallFinite DEF Counted, ThreadType, ObjType
<1>5. ASSUME NEW p \in Callers, NEW o \in Objs, DuplicateHandle(p, o) PROVE Counted'
  <2>1. \A x \in Objs : InCall(x)' = InCall(x)
    BY PeopleAssumption, <1>5 DEF DuplicateHandle, NewSlot, callVars, InCall, ThreadType, CallType
  <2>2. \A x \in Objs : rc'[x] = IF x = o THEN rc[x] + 1 ELSE rc[x]
    BY <1>5 DEF DuplicateHandle, NewSlot, callVars, ThreadType, ObjType
  <2>3. \A x \in Objs : open'[x] = IF x = o THEN open[x] + 1 ELSE open[x]
    BY <1>5 DEF DuplicateHandle, NewSlot, callVars, ThreadType, ObjType
  <2> QED BY <2>1, <2>2, <2>3, InCallFinite DEF Counted, ThreadType, ObjType
<1>6. ASSUME NEW p \in Callers, NEW o \in Objs, WrapSelf(p, o) PROVE Counted'
  <2>1. (\A x \in Objs : InCall(x)' = InCall(x)) /\ rc' = rc /\ open' = open
    BY PeopleAssumption, <1>6 DEF WrapSelf, Begin, ThreadType, CallType, InCall
  <2> QED BY <2>1 DEF Counted
<1>7. ASSUME NEW p \in Callers, CachedSelf(p) PROVE Counted'
  <2>1. (\A x \in Objs : InCall(x)' = InCall(x)) /\ rc' = rc /\ open' = open
    BY PeopleAssumption, <1>7 DEF CachedSelf, Begin, NoObject, objVars, ThreadType, CallType, InCall
  <2> QED BY <2>1 DEF Counted
<1>8. ASSUME NEW p \in Callers, WaitDone(p) PROVE Counted'
  <2>1. (\A x \in Objs : InCall(x)' = InCall(x)) /\ rc' = rc /\ open' = open
    BY PeopleAssumption, <1>8 DEF WaitDone, Doing, Move, NoObject, objVars, ThreadType, CallType,
      InCall
  <2> QED BY <2>1 DEF Counted
<1>9. ASSUME NEW p \in Callers, WaitSleeps(p) PROVE Counted'
  <2>1. (\A x \in Objs : InCall(x)' = InCall(x)) /\ rc' = rc /\ open' = open
    BY PeopleAssumption, <1>9 DEF WaitSleeps, Doing, Move, NoObject, objVars, ThreadType, CallType,
      InCall
  <2> QED BY <2>1 DEF Counted
<1>10. ASSUME NEW p \in Callers, WaitTimesOut(p) PROVE Counted'
  <2>1. (\A x \in Objs : InCall(x)' = InCall(x)) /\ rc' = rc /\ open' = open
    BY PeopleAssumption, <1>10 DEF WaitTimesOut, Move, NoObject, objVars, ThreadType, CallType, InCall
  <2> QED BY <2>1 DEF Counted
<1>11. ASSUME NEW p \in Callers, ReadExitCode(p) PROVE Counted'
  <2>1. (\A x \in Objs : InCall(x)' = InCall(x)) /\ rc' = rc /\ open' = open
    BY PeopleAssumption, <1>11 DEF ReadExitCode, Doing, Move, NoObject, objVars, ThreadType, CallType,
      InCall
  <2> QED BY <2>1 DEF Counted
<1>12. ASSUME NEW p \in Callers, SuspendAdd(p) PROVE Counted'
  <2>1. (\A x \in Objs : InCall(x)' = InCall(x)) /\ rc' = rc /\ open' = open
    BY PeopleAssumption, <1>12 DEF SuspendAdd, Doing, Move, ThreadType, CallType, InCall
  <2> QED BY <2>1 DEF Counted
<1>13. ASSUME NEW p \in Callers, Kill(p) PROVE Counted'
  <2>1. (\A x \in Objs : InCall(x)' = InCall(x)) /\ rc' = rc /\ open' = open
    BY PeopleAssumption, <1>13 DEF Kill, Move, objVars, ThreadType, CallType, InCall
  <2> QED BY <2>1 DEF Counted
<1>14. ASSUME NEW p \in Callers, ResumeSub(p) PROVE Counted'
  <2>1. (\A x \in Objs : InCall(x)' = InCall(x)) /\ rc' = rc /\ open' = open
    BY PeopleAssumption, <1>14 DEF ResumeSub, AfterSub, Doing, Move, ThreadType, CallType, InCall
  <2> QED BY <2>1 DEF Counted
<1>15. ASSUME NEW p \in Callers, ResumeUndo(p) PROVE Counted'
  <2>1. (\A x \in Objs : InCall(x)' = InCall(x)) /\ rc' = rc /\ open' = open
    BY PeopleAssumption, <1>15 DEF ResumeUndo, Move, ThreadType, CallType, InCall
  <2> QED BY <2>1 DEF Counted
<1>16. ASSUME NEW p \in Callers, ResumePost(p) PROVE Counted'
  <2>1. (\A x \in Objs : InCall(x)' = InCall(x)) /\ rc' = rc /\ open' = open
    BY PeopleAssumption, <1>16 DEF ResumePost, Move, ThreadType, CallType, InCall
  <2> QED BY <2>1 DEF Counted
<1>17. ASSUME NEW p \in Callers, Release(p) PROVE Counted'
  <2>1. p \in InCall(at[p]) /\ at[p] \in Objs
    BY <1>17 DEF Release, InCall, Linked
  <2>2. \A x \in Objs : InCall(x)' = IF x = at[p] THEN InCall(x) \ {p} ELSE InCall(x)
    <3>1. CASE rc[at[p]] = 1
      BY PeopleAssumption, <1>17, <2>1, <3>1 DEF Release, Move, InCall, ThreadType, CallType
    <3>2. CASE rc[at[p]] # 1
      BY PeopleAssumption, <1>17, <2>1, <3>2 DEF Release, Leave, InCall, ThreadType, CallType
    <3> QED BY <3>1, <3>2
  <2>3. \A x \in Objs : rc'[x] = IF x = at[p] THEN rc[x] - 1 ELSE rc[x]
    BY <1>17, <2>1 DEF Release, ThreadType, ObjType
  <2>4. open' = open
    BY <1>17 DEF Release
  <2>5. \A x \in Objs : x = at[p] => Cardinality(InCall(x))' = Cardinality(InCall(x)) - 1
    BY <2>1, <2>2, Parts
  <2> QED BY <2>2, <2>3, <2>4, <2>5, InCallFinite DEF Counted, ThreadType, ObjType
<1>18. ASSUME NEW p \in Callers, Inspect(p) PROVE Counted'
  <2>1. (\A x \in Objs : InCall(x)' = InCall(x)) /\ rc' = rc /\ open' = open
    BY PeopleAssumption, <1>18 DEF Inspect, NoObject, objVars, ThreadType, CallType, InCall
  <2> QED BY <2>1 DEF Counted
<1>19. ASSUME NEW p \in Callers, Reap(p) PROVE Counted'
  <2>1. (\A x \in Objs : InCall(x)' = InCall(x)) /\ rc' = rc /\ open' = open
    BY PeopleAssumption, <1>19 DEF Reap, Leave, ThreadType, CallType, InCall
  <2> QED BY <2>1 DEF Counted
<1>20. ASSUME NEW p \in Callers, SelfSlot(p) PROVE Counted'
  <2>1. \A x \in Objs : InCall(x)' = InCall(x)
    BY PeopleAssumption, <1>20 DEF SelfSlot, NewSlot, Leave, InCall, ThreadType, CallType
  <2>2. \A x \in Objs : rc'[x] = IF x = at[p] THEN rc[x] + 1 ELSE rc[x]
    BY <1>20 DEF SelfSlot, NewSlot, Leave, ThreadType, ObjType
  <2>3. \A x \in Objs : open'[x] = IF x = at[p] THEN open[x] + 1 ELSE open[x]
    BY <1>20 DEF SelfSlot, NewSlot, Leave, ThreadType, ObjType
  <2> QED BY <2>1, <2>2, <2>3, InCallFinite DEF Counted, ThreadType, ObjType
<1>21. ASSUME NEW p \in Callers, SelfFull(p) PROVE Counted'
  <2>1. (\A x \in Objs : InCall(x)' = InCall(x)) /\ rc' = rc /\ open' = open
    BY PeopleAssumption, <1>21 DEF SelfFull, Leave, ThreadType, CallType, InCall
  <2> QED BY <2>1 DEF Counted
<1>22. ASSUME NEW k \in Kids, Attach(k) PROVE Counted'
  <2>1. (\A x \in Objs : InCall(x)' = InCall(x)) /\ rc' = rc /\ open' = open
    BY PeopleAssumption, <1>22 DEF Attach, objVars, callVars, ThreadType, CallType, InCall
  <2> QED BY <2>1 DEF Counted
<1>23. ASSUME NEW k \in Kids, PassGate(k) PROVE Counted'
  <2>1. (\A x \in Objs : InCall(x)' = InCall(x)) /\ rc' = rc /\ open' = open
    BY PeopleAssumption, <1>23 DEF PassGate, TakeToken, callVars, ThreadType, CallType, InCall
  <2> QED BY <2>1 DEF Counted
<1>24. ASSUME NEW k \in Kids, FinishUnlock(k) PROVE Counted'
  <2>1. (\A x \in Objs : InCall(x)' = InCall(x)) /\ rc' = rc /\ open' = open
    BY PeopleAssumption, <1>24 DEF FinishUnlock, callVars, ThreadType, CallType, InCall
  <2> QED BY <2>1 DEF Counted
<1>25. ASSUME NEW k \in Kids, Exit(k) PROVE Counted'
  <2>1. (\A x \in Objs : InCall(x)' = InCall(x)) /\ rc' = rc /\ open' = open
    BY PeopleAssumption, <1>25 DEF Exit, objVars, callVars, ThreadType, CallType, InCall
  <2> QED BY <2>1 DEF Counted
<1>26. ASSUME NEW k \in Kids, TakeSignal(k) PROVE Counted'
  <2>1. (\A x \in Objs : InCall(x)' = InCall(x)) /\ rc' = rc /\ open' = open
    BY PeopleAssumption, <1>26 DEF TakeSignal, objVars, callVars, ThreadType, CallType, InCall
  <2> QED BY <2>1 DEF Counted
<1>27. ASSUME NEW k \in Kids, Thaw(k) PROVE Counted'
  <2>1. (\A x \in Objs : InCall(x)' = InCall(x)) /\ rc' = rc /\ open' = open
    BY PeopleAssumption, <1>27 DEF Thaw, TakeToken, callVars, ThreadType, CallType, InCall
  <2> QED BY <2>1 DEF Counted
<1>28. ASSUME NEW k \in Kids, Finish(k) PROVE Counted'
  <2>1. (\A x \in Objs : InCall(x)' = InCall(x)) /\ rc' = rc /\ open' = open
    BY PeopleAssumption, <1>28 DEF Finish, Awakened, ThreadType, CallType, InCall
  <2> QED BY <2>1 DEF Counted
<1>29. ASSUME NEW k \in Kids, DuplicateSelf(k) PROVE Counted'
  <2>1. \A x \in Objs : InCall(x)' = InCall(x)
    BY PeopleAssumption, <1>29 DEF DuplicateSelf, NewSlot, callVars, InCall, ThreadType, CallType
  <2>2. \A x \in Objs : rc'[x] = IF x = key[k] THEN rc[x] + 1 ELSE rc[x]
    BY <1>29 DEF DuplicateSelf, NewSlot, callVars, ThreadType, ObjType
  <2>3. \A x \in Objs : open'[x] = IF x = key[k] THEN open[x] + 1 ELSE open[x]
    BY <1>29 DEF DuplicateSelf, NewSlot, callVars, ThreadType, ObjType
  <2> QED BY <2>1, <2>2, <2>3, InCallFinite DEF Counted, ThreadType, ObjType
<1> QED BY NextCases, <1>0, <1>1, <1>2, <1>3, <1>4, <1>5, <1>6, <1>7, <1>8, <1>9, <1>10, <1>11,
    <1>12, <1>13, <1>14, <1>15, <1>16, <1>17, <1>18, <1>19, <1>20, <1>21, <1>22, <1>23, <1>24,
    <1>25, <1>26, <1>27, <1>28, <1>29

(* Kids and the objects created for them belong together for good. *)
LEMMA OwnedStep ==
  ASSUME ThreadType, Linked, Fresh, Owned, [Next]_vars
  PROVE  Owned'
<1> USE PeopleAssumption DEF ThreadType, ObjType, KidType, CallType, CallerPCs, KidPCs, Linked,
  Fresh, Owned
<1>0. CASE UNCHANGED vars
  BY <1>0 DEF vars, objVars, kidVars, callVars
<1>1. ASSUME NEW p \in Callers, NEW k \in Kids, NEW o \in Objs, NEW b \in BOOLEAN,
             CreateThread(p, k, o, b)
      PROVE  Owned'
  BY <1>1 DEF CreateThread, callVars
<1>2. ASSUME NEW p \in Callers, NEW o \in Objs, CreateThreadFails(p, o) PROVE Owned'
  BY <1>2 DEF CreateThreadFails, kidVars, callVars
<1>3. ASSUME NEW p \in Callers, NEW f \in Entries, NEW o \in Objs, NEW b \in BOOLEAN,
             Entering(p, f, o, b)
      PROVE  Owned'
  BY <1>3 DEF Entering, Enter, Retain, Begin, kidVars, Entries
<1>4. ASSUME NEW p \in Callers, NEW o \in Objs, CloseHandle(p, o) PROVE Owned'
  BY <1>4 DEF CloseHandle, Begin, kidVars
<1>5. ASSUME NEW p \in Callers, NEW o \in Objs, DuplicateHandle(p, o) PROVE Owned'
  BY <1>5 DEF DuplicateHandle, NewSlot, kidVars, callVars
<1>6. ASSUME NEW p \in Callers, NEW o \in Objs, WrapSelf(p, o) PROVE Owned'
  BY <1>6 DEF WrapSelf, Begin, kidVars
<1>7. ASSUME NEW p \in Callers, CachedSelf(p) PROVE Owned'
  BY <1>7 DEF CachedSelf, Begin, NoObject, objVars, kidVars
<1>8. ASSUME NEW p \in Callers, WaitDone(p) PROVE Owned'
  BY <1>8 DEF WaitDone, Doing, Move, NoObject, objVars, kidVars
<1>9. ASSUME NEW p \in Callers, WaitSleeps(p) PROVE Owned'
  BY <1>9 DEF WaitSleeps, Doing, Move, NoObject, objVars, kidVars
<1>10. ASSUME NEW p \in Callers, WaitTimesOut(p) PROVE Owned'
  BY <1>10 DEF WaitTimesOut, Move, NoObject, objVars, kidVars
<1>11. ASSUME NEW p \in Callers, ReadExitCode(p) PROVE Owned'
  BY <1>11 DEF ReadExitCode, Doing, Move, NoObject, objVars, kidVars
<1>12. ASSUME NEW p \in Callers, SuspendAdd(p) PROVE Owned'
  BY <1>12 DEF SuspendAdd, Doing, Move, kidVars
<1>13. ASSUME NEW p \in Callers, Kill(p) PROVE Owned'
  BY <1>13 DEF Kill, Move, objVars
<1>14. ASSUME NEW p \in Callers, ResumeSub(p) PROVE Owned'
  BY <1>14 DEF ResumeSub, AfterSub, Doing, Move, kidVars
<1>15. ASSUME NEW p \in Callers, ResumeUndo(p) PROVE Owned'
  BY <1>15 DEF ResumeUndo, Move, kidVars
<1>16. ASSUME NEW p \in Callers, ResumePost(p) PROVE Owned'
  BY <1>16 DEF ResumePost, Move, kidVars
<1>17. ASSUME NEW p \in Callers, Release(p) PROVE Owned'
  BY <1>17 DEF Release, Move, Leave, kidVars
<1>18. ASSUME NEW p \in Callers, Inspect(p) PROVE Owned'
  BY <1>18 DEF Inspect, NoObject, objVars, kidVars
<1>19. ASSUME NEW p \in Callers, Reap(p) PROVE Owned'
  BY <1>19 DEF Reap, Leave, kidVars
<1>20. ASSUME NEW p \in Callers, SelfSlot(p) PROVE Owned'
  BY <1>20 DEF SelfSlot, NewSlot, Leave, kidVars
<1>21. ASSUME NEW p \in Callers, SelfFull(p) PROVE Owned'
  BY <1>21 DEF SelfFull, Leave, kidVars
<1>22. ASSUME NEW k \in Kids, Attach(k) PROVE Owned'
  BY <1>22 DEF Attach, objVars, callVars
<1>23. ASSUME NEW k \in Kids, PassGate(k) PROVE Owned'
  BY <1>23 DEF PassGate, TakeToken, callVars
<1>24. ASSUME NEW k \in Kids, FinishUnlock(k) PROVE Owned'
  BY <1>24 DEF FinishUnlock, callVars
<1>25. ASSUME NEW k \in Kids, Exit(k) PROVE Owned'
  BY <1>25 DEF Exit, objVars, callVars
<1>26. ASSUME NEW k \in Kids, TakeSignal(k) PROVE Owned'
  BY <1>26 DEF TakeSignal, objVars, callVars
<1>27. ASSUME NEW k \in Kids, Thaw(k) PROVE Owned'
  BY <1>27 DEF Thaw, TakeToken, callVars
<1>28. ASSUME NEW k \in Kids, Finish(k) PROVE Owned'
  BY <1>28 DEF Finish, Awakened
<1>29. ASSUME NEW k \in Kids, DuplicateSelf(k) PROVE Owned'
  BY <1>29 DEF DuplicateSelf, NewSlot, kidVars, callVars
<1> HIDE DEF ThreadType, ObjType, KidType, CallType, CallerPCs, KidPCs, Linked, Fresh, Owned
<1> QED BY NextCases, <1>0, <1>1, <1>2, <1>3, <1>4, <1>5, <1>6, <1>7, <1>8, <1>9, <1>10, <1>11,
    <1>12, <1>13, <1>14, <1>15, <1>16, <1>17, <1>18, <1>19, <1>20, <1>21, <1>22, <1>23, <1>24,
    <1>25, <1>26, <1>27, <1>28, <1>29

(* Calls work on live objects. *)
LEMMA CallsStep ==
  ASSUME Cautious, ThreadType, Linked, Fresh, Counted, Owned, CallsLive,
    KidsLive, [Next]_vars
  PROVE  CallsLive'
<1> USE PeopleAssumption DEF Cautious, ThreadType, ObjType, KidType, CallType, CallerPCs, KidPCs,
  Linked, Fresh, Owned, CallsLive, Alone, KidsLive
<1>0. CASE UNCHANGED vars
  BY <1>0 DEF vars, objVars, kidVars, callVars
<1>1. ASSUME NEW p \in Callers, NEW k \in Kids, NEW o \in Objs, NEW b \in BOOLEAN,
             CreateThread(p, k, o, b)
      PROVE  CallsLive'
  BY <1>1 DEF CreateThread, callVars
<1>2. ASSUME NEW p \in Callers, NEW o \in Objs, CreateThreadFails(p, o) PROVE CallsLive'
  BY <1>2 DEF CreateThreadFails, kidVars, callVars
<1>3. ASSUME NEW p \in Callers, NEW f \in Entries, NEW o \in Objs, NEW b \in BOOLEAN,
             Entering(p, f, o, b)
      PROVE  CallsLive'
  BY <1>3 DEF Entering, Enter, Retain, Begin, kidVars, Entries
<1>4. ASSUME NEW p \in Callers, NEW o \in Objs, CloseHandle(p, o) PROVE CallsLive'
  BY <1>4 DEF CloseHandle, Begin, kidVars
<1>5. ASSUME NEW p \in Callers, NEW o \in Objs, DuplicateHandle(p, o) PROVE CallsLive'
  BY <1>5 DEF DuplicateHandle, NewSlot, kidVars, callVars
<1>6. ASSUME NEW p \in Callers, NEW o \in Objs, WrapSelf(p, o) PROVE CallsLive'
  BY <1>6 DEF WrapSelf, Begin, kidVars
<1>7. ASSUME NEW p \in Callers, CachedSelf(p) PROVE CallsLive'
  BY <1>7 DEF CachedSelf, Begin, NoObject, objVars, kidVars
<1>8. ASSUME NEW p \in Callers, WaitDone(p) PROVE CallsLive'
  BY <1>8 DEF WaitDone, Doing, Move, NoObject, objVars, kidVars
<1>9. ASSUME NEW p \in Callers, WaitSleeps(p) PROVE CallsLive'
  BY <1>9 DEF WaitSleeps, Doing, Move, NoObject, objVars, kidVars
<1>10. ASSUME NEW p \in Callers, WaitTimesOut(p) PROVE CallsLive'
  BY <1>10 DEF WaitTimesOut, Move, NoObject, objVars, kidVars
<1>11. ASSUME NEW p \in Callers, ReadExitCode(p) PROVE CallsLive'
  BY <1>11 DEF ReadExitCode, Doing, Move, NoObject, objVars, kidVars
<1>12. ASSUME NEW p \in Callers, SuspendAdd(p) PROVE CallsLive'
  BY <1>12 DEF SuspendAdd, Doing, Move, kidVars
<1>13. ASSUME NEW p \in Callers, Kill(p) PROVE CallsLive'
  BY <1>13 DEF Kill, Move, objVars
<1>14. ASSUME NEW p \in Callers, ResumeSub(p) PROVE CallsLive'
  BY <1>14 DEF ResumeSub, AfterSub, Doing, Move, kidVars
<1>15. ASSUME NEW p \in Callers, ResumeUndo(p) PROVE CallsLive'
  BY <1>15 DEF ResumeUndo, Move, kidVars
<1>16. ASSUME NEW p \in Callers, ResumePost(p) PROVE CallsLive'
  BY <1>16 DEF ResumePost, Move, kidVars
<1>17. ASSUME NEW p \in Callers, Release(p) PROVE CallsLive'
  <2>0. at[p] \in Objs
    BY <1>17 DEF Release, Linked
  <2>1. CASE rc[at[p]] = 1
    <3>1. open[at[p]] = 0 /\ InCall(at[p]) = {p}
      BY <1>17, <2>0, <2>1, LastRef DEF Release
    <3>2. Alone(p)
      BY <3>1, <1>17 DEF InCall, CallsLive, Alone, Release
    <3> QED BY PeopleAssumption, <1>17, <2>0, <2>1, <3>1, <3>2
            DEF Release, Move, kidVars, ThreadType, ObjType, KidType, CallType, CallsLive, Alone
  <2>2. CASE rc[at[p]] # 1
    <3>1. Leave(p) BY <1>17, <2>2 DEF Release
    <3> QED BY PeopleAssumption, <1>17, <3>1
            DEF Release, Leave, kidVars, ThreadType, ObjType, KidType, CallType, Linked, CallsLive, Alone
  <2> QED BY <2>1, <2>2
<1>18. ASSUME NEW p \in Callers, Inspect(p) PROVE CallsLive'
  BY <1>18 DEF Inspect, NoObject, objVars, kidVars
<1>19. ASSUME NEW p \in Callers, Reap(p) PROVE CallsLive'
  BY <1>19 DEF Reap, Leave, kidVars
<1>20. ASSUME NEW p \in Callers, SelfSlot(p) PROVE CallsLive'
  BY <1>20 DEF SelfSlot, NewSlot, Leave, kidVars
<1>21. ASSUME NEW p \in Callers, SelfFull(p) PROVE CallsLive'
  <2>0. at[p] \in Objs
    BY <1>21 DEF SelfFull, Linked
  <2>1. rc[at[p]] = 0 => open[at[p]] = 0 /\ Alone(p)
    BY <1>21, <2>0, NoneOpen DEF SelfFull, CallsLive
  <2> QED BY PeopleAssumption, <1>21, <2>0, <2>1
          DEF SelfFull, Leave, kidVars, ThreadType, ObjType, KidType, CallType, Linked, CallsLive, Alone
<1>22. ASSUME NEW k \in Kids, Attach(k) PROVE CallsLive'
  BY <1>22 DEF Attach, objVars, callVars
<1>23. ASSUME NEW k \in Kids, PassGate(k) PROVE CallsLive'
  BY <1>23 DEF PassGate, TakeToken, callVars
<1>24. ASSUME NEW k \in Kids, FinishUnlock(k) PROVE CallsLive'
  BY <1>24 DEF FinishUnlock, callVars
<1>25. ASSUME NEW k \in Kids, Exit(k) PROVE CallsLive'
  BY <1>25 DEF Exit, objVars, callVars
<1>26. ASSUME NEW k \in Kids, TakeSignal(k) PROVE CallsLive'
  BY <1>26 DEF TakeSignal, objVars, callVars
<1>27. ASSUME NEW k \in Kids, Thaw(k) PROVE CallsLive'
  BY <1>27 DEF Thaw, TakeToken, callVars
<1>28. ASSUME NEW k \in Kids, Finish(k) PROVE CallsLive'
  BY <1>28 DEF Finish, Awakened
<1>29. ASSUME NEW k \in Kids, DuplicateSelf(k) PROVE CallsLive'
  BY <1>29 DEF DuplicateSelf, NewSlot, kidVars, callVars
<1> HIDE DEF Cautious, ThreadType, ObjType, KidType, CallType, CallerPCs, KidPCs, Linked, Fresh,
  Owned, CallsLive, Alone, KidsLive
<1> QED BY NextCases, <1>0, <1>1, <1>2, <1>3, <1>4, <1>5, <1>6, <1>7, <1>8, <1>9, <1>10, <1>11,
    <1>12, <1>13, <1>14, <1>15, <1>16, <1>17, <1>18, <1>19, <1>20, <1>21, <1>22, <1>23, <1>24,
    <1>25, <1>26, <1>27, <1>28, <1>29

(* Kids work on live objects: the last handle goes after done is set, and  *)
(* the object goes after pthread_join.                                     *)
LEMMA KidsStep ==
  ASSUME Cautious, ThreadType, Linked, Fresh, Counted, Owned, CallsLive,
    KidsLive, [Next]_vars
  PROVE  KidsLive'
<1> USE PeopleAssumption DEF Cautious, ThreadType, ObjType, KidType, CallType, CallerPCs, KidPCs,
  Linked, Fresh, Owned, CallsLive, Alone, KidsLive
<1>0. CASE UNCHANGED vars
  BY <1>0 DEF vars, objVars, kidVars, callVars
<1>1. ASSUME NEW p \in Callers, NEW k \in Kids, NEW o \in Objs, NEW b \in BOOLEAN,
             CreateThread(p, k, o, b)
      PROVE  KidsLive'
  BY <1>1 DEF CreateThread, callVars
<1>2. ASSUME NEW p \in Callers, NEW o \in Objs, CreateThreadFails(p, o) PROVE KidsLive'
  BY <1>2 DEF CreateThreadFails, kidVars, callVars
<1>3. ASSUME NEW p \in Callers, NEW f \in Entries, NEW o \in Objs, NEW b \in BOOLEAN,
             Entering(p, f, o, b)
      PROVE  KidsLive'
  BY <1>3 DEF Entering, Enter, Retain, Begin, kidVars, Entries
<1>4. ASSUME NEW p \in Callers, NEW o \in Objs, CloseHandle(p, o) PROVE KidsLive'
  BY <1>4 DEF CloseHandle, Begin, kidVars
<1>5. ASSUME NEW p \in Callers, NEW o \in Objs, DuplicateHandle(p, o) PROVE KidsLive'
  BY <1>5 DEF DuplicateHandle, NewSlot, kidVars, callVars
<1>6. ASSUME NEW p \in Callers, NEW o \in Objs, WrapSelf(p, o) PROVE KidsLive'
  BY <1>6 DEF WrapSelf, Begin, kidVars
<1>7. ASSUME NEW p \in Callers, CachedSelf(p) PROVE KidsLive'
  BY <1>7 DEF CachedSelf, Begin, NoObject, objVars, kidVars
<1>8. ASSUME NEW p \in Callers, WaitDone(p) PROVE KidsLive'
  BY <1>8 DEF WaitDone, Doing, Move, NoObject, objVars, kidVars
<1>9. ASSUME NEW p \in Callers, WaitSleeps(p) PROVE KidsLive'
  BY <1>9 DEF WaitSleeps, Doing, Move, NoObject, objVars, kidVars
<1>10. ASSUME NEW p \in Callers, WaitTimesOut(p) PROVE KidsLive'
  BY <1>10 DEF WaitTimesOut, Move, NoObject, objVars, kidVars
<1>11. ASSUME NEW p \in Callers, ReadExitCode(p) PROVE KidsLive'
  BY <1>11 DEF ReadExitCode, Doing, Move, NoObject, objVars, kidVars
<1>12. ASSUME NEW p \in Callers, SuspendAdd(p) PROVE KidsLive'
  BY <1>12 DEF SuspendAdd, Doing, Move, kidVars
<1>13. ASSUME NEW p \in Callers, Kill(p) PROVE KidsLive'
  BY <1>13 DEF Kill, Move, objVars
<1>14. ASSUME NEW p \in Callers, ResumeSub(p) PROVE KidsLive'
  BY <1>14 DEF ResumeSub, AfterSub, Doing, Move, kidVars
<1>15. ASSUME NEW p \in Callers, ResumeUndo(p) PROVE KidsLive'
  BY <1>15 DEF ResumeUndo, Move, kidVars
<1>16. ASSUME NEW p \in Callers, ResumePost(p) PROVE KidsLive'
  BY <1>16 DEF ResumePost, Move, kidVars
<1>17. ASSUME NEW p \in Callers, Release(p) PROVE KidsLive'
  BY <1>17 DEF Release, Move, Leave, kidVars
<1>18. ASSUME NEW p \in Callers, Inspect(p) PROVE KidsLive'
  BY <1>18 DEF Inspect, NoObject, objVars, kidVars
<1>19. ASSUME NEW p \in Callers, Reap(p) PROVE KidsLive'
  <2>0. at[p] \in Objs
    BY <1>19 DEF Reap, Linked
  <2>1. ASSUME NEW k \in Kids, kpc[k] \notin {"unborn", "ended"} PROVE start[k] # at[p]
    BY <1>19, <2>0, <2>1, PeopleAssumption DEF Reap, Joined, CallsLive, Owned
  <2> QED BY <1>19, <2>0, <2>1 DEF Reap, kidVars, ThreadType, ObjType, KidType, Linked, KidsLive
<1>20. ASSUME NEW p \in Callers, SelfSlot(p) PROVE KidsLive'
  BY <1>20 DEF SelfSlot, NewSlot, Leave, kidVars
<1>21. ASSUME NEW p \in Callers, SelfFull(p) PROVE KidsLive'
  BY <1>21 DEF SelfFull, Leave, kidVars
<1>22. ASSUME NEW k \in Kids, Attach(k) PROVE KidsLive'
  BY <1>22 DEF Attach, objVars, callVars
<1>23. ASSUME NEW k \in Kids, PassGate(k) PROVE KidsLive'
  BY <1>23 DEF PassGate, TakeToken, callVars
<1>24. ASSUME NEW k \in Kids, FinishUnlock(k) PROVE KidsLive'
  BY <1>24 DEF FinishUnlock, callVars
<1>25. ASSUME NEW k \in Kids, Exit(k) PROVE KidsLive'
  BY <1>25 DEF Exit, objVars, callVars
<1>26. ASSUME NEW k \in Kids, TakeSignal(k) PROVE KidsLive'
  BY <1>26 DEF TakeSignal, objVars, callVars
<1>27. ASSUME NEW k \in Kids, Thaw(k) PROVE KidsLive'
  BY <1>27 DEF Thaw, TakeToken, callVars
<1>28. ASSUME NEW k \in Kids, Finish(k) PROVE KidsLive'
  BY <1>28 DEF Finish, Awakened
<1>29. ASSUME NEW k \in Kids, DuplicateSelf(k) PROVE KidsLive'
  BY <1>29 DEF DuplicateSelf, NewSlot, kidVars, callVars
<1> HIDE DEF Cautious, ThreadType, ObjType, KidType, CallType, CallerPCs, KidPCs, Linked, Fresh,
  Owned, CallsLive, Alone, KidsLive
<1> QED BY NextCases, <1>0, <1>1, <1>2, <1>3, <1>4, <1>5, <1>6, <1>7, <1>8, <1>9, <1>10, <1>11,
    <1>12, <1>13, <1>14, <1>15, <1>16, <1>17, <1>18, <1>19, <1>20, <1>21, <1>22, <1>23, <1>24,
    <1>25, <1>26, <1>27, <1>28, <1>29

(* Which calls post and which send the signal. *)
LEMMA SuspendingStep ==
  ASSUME ThreadType, Linked, Fresh, Owned, Suspending, [Next]_vars
  PROVE  Suspending'
<1> USE PeopleAssumption DEF ThreadType, ObjType, KidType, CallType, CallerPCs, KidPCs, Linked,
  Fresh, Owned, Suspending
<1>0. CASE UNCHANGED vars
  BY <1>0 DEF vars, objVars, kidVars, callVars
<1>1. ASSUME NEW p \in Callers, NEW k \in Kids, NEW o \in Objs, NEW b \in BOOLEAN,
             CreateThread(p, k, o, b)
      PROVE  Suspending'
  BY <1>1 DEF CreateThread, callVars
<1>2. ASSUME NEW p \in Callers, NEW o \in Objs, CreateThreadFails(p, o) PROVE Suspending'
  BY <1>2 DEF CreateThreadFails, kidVars, callVars
<1>3. ASSUME NEW p \in Callers, NEW f \in Entries, NEW o \in Objs, NEW b \in BOOLEAN,
             Entering(p, f, o, b)
      PROVE  Suspending'
  BY <1>3 DEF Entering, Enter, Retain, Begin, kidVars, Entries
<1>4. ASSUME NEW p \in Callers, NEW o \in Objs, CloseHandle(p, o) PROVE Suspending'
  BY <1>4 DEF CloseHandle, Begin, kidVars
<1>5. ASSUME NEW p \in Callers, NEW o \in Objs, DuplicateHandle(p, o) PROVE Suspending'
  BY <1>5 DEF DuplicateHandle, NewSlot, kidVars, callVars
<1>6. ASSUME NEW p \in Callers, NEW o \in Objs, WrapSelf(p, o) PROVE Suspending'
  BY <1>6 DEF WrapSelf, Begin, kidVars
<1>7. ASSUME NEW p \in Callers, CachedSelf(p) PROVE Suspending'
  BY <1>7 DEF CachedSelf, Begin, NoObject, objVars, kidVars
<1>8. ASSUME NEW p \in Callers, WaitDone(p) PROVE Suspending'
  BY <1>8 DEF WaitDone, Doing, Move, NoObject, objVars, kidVars
<1>9. ASSUME NEW p \in Callers, WaitSleeps(p) PROVE Suspending'
  BY <1>9 DEF WaitSleeps, Doing, Move, NoObject, objVars, kidVars
<1>10. ASSUME NEW p \in Callers, WaitTimesOut(p) PROVE Suspending'
  BY <1>10 DEF WaitTimesOut, Move, NoObject, objVars, kidVars
<1>11. ASSUME NEW p \in Callers, ReadExitCode(p) PROVE Suspending'
  BY <1>11 DEF ReadExitCode, Doing, Move, NoObject, objVars, kidVars
<1>12. ASSUME NEW p \in Callers, SuspendAdd(p) PROVE Suspending'
  BY <1>12 DEF SuspendAdd, Doing, Move, kidVars
<1>13. ASSUME NEW p \in Callers, Kill(p) PROVE Suspending'
  BY <1>13 DEF Kill, Move, objVars
<1>14. ASSUME NEW p \in Callers, ResumeSub(p) PROVE Suspending'
  BY <1>14 DEF ResumeSub, AfterSub, Doing, Move, kidVars
<1>15. ASSUME NEW p \in Callers, ResumeUndo(p) PROVE Suspending'
  BY <1>15 DEF ResumeUndo, Move, kidVars
<1>16. ASSUME NEW p \in Callers, ResumePost(p) PROVE Suspending'
  BY <1>16 DEF ResumePost, Move, kidVars
<1>17. ASSUME NEW p \in Callers, Release(p) PROVE Suspending'
  BY <1>17 DEF Release, Move, Leave, kidVars
<1>18. ASSUME NEW p \in Callers, Inspect(p) PROVE Suspending'
  BY <1>18 DEF Inspect, NoObject, objVars, kidVars
<1>19. ASSUME NEW p \in Callers, Reap(p) PROVE Suspending'
  BY <1>19 DEF Reap, Leave, kidVars
<1>20. ASSUME NEW p \in Callers, SelfSlot(p) PROVE Suspending'
  BY <1>20 DEF SelfSlot, NewSlot, Leave, kidVars
<1>21. ASSUME NEW p \in Callers, SelfFull(p) PROVE Suspending'
  BY <1>21 DEF SelfFull, Leave, kidVars
<1>22. ASSUME NEW k \in Kids, Attach(k) PROVE Suspending'
  BY <1>22 DEF Attach, objVars, callVars
<1>23. ASSUME NEW k \in Kids, PassGate(k) PROVE Suspending'
  BY <1>23 DEF PassGate, TakeToken, callVars
<1>24. ASSUME NEW k \in Kids, FinishUnlock(k) PROVE Suspending'
  BY <1>24 DEF FinishUnlock, callVars
<1>25. ASSUME NEW k \in Kids, Exit(k) PROVE Suspending'
  BY <1>25 DEF Exit, objVars, callVars
<1>26. ASSUME NEW k \in Kids, TakeSignal(k) PROVE Suspending'
  BY <1>26 DEF TakeSignal, objVars, callVars
<1>27. ASSUME NEW k \in Kids, Thaw(k) PROVE Suspending'
  BY <1>27 DEF Thaw, TakeToken, callVars
<1>28. ASSUME NEW k \in Kids, Finish(k) PROVE Suspending'
  BY <1>28 DEF Finish, Awakened
<1>29. ASSUME NEW k \in Kids, DuplicateSelf(k) PROVE Suspending'
  BY <1>29 DEF DuplicateSelf, NewSlot, kidVars, callVars
<1> HIDE DEF ThreadType, ObjType, KidType, CallType, CallerPCs, KidPCs, Linked, Fresh, Owned,
  Suspending
<1> QED BY NextCases, <1>0, <1>1, <1>2, <1>3, <1>4, <1>5, <1>6, <1>7, <1>8, <1>9, <1>10, <1>11,
    <1>12, <1>13, <1>14, <1>15, <1>16, <1>17, <1>18, <1>19, <1>20, <1>21, <1>22, <1>23, <1>24,
    <1>25, <1>26, <1>27, <1>28, <1>29

(* Posts and signals on their way can be counted. *)
LEMMA FlightFinite ==
  ASSUME NEW o
  PROVE  /\ IsFiniteSet(Posting(o)) /\ Cardinality(Posting(o)) \in Nat
         /\ IsFiniteSet(Killing(o)) /\ Cardinality(Killing(o)) \in Nat
  <1>1. Posting(o) \subseteq Callers /\ Killing(o) \subseteq Callers
    BY DEF Posting, Killing
  <1> QED BY <1>1, PeopleAssumption, FS_Subset, FS_CardinalityType

(* Two kids never share an object. *)
LEMMA OwnObject ==
  ASSUME Owned, NEW k \in Kids, NEW j \in Kids, kpc[k] # "unborn", kpc[j] # "unborn",
         start[k] = start[j]
  PROVE  k = j
  BY DEF Owned

(* Credit and debt are integers. *)
LEMMA CreditInt ==
  ASSUME ThreadType
  PROVE  (\A o \in Objs : Credit(o) \in Int) /\ (\A k \in Kids : Debt(k) \in Int)
  BY FlightFinite DEF Credit, Debt, One, ThreadType, ObjType

(* Tokens: every post, and every 0 -> 1 of the suspend count, comes before  *)
(* the block it pays for.                                                  *)
LEMMA TokenStep ==
  ASSUME ThreadType, Linked, Fresh, Owned, Suspending, Tokens, [Next]_vars
  PROVE  Tokens'
<1>0. CASE UNCHANGED vars
  BY <1>0 DEF Tokens, Credit, Debt, Posting, Killing, vars, objVars, kidVars, callVars
<1>1. ASSUME NEW p \in Callers, NEW k \in Kids, NEW o \in Objs, NEW b \in BOOLEAN,
             CreateThread(p, k, o, b)
      PROVE  Tokens'
  <2>1. \A x \in Objs : Posting(x)' = Posting(x) /\ Killing(x)' = Killing(x)
    BY <1>1 DEF CreateThread, callVars, Posting, Killing
  <2>2. Killing(o) = {} /\ Cardinality(Killing(o)) = 0
    <3>1. Killing(o) = {} BY <1>1 DEF CreateThread, Fresh, Killing
    <3> QED BY <3>1, FS_EmptySet
  <2>3. ~frozen[k] /\ ~sig[k] /\ sem[o] = 0
    BY <1>1 DEF CreateThread, Linked, Suspending, Fresh
  <2>4. ASSUME NEW j \in Kids, kpc'[j] # "unborn" PROVE Credit(start[j])' >= Debt(j)'
    <3>1. CASE j = k
      <4>1. start'[k] = o /\ gated'[k] = b /\ sem'[o] = 0 /\ susp'[o] = One(b)
        BY <1>1, <2>3 DEF CreateThread, One, ThreadType, ObjType, KidType
      <4>2. ~frozen'[k] /\ ~sig'[k] /\ Cardinality(Killing(o))' = 0
        BY <1>1, <2>1, <2>2, <2>3 DEF CreateThread
      <4>3. Credit(o)' >= One(b)
        BY <2>1, <4>1, FlightFinite DEF Credit, One
      <4>4. Debt(k)' <= One(b) /\ Debt(k)' \in Int
        BY <4>1, <4>2 DEF Debt, One
      <4>5. Credit(o)' \in Int
        BY <2>1, <4>1, FlightFinite DEF Credit, One
      <4> QED BY <3>1, <4>1, <4>3, <4>4, <4>5 DEF One
    <3>2. CASE j # k
      <4>1. kpc[j] # "unborn" /\ start'[j] = start[j] /\ start[j] # o /\ start[j] \in Objs
        BY <1>1, <2>4, <3>2 DEF CreateThread, Fresh, Linked, ThreadType, KidType
      <4>2. Credit(start[j])' = Credit(start[j]) /\ Debt(j)' = Debt(j)
        BY <1>1, <2>1, <3>2, <4>1 DEF CreateThread, Credit, Debt, ThreadType, ObjType, KidType
      <4> QED BY <4>1, <4>2 DEF Tokens
    <3> QED BY <3>1, <3>2
  <2> QED BY <2>4 DEF Tokens
<1>2. ASSUME NEW p \in Callers, NEW o \in Objs, CreateThreadFails(p, o) PROVE Tokens'
  <2>1. \A x \in Objs : Posting(x)' = Posting(x) /\ Killing(x)' = Killing(x)
    BY PeopleAssumption, <1>2 DEF CreateThreadFails, kidVars, callVars, ThreadType, CallType, Linked,
      Posting, Killing
  <2> QED
    BY <1>2, <2>1, FlightFinite DEF CreateThreadFails, kidVars, callVars, Tokens, Credit, Debt, One,
      ThreadType, ObjType, KidType, Linked
<1>3. ASSUME NEW p \in Callers, NEW f \in Entries, NEW o \in Objs, NEW b \in BOOLEAN,
             Entering(p, f, o, b)
      PROVE  Tokens'
  <2>1. \A x \in Objs : Posting(x)' = Posting(x) /\ Killing(x)' = Killing(x)
    BY PeopleAssumption, <1>3 DEF Entering, Enter, Retain, Begin, kidVars, Entries, ThreadType,
      CallType, Linked, Posting, Killing
  <2> QED
    BY <1>3, <2>1, FlightFinite DEF Entering, Enter, Retain, Begin, kidVars, Entries, Tokens, Credit,
      Debt, One, ThreadType, ObjType, KidType, Linked
<1>4. ASSUME NEW p \in Callers, NEW o \in Objs, CloseHandle(p, o) PROVE Tokens'
  <2>1. \A x \in Objs : Posting(x)' = Posting(x) /\ Killing(x)' = Killing(x)
    BY PeopleAssumption, <1>4 DEF CloseHandle, Begin, kidVars, ThreadType, CallType, Linked, Posting,
      Killing
  <2> QED
    BY <1>4, <2>1, FlightFinite DEF CloseHandle, Begin, kidVars, Tokens, Credit, Debt, One,
      ThreadType, ObjType, KidType, Linked
<1>5. ASSUME NEW p \in Callers, NEW o \in Objs, DuplicateHandle(p, o) PROVE Tokens'
  <2>1. \A x \in Objs : Posting(x)' = Posting(x) /\ Killing(x)' = Killing(x)
    BY PeopleAssumption, <1>5 DEF DuplicateHandle, NewSlot, kidVars, callVars, ThreadType, CallType,
      Linked, Posting, Killing
  <2> QED
    BY <1>5, <2>1, FlightFinite DEF DuplicateHandle, NewSlot, kidVars, callVars, Tokens, Credit,
      Debt, One, ThreadType, ObjType, KidType, Linked
<1>6. ASSUME NEW p \in Callers, NEW o \in Objs, WrapSelf(p, o) PROVE Tokens'
  <2>1. \A x \in Objs : Posting(x)' = Posting(x) /\ Killing(x)' = Killing(x)
    BY PeopleAssumption, <1>6 DEF WrapSelf, Begin, kidVars, ThreadType, CallType, Linked, Posting,
      Killing
  <2> QED
    BY <1>6, <2>1, FlightFinite DEF WrapSelf, Begin, kidVars, Tokens, Credit, Debt, One, ThreadType,
      ObjType, KidType, Linked
<1>7. ASSUME NEW p \in Callers, CachedSelf(p) PROVE Tokens'
  <2>1. \A x \in Objs : Posting(x)' = Posting(x) /\ Killing(x)' = Killing(x)
    BY PeopleAssumption, <1>7 DEF CachedSelf, Begin, NoObject, objVars, kidVars, ThreadType,
      CallType, Linked, Posting, Killing
  <2> QED
    BY <1>7, <2>1, FlightFinite DEF CachedSelf, Begin, NoObject, objVars, kidVars, Tokens, Credit,
      Debt, One, ThreadType, ObjType, KidType, Linked
<1>8. ASSUME NEW p \in Callers, WaitDone(p) PROVE Tokens'
  <2>1. \A x \in Objs : Posting(x)' = Posting(x) /\ Killing(x)' = Killing(x)
    BY PeopleAssumption, <1>8 DEF WaitDone, Doing, Move, NoObject, objVars, kidVars, ThreadType,
      CallType, Linked, Posting, Killing
  <2> QED
    BY <1>8, <2>1, FlightFinite DEF WaitDone, Doing, Move, NoObject, objVars, kidVars, Tokens,
      Credit, Debt, One, ThreadType, ObjType, KidType, Linked
<1>9. ASSUME NEW p \in Callers, WaitSleeps(p) PROVE Tokens'
  <2>1. \A x \in Objs : Posting(x)' = Posting(x) /\ Killing(x)' = Killing(x)
    BY PeopleAssumption, <1>9 DEF WaitSleeps, Doing, Move, NoObject, objVars, kidVars, ThreadType,
      CallType, Linked, Posting, Killing
  <2> QED
    BY <1>9, <2>1, FlightFinite DEF WaitSleeps, Doing, Move, NoObject, objVars, kidVars, Tokens,
      Credit, Debt, One, ThreadType, ObjType, KidType, Linked
<1>10. ASSUME NEW p \in Callers, WaitTimesOut(p) PROVE Tokens'
  <2>1. \A x \in Objs : Posting(x)' = Posting(x) /\ Killing(x)' = Killing(x)
    BY PeopleAssumption, <1>10 DEF WaitTimesOut, Move, NoObject, objVars, kidVars, ThreadType,
      CallType, Linked, Posting, Killing
  <2> QED
    BY <1>10, <2>1, FlightFinite DEF WaitTimesOut, Move, NoObject, objVars, kidVars, Tokens, Credit,
      Debt, One, ThreadType, ObjType, KidType, Linked
<1>11. ASSUME NEW p \in Callers, ReadExitCode(p) PROVE Tokens'
  <2>1. \A x \in Objs : Posting(x)' = Posting(x) /\ Killing(x)' = Killing(x)
    BY PeopleAssumption, <1>11 DEF ReadExitCode, Doing, Move, NoObject, objVars, kidVars, ThreadType,
      CallType, Linked, Posting, Killing
  <2> QED
    BY <1>11, <2>1, FlightFinite DEF ReadExitCode, Doing, Move, NoObject, objVars, kidVars, Tokens,
      Credit, Debt, One, ThreadType, ObjType, KidType, Linked
<1>12. ASSUME NEW p \in Callers, SuspendAdd(p) PROVE Tokens'
  <2>0. at[p] \in Objs /\ p \notin Killing(at[p])
    BY <1>12 DEF SuspendAdd, Doing, Linked, Killing
  <2>1. \A x \in Objs : Posting(x)' = Posting(x)
    BY <1>12 DEF SuspendAdd, Doing, Move, Posting, ThreadType, CallType
  <2>2. \A x \in Objs : Killing(x)' = IF x = at[p] /\ susp[x] = 0 THEN Killing(x) \cup {p} ELSE Killing(x)
    BY <1>12 DEF SuspendAdd, Doing, Move, Killing, ThreadType, CallType
  <2>3. \A x \in Objs : Cardinality(Killing(x))' = Cardinality(Killing(x)) + One(x = at[p] /\ susp[x] = 0)
    BY <2>0, <2>2, FlightFinite, FS_AddElement, SMTT(30) DEF One
  <2>4. \A x \in Objs : susp'[x] = susp[x] + One(x = at[p])
    BY <1>12, <2>0 DEF SuspendAdd, One, ThreadType, ObjType
  <2>5. \A x \in Objs : Credit(x)' = Credit(x) + One(x = at[p] /\ susp[x] = 0)
    BY <1>12, <2>1, <2>4, FlightFinite DEF SuspendAdd, Credit, One, ThreadType, ObjType
  <2>6. \A k \in Kids : kpc[k] # "unborn" => Debt(k)' = Debt(k) + One(start[k] = at[p] /\ susp[start[k]] = 0)
    BY <1>12, <2>3, FlightFinite DEF SuspendAdd, kidVars, Debt, One, Linked
  <2> QED BY <1>12, <2>5, <2>6, CreditInt DEF SuspendAdd, kidVars, Tokens, Linked, One
<1>13. ASSUME NEW p \in Callers, Kill(p) PROVE Tokens'
  <2>0. at[p] \in Objs /\ p \in Killing(at[p]) /\ tid[at[p]] \in Kids
    BY <1>13 DEF Kill, Linked, Killing, Suspending, ThreadType, ObjType
  <2>1. \A x \in Objs : Posting(x)' = Posting(x)
    BY <1>13 DEF Kill, Move, Posting, ThreadType, CallType
  <2>2. \A x \in Objs : Killing(x)' = IF x = at[p] THEN Killing(x) \ {p} ELSE Killing(x)
    BY <1>13 DEF Kill, Move, Killing, ThreadType, CallType
  <2>3. \A x \in Objs : Cardinality(Killing(x))' = Cardinality(Killing(x)) - One(x = at[p])
    BY <2>0, <2>2, FlightFinite, FS_RemoveElement DEF One
  <2>4. \A x \in Objs : Credit(x)' = Credit(x)
    BY <1>13, <2>1 DEF Kill, objVars, Credit
  <2>5. ASSUME NEW k \in Kids, kpc[k] # "unborn" PROVE Debt(k)' \in Int /\ Debt(k)' <= Debt(k)
    <3>1. start[k] = at[p] <=> k = tid[at[p]]
      BY <2>0, <2>5, PeopleAssumption DEF Owned
    <3>2. start[k] \in Objs BY <2>5 DEF Linked
    <3>3. sig'[k] = IF k = tid[at[p]] THEN kpc[k] # "ended" ELSE sig[k]
      BY <1>13, <2>0 DEF Kill, ThreadType, KidType
    <3> QED BY <1>13, <2>3, <3>1, <3>2, <3>3, FlightFinite DEF Kill, Debt, One
  <2> QED BY <1>13, <2>4, <2>5, CreditInt DEF Kill, Tokens, Linked
<1>14. ASSUME NEW p \in Callers, ResumeSub(p) PROVE Tokens'
  <2>0. at[p] \in Objs /\ p \notin Posting(at[p])
    BY <1>14 DEF ResumeSub, Doing, Linked, Posting
  <2>1. \A x \in Objs : Killing(x)' = Killing(x)
    BY <1>14 DEF ResumeSub, AfterSub, Doing, Move, Killing, ThreadType, CallType
  <2>2. \A x \in Objs : Posting(x)' = IF x = at[p] /\ susp[x] = 1 THEN Posting(x) \cup {p} ELSE Posting(x)
    BY <1>14, <2>0 DEF ResumeSub, AfterSub, Doing, Move, Posting, ThreadType, CallType, ObjType
  <2>3. \A x \in Objs : Cardinality(Posting(x))' = Cardinality(Posting(x)) + One(x = at[p] /\ susp[x] = 1)
    BY <2>0, <2>2, FlightFinite, FS_AddElement DEF One
  <2>4. \A x \in Objs : susp'[x] = susp[x] - One(x = at[p])
    BY <1>14, <2>0 DEF ResumeSub, One, ThreadType, ObjType
  <2>5. \A x \in Objs : Credit(x)' = Credit(x)
    BY <1>14, <2>3, <2>4, FlightFinite DEF ResumeSub, Credit, One, ThreadType, ObjType
  <2>6. \A k \in Kids : kpc[k] # "unborn" => Debt(k)' = Debt(k)
    BY <1>14, <2>1 DEF ResumeSub, kidVars, Debt, Linked
  <2> QED BY <1>14, <2>5, <2>6 DEF ResumeSub, kidVars, Tokens, Linked
<1>15. ASSUME NEW p \in Callers, ResumeUndo(p) PROVE Tokens'
  <2>0. at[p] \in Objs
    BY <1>15 DEF ResumeUndo, Linked
  <2>1. \A x \in Objs : Posting(x)' = Posting(x) /\ Killing(x)' = Killing(x)
    BY <1>15 DEF ResumeUndo, Move, Posting, Killing, ThreadType, CallType
  <2>2. \A x \in Objs : susp'[x] = susp[x] + One(x = at[p])
    BY <1>15, <2>0 DEF ResumeUndo, One, ThreadType, ObjType
  <2>3. \A x \in Objs : Credit(x)' >= Credit(x)
    BY <1>15, <2>1, <2>2, FlightFinite DEF ResumeUndo, Credit, One, ThreadType, ObjType
  <2>4. \A k \in Kids : kpc[k] # "unborn" => Debt(k)' = Debt(k)
    BY <1>15, <2>1 DEF ResumeUndo, kidVars, Debt, Linked
  <2>5. \A x \in Objs : Credit(x)' \in Int
    BY <1>15, <2>1, <2>2, FlightFinite DEF ResumeUndo, Credit, One, ThreadType, ObjType
  <2> QED BY <1>15, <2>3, <2>4, <2>5, CreditInt DEF ResumeUndo, kidVars, Tokens, Linked
<1>16. ASSUME NEW p \in Callers, ResumePost(p) PROVE Tokens'
  <2>0. at[p] \in Objs /\ p \in Posting(at[p])
    BY <1>16 DEF ResumePost, Linked, Posting
  <2>1. \A x \in Objs : Killing(x)' = Killing(x)
    BY <1>16 DEF ResumePost, Move, Killing, ThreadType, CallType
  <2>2. \A x \in Objs : Posting(x)' = IF x = at[p] THEN Posting(x) \ {p} ELSE Posting(x)
    BY <1>16, <2>0 DEF ResumePost, Move, Posting, ThreadType, CallType
  <2>3. \A x \in Objs : Cardinality(Posting(x))' = Cardinality(Posting(x)) - One(x = at[p])
    BY <2>0, <2>2, FlightFinite, FS_RemoveElement DEF One
  <2>4. \A x \in Objs : sem'[x] = sem[x] + One(x = at[p])
    BY <1>16, <2>0 DEF ResumePost, One, ThreadType, ObjType
  <2>5. \A x \in Objs : Credit(x)' = Credit(x)
    BY <1>16, <2>3, <2>4, FlightFinite DEF ResumePost, Credit, One, ThreadType, ObjType
  <2>6. \A k \in Kids : kpc[k] # "unborn" => Debt(k)' = Debt(k)
    BY <1>16, <2>1 DEF ResumePost, kidVars, Debt, Linked
  <2> QED BY <1>16, <2>5, <2>6 DEF ResumePost, kidVars, Tokens, Linked
<1>17. ASSUME NEW p \in Callers, Release(p) PROVE Tokens'
  <2>1. \A x \in Objs : Posting(x)' = Posting(x) /\ Killing(x)' = Killing(x)
    BY PeopleAssumption, <1>17 DEF Release, Move, Leave, kidVars, ThreadType, CallType, Linked,
      Posting, Killing
  <2> QED
    BY <1>17, <2>1, FlightFinite DEF Release, Move, Leave, kidVars, Tokens, Credit, Debt, One,
      ThreadType, ObjType, KidType, Linked
<1>18. ASSUME NEW p \in Callers, Inspect(p) PROVE Tokens'
  <2>1. \A x \in Objs : Posting(x)' = Posting(x) /\ Killing(x)' = Killing(x)
    BY PeopleAssumption, <1>18 DEF Inspect, NoObject, objVars, kidVars, ThreadType, CallType, Linked,
      Posting, Killing
  <2> QED
    BY <1>18, <2>1, FlightFinite DEF Inspect, NoObject, objVars, kidVars, Tokens, Credit, Debt, One,
      ThreadType, ObjType, KidType, Linked
<1>19. ASSUME NEW p \in Callers, Reap(p) PROVE Tokens'
  <2>1. \A x \in Objs : Posting(x)' = Posting(x) /\ Killing(x)' = Killing(x)
    BY PeopleAssumption, <1>19 DEF Reap, Leave, kidVars, ThreadType, CallType, Linked, Posting,
      Killing
  <2> QED
    BY <1>19, <2>1, FlightFinite DEF Reap, Leave, kidVars, Tokens, Credit, Debt, One, ThreadType,
      ObjType, KidType, Linked
<1>20. ASSUME NEW p \in Callers, SelfSlot(p) PROVE Tokens'
  <2>1. \A x \in Objs : Posting(x)' = Posting(x) /\ Killing(x)' = Killing(x)
    BY PeopleAssumption, <1>20 DEF SelfSlot, NewSlot, Leave, kidVars, ThreadType, CallType, Linked,
      Posting, Killing
  <2> QED
    BY <1>20, <2>1, FlightFinite DEF SelfSlot, NewSlot, Leave, kidVars, Tokens, Credit, Debt, One,
      ThreadType, ObjType, KidType, Linked
<1>21. ASSUME NEW p \in Callers, SelfFull(p) PROVE Tokens'
  <2>1. \A x \in Objs : Posting(x)' = Posting(x) /\ Killing(x)' = Killing(x)
    BY PeopleAssumption, <1>21 DEF SelfFull, Leave, kidVars, ThreadType, CallType, Linked, Posting,
      Killing
  <2> QED
    BY <1>21, <2>1, FlightFinite DEF SelfFull, Leave, kidVars, Tokens, Credit, Debt, One, ThreadType,
      ObjType, KidType, Linked
<1>22. ASSUME NEW k \in Kids, Attach(k) PROVE Tokens'
  <2>1. \A x \in Objs : Posting(x)' = Posting(x) /\ Killing(x)' = Killing(x)
    BY PeopleAssumption, <1>22 DEF Attach, objVars, callVars, ThreadType, CallType, Linked, Posting,
      Killing
  <2> QED
    BY <1>22, <2>1, FlightFinite DEF Attach, objVars, callVars, Tokens, Credit, Debt, One, ThreadType,
      ObjType, KidType, Linked
<1>23. ASSUME NEW k \in Kids, PassGate(k) PROVE Tokens'
  <2>0. start[k] \in Objs /\ kpc[k] # "unborn" /\ start[k] = start[k]
    BY <1>23 DEF PassGate, Linked
  <2>1. \A x \in Objs : Posting(x)' = Posting(x) /\ Killing(x)' = Killing(x)
    BY <1>23 DEF PassGate, callVars, Posting, Killing
  <2>2. \A x \in Objs : sem'[x] = sem[x] - One(x = start[k])
    BY <1>23, <2>0 DEF PassGate, TakeToken, One, ThreadType, ObjType
  <2>3. \A x \in Objs : Credit(x)' = Credit(x) - One(x = start[k])
    BY <1>23, <2>1, <2>2, FlightFinite DEF PassGate, Credit, One, ThreadType, ObjType
  <2>4. ASSUME NEW j \in Kids, kpc[j] # "unborn" PROVE Debt(j)' = Debt(j) - One(start[j] = start[k])
    <3>1. start[j] = start[k] <=> j = k
      BY <2>0, <2>4, OwnObject
    <3>2. start[j] \in Objs BY <2>4 DEF Linked
    <3> QED BY <1>23, <2>1, <3>1, <3>2, FlightFinite DEF PassGate, Debt, One, ThreadType, KidType, Suspending
  <2> QED BY <1>23, <2>3, <2>4, CreditInt DEF PassGate, Tokens, Linked, One, ThreadType, KidType
<1>24. ASSUME NEW k \in Kids, FinishUnlock(k) PROVE Tokens'
  <2>1. \A x \in Objs : Posting(x)' = Posting(x) /\ Killing(x)' = Killing(x)
    BY PeopleAssumption, <1>24 DEF FinishUnlock, callVars, ThreadType, CallType, Linked, Posting,
      Killing
  <2> QED
    BY <1>24, <2>1, FlightFinite DEF FinishUnlock, callVars, Tokens, Credit, Debt, One, ThreadType,
      ObjType, KidType, Linked
<1>25. ASSUME NEW k \in Kids, Exit(k) PROVE Tokens'
  <2>1. \A x \in Objs : Posting(x)' = Posting(x) /\ Killing(x)' = Killing(x)
    BY PeopleAssumption, <1>25 DEF Exit, objVars, callVars, ThreadType, CallType, Linked, Posting,
      Killing
  <2> QED
    BY <1>25, <2>1, FlightFinite DEF Exit, objVars, callVars, Tokens, Credit, Debt, One, ThreadType,
      ObjType, KidType, Linked
<1>26. ASSUME NEW k \in Kids, TakeSignal(k) PROVE Tokens'
  <2>1. \A x \in Objs : Posting(x)' = Posting(x) /\ Killing(x)' = Killing(x)
    BY PeopleAssumption, <1>26 DEF TakeSignal, objVars, callVars, ThreadType, CallType, Linked,
      Posting, Killing
  <2> QED
    BY <1>26, <2>1, FlightFinite DEF TakeSignal, objVars, callVars, Tokens, Credit, Debt, One,
      ThreadType, ObjType, KidType, Linked
<1>27. ASSUME NEW k \in Kids, Thaw(k) PROVE Tokens'
  <2>0. key[k] \in Objs /\ kpc[k] # "unborn" /\ key[k] = start[k]
    BY <1>27 DEF Thaw, Linked
  <2>1. \A x \in Objs : Posting(x)' = Posting(x) /\ Killing(x)' = Killing(x)
    BY <1>27 DEF Thaw, callVars, Posting, Killing
  <2>2. \A x \in Objs : sem'[x] = sem[x] - One(x = start[k])
    BY <1>27, <2>0 DEF Thaw, TakeToken, One, ThreadType, ObjType
  <2>3. \A x \in Objs : Credit(x)' = Credit(x) - One(x = start[k])
    BY <1>27, <2>1, <2>2, FlightFinite DEF Thaw, Credit, One, ThreadType, ObjType
  <2>4. ASSUME NEW j \in Kids, kpc[j] # "unborn" PROVE Debt(j)' = Debt(j) - One(start[j] = start[k])
    <3>1. start[j] = start[k] <=> j = k
      BY <2>0, <2>4, OwnObject
    <3>2. start[j] \in Objs BY <2>4 DEF Linked
    <3> QED BY <1>27, <2>1, <3>1, <3>2, FlightFinite DEF Thaw, Debt, One, ThreadType, KidType, Linked
  <2> QED BY <1>27, <2>3, <2>4, CreditInt DEF Thaw, Tokens, Linked, One, ThreadType, KidType
<1>28. ASSUME NEW k \in Kids, Finish(k) PROVE Tokens'
  <2>1. \A x \in Objs : Posting(x)' = Posting(x) /\ Killing(x)' = Killing(x)
    BY PeopleAssumption, <1>28 DEF Finish, Awakened, ThreadType, CallType, Linked, Posting, Killing
  <2> QED
    BY <1>28, <2>1, FlightFinite DEF Finish, Awakened, Tokens, Credit, Debt, One, ThreadType, ObjType,
      KidType, Linked
<1>29. ASSUME NEW k \in Kids, DuplicateSelf(k) PROVE Tokens'
  <2>1. \A x \in Objs : Posting(x)' = Posting(x) /\ Killing(x)' = Killing(x)
    BY PeopleAssumption, <1>29 DEF DuplicateSelf, NewSlot, kidVars, callVars, ThreadType, CallType,
      Linked, Posting, Killing
  <2> QED
    BY <1>29, <2>1, FlightFinite DEF DuplicateSelf, NewSlot, kidVars, callVars, Tokens, Credit, Debt,
      One, ThreadType, ObjType, KidType, Linked
<1> QED BY NextCases, <1>0, <1>1, <1>2, <1>3, <1>4, <1>5, <1>6, <1>7, <1>8, <1>9, <1>10, <1>11,
    <1>12, <1>13, <1>14, <1>15, <1>16, <1>17, <1>18, <1>19, <1>20, <1>21, <1>22, <1>23, <1>24,
    <1>25, <1>26, <1>27, <1>28, <1>29

-----------------------------------------------------------------------------
(* The theorems. *)

CountInv == ThreadType /\ Linked /\ Fresh /\ Counted
TokenInv == ThreadType /\ Linked /\ Fresh /\ Owned /\ Suspending /\ Tokens
LifeInv  == CountInv /\ Owned /\ CallsLive /\ KidsLive

(* Nothing is counted in a set nobody is in. *)
LEMMA InitCounts ==
  ASSUME Init, NEW o \in Objs
  PROVE  Cardinality(InCall(o)) = 0
  <1>1. InCall(o) = {}
    BY DEF Init, InCall
  <1> QED BY <1>1, FS_EmptySet

(* The initial state has the types and the links. *)
LEMMA InitBase == Init => ThreadType /\ Linked /\ Fresh /\ Owned
  BY PeopleAssumption DEF Init, ThreadType, ObjType, KidType, CallType, CallerPCs, KidPCs, Fns, Linked, Fresh, Owned

(* refcount is the number of open handles plus the calls in flight, in     *)
(* every interleaving of CreateThread, lookups, CloseHandle,               *)
(* DuplicateHandle and the releases at the end of a call, for any number   *)
(* of threads and objects, and whatever the program's habits.              *)
THEOREM ThreadRefsHold == Spec => []ThreadRefs
<1>1. Init => CountInv
  <2>1. Init => Counted
    BY InitCounts DEF Counted, Init
  <2> QED BY <2>1, InitBase DEF CountInv
<1>2. CountInv /\ [Next]_vars => CountInv'
  BY TypeStep, LinkStep, FreshStep, CountStep DEF CountInv
<1>3. CountInv => ThreadRefs
  BY DEF CountInv, Counted, ThreadRefs
<1> QED BY <1>1, <1>2, <1>3, PTL DEF Spec

(* If the program keeps a handle of every running thread, and does not     *)
(* duplicate -2 after or while it closes the last handle to its own        *)
(* wrapper, no call and no kid (trampoline, thread_finish, signal handler) *)
(* works on a freed ThreadObj: sync_obj_destroy runs alone, and frees only *)
(* after pthread_join.                                                     *)
THEOREM ObjAliveHolds == Cautious /\ Spec => []ObjAlive
<1> SUFFICES ASSUME Cautious PROVE Spec => []ObjAlive
  OBVIOUS
<1>1. Init => LifeInv
  <2>1. Init => Counted
    BY InitCounts DEF Counted, Init
  <2>2. Init => CallsLive /\ KidsLive
    BY PeopleAssumption DEF Init, CallsLive, KidsLive
  <2> QED BY <2>1, <2>2, InitBase DEF CountInv, LifeInv
<1>2. LifeInv /\ [Next]_vars => LifeInv'
  BY TypeStep, LinkStep, FreshStep, CountStep, OwnedStep, CallsStep, KidsStep DEF LifeInv, CountInv
<1>3. LifeInv => ObjAlive
  BY DEF LifeInv, CountInv, Linked, CallsLive, KidsLive, ObjAlive, KidObjAlive, NeedsObj
<1> QED BY <1>1, <1>2, <1>3, PTL DEF Spec

(* A kid that blocks has a debt of at least one; with no call in flight    *)
(* and the count at zero, the credit is the semaphore.                     *)
LEMMA TokensSuffice ==
  ASSUME TokenInv
  PROVE  Resumable
<1>1. SUFFICES ASSUME \A p \in Callers : fn[p] \notin {"Suspend", "Resume"},
                      NEW k \in Kids, frozen[k] \/ kpc[k] = "gate", susp[start[k]] = 0
               PROVE  sem[start[k]] > 0
  BY DEF Resumable
<1>2. Posting(start[k]) = {} /\ kpc[k] # "unborn" /\ start[k] \in Objs
  BY <1>1 DEF TokenInv, Suspending, Posting, Linked
<1>3. Cardinality(Posting(start[k])) = 0
  BY <1>2, FS_EmptySet
<1>4. Debt(k) >= 1
  BY <1>1, FlightFinite DEF Debt, One, TokenInv, Suspending
<1>5. Credit(start[k]) = sem[start[k]]
  BY <1>1, <1>2, <1>3 DEF Credit, One, TokenInv, ThreadType, ObjType
<1>6. Credit(start[k]) >= Debt(k)
  BY <1>2 DEF TokenInv, Tokens
<1>7. Debt(k) \in Int /\ sem[start[k]] \in Int
  BY <1>2, CreditInt DEF TokenInv, ThreadType, ObjType
<1> QED BY <1>4, <1>5, <1>6, <1>7

(* When no SuspendThread or ResumeThread is in flight, a thread whose      *)
(* suspend count is zero has a token in suspend_sem if it still blocks at  *)
(* its gate or in the signal handler: no order of fetch_add, pthread_kill, *)
(* delivery, fetch_sub and sem_post loses one, whatever the program's      *)
(* habits.                                                                 *)
THEOREM ResumableHolds == Spec => []Resumable
<1>1. Init => TokenInv
  <2>1. Init => Suspending /\ Tokens
    BY DEF Init, Suspending, Tokens
  <2> QED BY <2>1, InitBase DEF TokenInv
<1>2. TokenInv /\ [Next]_vars => TokenInv'
  BY TypeStep, LinkStep, FreshStep, OwnedStep, SuspendingStep, TokenStep DEF TokenInv
<1> QED BY <1>1, <1>2, TokensSuffice, PTL DEF Spec
=============================================================================
