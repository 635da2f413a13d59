----------------------------- MODULE AtomicMove -----------------------------
(***************************************************************************)
(* What MoveFileEx promises to somebody who looks at the directories while *)
(* several threads or processes move files to one target: the target goes  *)
(* from what it was to a whole source file in one step, and only if        *)
(* nothing is replaced or replacing was asked for; a source disappears in  *)
(* that step or after it; TRUE is returned for a move that took place,     *)
(* FALSE for one that did not or could not be finished; a move that has    *)
(* returned leaves no temporary file behind, unless it may not be removed; *)
(* a mover may die at any point.                                           *)
(*                                                                         *)
(* A file is known by what is in it: what is in a source is named like the *)
(* source.                                                                 *)
(***************************************************************************)
CONSTANTS Movers, Sources, Others, None

VARIABLES
  job,      \* what each mover was asked: the source, and whether to replace
  guarded,  \* the file system has a rename that replaces nothing
  stage,    \* how far each mover is
  source,   \* what is under the names of the sources
  target,   \* what is under the name of the target
  beside,   \* the movers with a temporary file beside the target
  denied    \* what each mover was refused: a hard "link", to "unlink" its temporary file

vars == <<job, guarded, stage, source, target, beside, denied>>

Init ==
  /\ job \in [Movers -> [src : Sources, replace : BOOLEAN]]
  /\ guarded \in BOOLEAN
  /\ stage = [m \in Movers |-> "asked"]
  /\ source = [s \in Sources |-> s]
  /\ target \in Others \cup {None}
  /\ beside = {} /\ denied = [m \in Movers |-> {}]

\* A target is replaced if that was asked for, or where nothing else is left.
Allowed(m) == job[m].replace \/ target = None \/ "link" \in denied[m]

Stage(m, where) == stage' = [stage EXCEPT ![m] = where]

Gone(m) == source' = [source EXCEPT ![job[m].src] = None]

Denied(m, what) == denied' = [denied EXCEPT ![m] = @ \cup {what}]

\* A move returns and leaves nothing behind.
Answer(m, what) == Stage(m, what) /\ beside' = beside \ {m} /\ denied' = denied

\* The source gets the name of the target in place of its own.
Rename(m) ==
  /\ stage[m] = "asked" /\ source[job[m].src] # None /\ Allowed(m)
  /\ target' = source[job[m].src]
  /\ Gone(m)
  /\ Answer(m, "moved")
  /\ UNCHANGED <<job, guarded>>

\* The target is the source or a whole copy of it; the old name stays.
Place(m) ==
  /\ stage[m] = "asked" /\ Allowed(m)
  /\ target' = job[m].src
  /\ Stage(m, "placed")
  /\ beside' \in {beside, beside \ {m}}
  /\ UNCHANGED <<job, guarded, source, denied>>

\* The old name goes.
Retire(m) ==
  /\ stage[m] = "placed"
  /\ Gone(m)
  /\ Answer(m, "moved")
  /\ UNCHANGED <<job, guarded, target>>

\* The two names are the same file: there is nothing to do.
Already(m) ==
  /\ stage[m] = "asked" /\ target # None /\ source[job[m].src] = target
  /\ Answer(m, "moved")
  /\ UNCHANGED <<job, guarded, source, target>>

\* FALSE: nothing was moved, or the old name could not be removed.
Refuse(m) ==
  /\ \E what \in {"refused", "halfway"} :
       /\ stage[m] = IF what = "refused" THEN "asked" ELSE "placed"
       /\ Answer(m, what) \/ (Stage(m, what) /\ Denied(m, "unlink") /\ beside' = beside)
  /\ UNCHANGED <<job, guarded, source, target>>

\* The file system will not make the hard link that is to guard the target.
Deny(m) ==
  /\ stage[m] = "asked" /\ ~guarded
  /\ Denied(m, "link")
  /\ UNCHANGED <<job, guarded, stage, source, target, beside>>

Die(m) ==
  /\ stage[m] \in {"asked", "placed"}
  /\ Stage(m, "dead")
  /\ UNCHANGED <<job, guarded, source, target, beside, denied>>

\* A temporary file comes or goes.
Prepare(m) ==
  /\ stage[m] \in {"asked", "placed"}
  /\ beside' \in {beside \cup {m}, beside \ {m}}
  /\ UNCHANGED <<job, guarded, stage, source, target, denied>>

\* Somebody else creates the target or deletes it.
Elsewhere ==
  /\ \/ target = None /\ target' \in Others
     \/ target' = None
  /\ UNCHANGED <<job, guarded, stage, source, beside, denied>>

Next ==
  \/ \E m \in Movers :
       Rename(m) \/ Place(m) \/ Retire(m) \/ Already(m) \/ Refuse(m) \/ Deny(m) \/ Die(m) \/ Prepare(m)
  \/ Elsewhere

Spec == Init /\ [][Next]_vars
=============================================================================
