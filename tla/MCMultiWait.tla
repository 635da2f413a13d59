----------------------------- MODULE MCMultiWait -----------------------------
(* Instances of MultiWait for TLC. *)
EXTENDS MultiWait, TLC

BothOrders == {<<3, 4>>, <<4, 3>>}

\* Without creation and with lists in both orders the slots may be swapped, so
\* one of each pair of initial states is enough.
Rank == [k \in SyncKinds |-> CASE k = "H_EVENT" -> 1 [] k = "H_MUTEX" -> 2 [] OTHER -> 3]
MCInit == MInit /\ Rank[slotKind[3]] <= Rank[slotKind[4]]

MCSpec == MCInit /\ [][MNext]_mvars

\* Nobody reads the result of a call that is over, except the composite call it
\* is part of, and a call sets its own before it reads it.
Results == [t \in Threads |-> IF pc[t] \in {"act", "asleep"} \/ (pc[t] = "idle" /\ multi[t].fn = "none")
                              THEN "none" ELSE ret[t]]
View == <<slotVars, heapVars, dataVars, pc, op, hnd, knd, ptr, inf, left, Results, multi, tokens>>

Symmetric == Permutations(Threads) \cup Permutations(Objs)
=============================================================================
