----------------------------- MODULE MCThreadObjs -----------------------------
(* Instances of ThreadObjs for TLC. *)
EXTENDS ThreadObjs, TLC

Symmetric == Permutations(Callers) \cup Permutations(Objs)
=============================================================================
