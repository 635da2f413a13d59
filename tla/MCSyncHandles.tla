---------------------------- MODULE MCSyncHandles ----------------------------
(* Instances of SyncHandles for TLC. *)
EXTENDS SyncHandles, TLC

Symmetric == Permutations(Threads) \cup Permutations(Objs)
=============================================================================
