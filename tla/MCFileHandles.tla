--------------------------- MODULE MCFileHandles ---------------------------
(* Instances of FileHandles for TLC. *)
EXTENDS FileHandles, TLC

Symmetric == Permutations(Threads) \cup Permutations(Ctxs)
=============================================================================
