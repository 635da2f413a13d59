--------------------------- MODULE MCLocalStorage ---------------------------
(***************************************************************************)
(* An instance of LocalStorage for TLC; the threads other than Main are    *)
(* alike.                                                                  *)
(***************************************************************************)
EXTENDS LocalStorage, TLC

Symmetric == Permutations(Threads \ {Main})
=============================================================================
