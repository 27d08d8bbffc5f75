--------------------------- MODULE MCThreadPoolExit ---------------------------
(***************************************************************************)
(* Instances of ThreadPoolExit for TLC.                                    *)
(***************************************************************************)
EXTENDS ThreadPoolExit, TLC

Symmetry == Permutations(Threads) \cup Permutations(Works \ (Endless \cup Quitters))

===============================================================================
