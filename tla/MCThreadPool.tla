----------------------------- MODULE MCThreadPool -----------------------------
(***************************************************************************)
(* Instances of ThreadPool for TLC.  Threads and the work items that are   *)
(* not endless are interchangeable.                                        *)
(***************************************************************************)
EXTENDS ThreadPool, TLC

Symmetry == Permutations(Threads) \cup Permutations(Works \ Endless)

===============================================================================
