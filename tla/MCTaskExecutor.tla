--------------------------- MODULE MCTaskExecutor ---------------------------
(***************************************************************************)
(* Small instances of TaskExecutor.  A deadline or lease beyond MaxTime is *)
(* one that never passes within the bound ("no deadline").                 *)
(***************************************************************************)
EXTENDS TaskExecutor, TLC

Symmetry == Permutations(Threads) \cup Permutations(Requesters)
=============================================================================
