---------------------------- MODULE MCStateDocs -----------------------------
(* Two threads at one node, one at another. *)
EXTENDS StateDocs, TLC

CONSTANTS t1, t2, t3, n1, n2

MCPaths == {n1, n2, KeyFile, BlockFile, CasFile}
MCHome == (t1 :> n1) @@ (t2 :> n1) @@ (t3 :> n2)
Symmetry == Permutations({t1, t2})
=============================================================================
