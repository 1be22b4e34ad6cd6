-------------------------- MODULE MCAnonymousAuth ---------------------------
(* Two calls at a time, epochs of two seconds.  Of the tokens that are      *)
(* presented two are of keys with one id, one is not signed.                *)
EXTENDS AnonymousAuth, TLC

CONSTANTS t1, t2

Scope(p, e, id, n) == [permission |-> p, epoch |-> e, key |-> [id |-> id, n |-> n]]

MCGiven ==
    <<[scope |-> Scope("a", 0, 1, 1), valid |-> TRUE],
      [scope |-> Scope("b", 0, 1, 2), valid |-> FALSE],
      [scope |-> Scope("a", 1, 1, 3), valid |-> TRUE]>>

Symmetry == Permutations(Threads)
=============================================================================
