--------------------------- MODULE DocumentStore ----------------------------
(***************************************************************************)
(* What the state documents of a node promise: updates that were stored    *)
(* are never lost again, and save, merge_snapshot and publish_state        *)
(* acknowledge only what is stored, on a disk that survives power losses.  *)
(***************************************************************************)
CONSTANTS Nodes, Updates

VARIABLES stored,         \* stored[n]: updates that survive whatever happens
          acknowledged    \* acknowledged[n]: updates a caller was told are saved

svars == <<stored, acknowledged>>

Init == stored = [n \in Nodes |-> {}] /\ acknowledged = stored

\* Updates become stored: those of one document that is saved, or those of several
\* nodes at once when a power loss decides which of their files come back.
Store ==
    /\ stored' \in [Nodes -> SUBSET Updates]
    /\ \A n \in Nodes : stored[n] \subseteq stored'[n]
    /\ UNCHANGED acknowledged

Acknowledge(n) ==
    /\ \E s \in SUBSET stored[n] : acknowledged' = [acknowledged EXCEPT ![n] = @ \cup s]
    /\ UNCHANGED stored

Next == Store \/ \E n \in Nodes : Acknowledge(n)

Spec == Init /\ [][Next]_svars
=============================================================================
