---------------------------- MODULE MCAdmission -----------------------------
(* Two nodes, four validators of which one may be faulty, one more member. *)
EXTENDS Admission

CONSTANTS n1, n2, guest, v1, v2, v3, v4

Revoked(i) == [kind |-> "revoked", member |-> i]
Joined(i) == [kind |-> "joined", member |-> i]
Done(i) == [kind |-> "task", member |-> i]

MCEventLists == {<<Revoked(guest)>>, <<Revoked(n1), Joined(guest), Joined(n1)>>}
MCOwnEvents == <<Done(n1)>>

MCOrder == <<v1, v2, v3, v4>>
MCApprovalSets == {{v1, v4}, {v1, v2, v3}, {v1, v2, v4}, {v2, v3, v4}}

Certificate(of, by, until) ==
    [member |-> of, issuer |-> by, network |-> Mesh, rights |-> {"ledger"}, issued |-> 0,
     expires |-> until]

MCInvitations ==
    {Certificate(n1, n1, MaxTime + 1), Certificate(guest, n1, MaxTime),
     Certificate(guest, n1, MaxTime + 1)}
=============================================================================
