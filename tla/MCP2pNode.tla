----------------------------- MODULE MCP2pNode ------------------------------
(* A peer, a relay that may be configured and one that may not be: its       *)
(* address, the peer's own, and circuits through each of the relays.         *)
EXTENDS P2pNode

CONSTANTS t1, t2, p, r, s

Address(circuit, relay, last) == [circuit |-> circuit, relay |-> relay, last |-> last]

MCAddresses ==
    {Address(FALSE, None, p), Address(FALSE, None, r), Address(TRUE, r, p), Address(TRUE, s, p)}

MCHeard == {Address(FALSE, None, p)}

MCClients ==
    {{"configure", "listen", "dial"}, {"configure", "add", "save"}, {"add", "bootstrap", "save"},
     {"request", "find", "provide", "gossip"}}

MCInvited == <<Address(TRUE, r, p), Address(FALSE, None, None), Address(FALSE, None, p)>>
=============================================================================
