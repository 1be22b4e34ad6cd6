---------------------------- MODULE MCRequester -----------------------------
(* Three peers, one of them faulty; two calls, or the scheduler alone. *)
EXTENDS Requester, TLC

CONSTANTS c1, c2, p1, p2, p3

MCRank == (p1 :> 1) @@ (p2 :> 2) @@ (p3 :> 3) @@ (Self :> 4)
Sight(cores, load, trust, power) ==
    [cores |-> cores, cpu |-> 10, load |-> load, memory |-> 7, latency |-> 5, locality |-> 0,
     transfer |-> 1, history |-> 5, trust |-> trust, replication |-> 0, congestion |-> 0,
     power |-> power]
MCSeen == (p1 :> Sight(1, 5, 5, "Ac")) @@ (p2 :> Sight(2, 5, 5, "Ac"))
          @@ (p3 :> Sight(3, 5, 9, "Battery")) @@ (Self :> Sight(4, 10, 5, "Unknown"))
MCMemory == (p1 :> 1) @@ (p2 :> 2) @@ (p3 :> 2) @@ (Self :> 2)

MCScenarios ==
    {[c \in Calls |-> "none"], (c1 :> "best") @@ (c2 :> "none"),
     (c1 :> "verified") @@ (c2 :> "none"), (c1 :> "sharded") @@ (c2 :> "none"),
     (c1 :> "fetch") @@ (c2 :> "repair"), (c1 :> "replicate") @@ (c2 :> "repair")}

Policy(k, e, n) == [kind |-> k, executions |-> e, matches |-> n]
MCPolicies == {Policy("trust", 0, 0), Policy("replicate", 2, 0), Policy("quorum", 3, 2)}

MCGiven == <<p1, p3, p1, p2>>
MCHosts == <<p1, p2, p3>>
=============================================================================
