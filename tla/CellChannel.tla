---------------------------- MODULE CellChannel -----------------------------
(***************************************************************************)
(* What a circuit promises from its sender to its last hop: cells may be   *)
(* lost and reordered, but only cells that were sent come out, none comes  *)
(* out twice, and none comes out once the circuit's keys have expired.     *)
(***************************************************************************)
EXTENDS Naturals

CONSTANT Cells

VARIABLES phase,       \* "open" or "closed"
          sent,        \* cells the sender has sealed
          got,         \* cells that came out
          deliveries   \* how many times a cell came out

chvars == <<phase, sent, got, deliveries>>

ChannelInit ==
    /\ phase \in {"open", "closed"}
    /\ sent = {}
    /\ got = {}
    /\ deliveries = 0

Send(c) ==
    /\ c \notin sent
    /\ sent' = sent \cup {c}
    /\ UNCHANGED <<phase, got, deliveries>>

Deliver(c) ==
    /\ phase = "open"
    /\ c \in sent \ got
    /\ got' = got \cup {c}
    /\ deliveries' = deliveries + 1
    /\ UNCHANGED <<phase, sent>>

Close ==
    /\ phase = "open"
    /\ phase' = "closed"
    /\ UNCHANGED <<sent, got, deliveries>>

ChannelNext == (\E c \in Cells : Send(c) \/ Deliver(c)) \/ Close

ChannelSpec == ChannelInit /\ [][ChannelNext]_chvars
=============================================================================
