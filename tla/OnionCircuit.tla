---------------------------- MODULE OnionCircuit ----------------------------
(***************************************************************************)
(* The forward direction of an onion circuit: a CircuitSender that numbers *)
(* its cells, a chain of relays that each open one layer through a         *)
(* HopReceiver, and the ReplayWindow every receiver keeps.                 *)
(*                                                                         *)
(* Links lose, duplicate and reorder cells: a cell put on a link stays     *)
(* there, and may be received never, once or many times.  Anything else    *)
(* that reaches a receiver (a damaged cell, a cell of another circuit) may *)
(* carry any sequence number but does not authenticate; AEAD is external.  *)
(* A cell is its sequence number: all layers of one cell carry the same.   *)
(***************************************************************************)
EXTENDS Integers, FiniteSets

CONSTANTS NHops,      \* length of the circuit, at most MAX_HOPS
          Window,     \* REPLAY_WINDOW_BITS
          MaxJump,    \* MAX_FUTURE_SEQUENCE_JUMP
          Expiry,     \* expires_at of the circuit's keys
          MaxCells    \* bound: cells the sender seals

ASSUME CircuitAssumption ==
    /\ NHops \in Nat \ {0}
    /\ Window \in Nat \ {0}
    /\ MaxJump \in Nat
    /\ Expiry \in Nat
    /\ MaxCells \in Nat

Hops == 1..NHops
None == -1            \* ReplayWindow.highest = None
Sequences == 0..(MaxCells - 1)

VARIABLES
    clock,     \* the receivers' `now'
    next,      \* CircuitSender.next_sequence
    link,      \* link[h]: cells put on the link to hop h
    highest,   \* ReplayWindow.highest of every hop
    bitmap,    \* ReplayWindow.bitmap: the distances whose bit is set
    opened,    \* history: sequences every hop has opened
    opens      \* history: number of layers every hop has opened

vars == <<clock, next, link, highest, bitmap, opened, opens>>

Init ==
    /\ clock = 0
    /\ next = 0
    /\ link = [h \in Hops |-> {}]
    /\ highest = [h \in Hops |-> None]
    /\ bitmap = [h \in Hops |-> {}]
    /\ opened = [h \in Hops |-> {}]
    /\ opens = [h \in Hops |-> 0]

-----------------------------------------------------------------------------
\* CircuitSender::seal: the cell carries next_sequence in all its layers.
Seal ==
    /\ next < MaxCells
    /\ link' = [link EXCEPT ![1] = link[1] \cup {next}]
    /\ next' = next + 1
    /\ UNCHANGED <<clock, highest, bitmap, opened, opens>>

\* Variant: the bound of the window is off by one.
CheckWide(h, s) ==
    \/ highest[h] = None /\ s = 0
    \/ highest[h] # None /\ s > highest[h] /\ s - highest[h] <= MaxJump
    \/ /\ highest[h] # None /\ s <= highest[h] /\ highest[h] - s <= Window
       /\ highest[h] - s \notin bitmap[h]

\* ReplayWindow::check.
Check(h, s) ==
    \/ highest[h] = None /\ s = 0
    \/ highest[h] # None /\ s > highest[h] /\ s - highest[h] <= MaxJump
    \/ /\ highest[h] # None /\ s <= highest[h] /\ highest[h] - s < Window
       /\ highest[h] - s \notin bitmap[h]

\* Variant: the bitmap is wider than its word.
ShiftedWide(h, n) == {d + n : d \in bitmap[h]}

\* The bitmap moved up by n: bits shifted out of the word are lost.
Shifted(h, n) == {d \in 0..(Window - 1) : d - n \in bitmap[h]}

\* Variant: a jump ahead starts the bitmap afresh.
CommitForget(h, s) ==
    /\ highest' = [highest EXCEPT ![h] = IF s > highest[h] THEN s ELSE highest[h]]
    /\ bitmap' = [bitmap EXCEPT ![h] =
          IF s > highest[h] THEN {0} ELSE bitmap[h] \cup {highest[h] - s}]

\* ReplayWindow::commit.
Commit(h, s) ==
    /\ highest' = [highest EXCEPT ![h] = IF s > highest[h] THEN s ELSE highest[h]]
    /\ bitmap' = [bitmap EXCEPT ![h] =
          IF highest[h] = None THEN {0}
          ELSE IF s > highest[h] THEN Shifted(h, s - highest[h]) \cup {0}
          ELSE bitmap[h] \cup {highest[h] - s}]

\* Variant: the expiry in the header is not compared with the time.
OpenLayerLate(h, s) ==
    /\ s \in link[h]
    /\ Check(h, s)
    /\ Commit(h, s)
    /\ link' = [k \in Hops |-> IF k = h + 1 THEN link[k] \cup {s} ELSE link[k]]
    /\ opened' = [opened EXCEPT ![h] = opened[h] \cup {s}]
    /\ opens' = [opens EXCEPT ![h] = opens[h] + 1]
    /\ UNCHANGED <<clock, next>>

\* open_layer on a cell of this circuit: the layer comes off and what is inside
\* goes to the next hop; at the last hop it is the terminal payload.
OpenLayer(h, s) ==
    /\ s \in link[h]
    /\ clock < Expiry
    /\ Check(h, s)
    /\ Commit(h, s)
    /\ link' = [k \in Hops |-> IF k = h + 1 THEN link[k] \cup {s} ELSE link[k]]
    /\ opened' = [opened EXCEPT ![h] = opened[h] \cup {s}]
    /\ opens' = [opens EXCEPT ![h] = opens[h] + 1]
    /\ UNCHANGED <<clock, next>>

\* Variant: the sequence is committed before the tag is verified.
RefuseCommitted(h, s) ==
    /\ clock < Expiry
    /\ Check(h, s)
    /\ Commit(h, s)
    /\ UNCHANGED <<clock, next, link, opened, opens>>

\* open_layer on anything else: whatever sequence it carries, it fails at the
\* latest when the tag is verified, before the window is written.
Refuse(h, s) ==
    /\ clock < Expiry
    /\ Check(h, s)
    /\ UNCHANGED vars

Tick ==
    /\ clock < Expiry
    /\ clock' = clock + 1
    /\ UNCHANGED <<next, link, highest, bitmap, opened, opens>>

Next ==
    \/ Seal
    \/ \E h \in Hops, s \in Sequences : OpenLayer(h, s) \/ Refuse(h, s)
    \/ Tick

Spec == Init /\ [][Next]_vars

-----------------------------------------------------------------------------
(* Properties *)

\* Counters, windows and histories have their types; no hop knows a sequence
\* the sender has not used.
TypeOK ==
    /\ clock \in 0..Expiry
    /\ next \in 0..MaxCells
    /\ link \in [Hops -> SUBSET (0..(next - 1))]
    /\ highest \in [Hops -> None..(next - 1)]
    /\ bitmap \in [Hops -> SUBSET (0..(Window - 1))]
    /\ opened \in [Hops -> SUBSET (0..(next - 1))]
    /\ opens \in [Hops -> Nat]

\* The 128-bit window of a hop is exactly the set of sequences it has opened, as
\* far back as the window reaches: nothing that was opened is missing (it would
\* be opened again) and nothing else is marked (forged traffic cannot consume a
\* sequence a genuine cell still needs).
WindowExact ==
    \A h \in Hops :
        /\ highest[h] = None => opened[h] = {} /\ bitmap[h] = {}
        /\ highest[h] # None => highest[h] \in opened[h]
        /\ \A s \in opened[h] : s <= highest[h]
        /\ \A d \in 0..(Window - 1) : d \in bitmap[h] <=> highest[h] - d \in opened[h]

\* However a cell is duplicated on its link, a hop opens it at most once.
AtMostOnce == \A h \in Hops : opens[h] = Cardinality(opened[h])

\* The window depends on which cells were opened and not on their order: two hops
\* that opened the same cells accept and refuse the same cells from then on, so a
\* hop that has caught up never refuses what the hop before it lets through.
OrderIndependent ==
    \A h, k \in Hops :
        opened[h] = opened[k] => \A s \in Sequences : Check(h, s) <=> Check(k, s)

Channel == INSTANCE CellChannel
    WITH Cells <- Sequences,
         phase <- IF clock < Expiry THEN "open" ELSE "closed",
         sent <- link[1],
         got <- opened[NHops],
         deliveries <- opens[NHops]

\* End to end, over any number of hops with their own windows, the circuit is a
\* lossy, reordering channel that neither creates nor repeats cells and is silent
\* after expiry.
ImplementsChannel == Channel!ChannelSpec
=============================================================================
