---------------------------- MODULE OnionSession ----------------------------
(***************************************************************************)
(* What lies around the cells of OnionCircuit: the setup of the keys with  *)
(* every relay, the reverse direction, in which each relay adds a layer    *)
(* with a sequence number of its own, and messages that are cut into       *)
(* fragments and put together again by the initiator.                      *)
(*                                                                         *)
(* Setup messages and cells are lost, duplicated and reordered as in       *)
(* OnionCircuit.  The keys of a hop are the transcript they derive from.   *)
(* The windows of the initiator are the sets of OnionCircuit's WindowExact.*)
(***************************************************************************)
EXTENDS OnionCircuit, Sequences, FiniteSetsExt

CONSTANTS NoKeys,
          Routes,        \* numbers of hops of the circuits that are set up
          Lengths,       \* Lengths[m]: length of the m-th message of the exit
          MaxInflight,   \* MAX_INFLIGHT_MESSAGES
          MaxSetups,     \* bound: ephemeral keys made on either side
          MaxBack,       \* bound: cells a relay seals in the reverse direction
          Parts          \* which part runs: "cells", "setup", "reverse"

ASSUME SessionAssumption ==
    /\ Routes \subseteq Nat \ {0}
    /\ Lengths \in Seq(Nat)
    /\ MaxInflight \in Nat

CELL_SIZE == 1024
LAYER_OVERHEAD == 50 + 16 + 3
MAX_LAYER_DATA == CELL_SIZE - LAYER_OVERHEAD
FRAGMENT_HEADER_SIZE == 16 + 4 + 4 + 4
MAX_BYTES == MAX_LAYER_DATA - FRAGMENT_HEADER_SIZE

VARIABLES
    part,
    route,      \* hops of the circuit
    pending,    \* PendingSetups of the initiator: [hop, initiator]
    requests,   \* setup requests sent
    responses,  \* setup responses sent: [hop, initiator, responder]
    accepted,   \* keys that relays have derived
    keys,       \* keys[h]: NoKeys or the initiator's HopKeys for hop h
    setups,     \* ephemeral keys made so far
    upcoming,   \* the fragment <<message, index>> the exit sends next
    sequence,   \* HopDuplex.next_reverse_sequence of every relay
    back,       \* back[h]: cells on the link from hop h to the initiator's side
    seen,       \* seen[h]: sequences the initiator has opened with the keys of h
    partial,    \* Reassembler.messages: partial[m], indices that have arrived
    arrived,    \* history: fragments that were opened, in order
    taken,      \* history: fragments that found or made room
    delivered   \* history: messages put together, in order

setup == <<pending, requests, responses, accepted, keys, setups>>
reverse == <<upcoming, sequence, back, seen, partial, arrived, taken, delivered>>
session == <<part, route, setup, reverse>>

Messages == 1..Len(Lengths)
Relays == 1..route

-----------------------------------------------------------------------------
(* Setup *)

\* SetupContext::validate
Valid == clock < Expiry

\* What encode writes and parse reads back, as far as setups differ.
SetupRequest(h, i) == [hop |-> h, initiator |-> i]
SetupResponse(q, r) == [hop |-> q.hop, initiator |-> q.initiator, responder |-> r]

\* derive_keys: both sides derive the same keys if they have the same transcript.
HopKeys(q, r) == [hop |-> q.hop, initiator |-> q.initiator, responder |-> r]

\* InitiatorSetup::start, for a hop that has no keys yet; a lost answer is followed
\* by another attempt.
Start(h) ==
    /\ Valid /\ keys[h] = NoKeys
    /\ setups < MaxSetups
    /\ setups' = setups + 1
    /\ pending' = pending \cup {SetupRequest(h, setups')}
    /\ requests' = requests \cup {SetupRequest(h, setups')}
    /\ UNCHANGED <<vars, part, route, responses, accepted, keys, reverse>>

\* RelaySetup::accept, at the relay whose public key the request names; it keeps no
\* record and accepts a duplicate with another ephemeral key.
Accept(q) ==
    /\ Valid
    /\ setups < MaxSetups
    /\ setups' = setups + 1
    /\ responses' = responses \cup {SetupResponse(q, setups')}
    /\ accepted' = accepted \cup {HopKeys(q, setups')}
    /\ UNCHANGED <<vars, part, route, pending, requests, keys, reverse>>

\* Variant: the initiator's key in the response is not compared.
MatchesHop(p, r) == r.hop = p.hop

\* The response is to this attempt, and its confirmation tag shows that the relay
\* derived the same keys.
Matches(p, r) == r.hop = p.hop /\ r.initiator = p.initiator

\* InitiatorSetup::finish consumes the pending setup whether it succeeds or not.
FinishSetup(p, r) ==
    /\ pending' = pending \ {p}
    /\ keys' = IF Valid /\ Matches(p, r)
                 THEN [keys EXCEPT ![p.hop] = HopKeys(p, r.responder)] ELSE keys
    /\ UNCHANGED <<vars, part, route, requests, responses, accepted, setups, reverse>>

-----------------------------------------------------------------------------
(* Fragments *)

\* fragment_message
Pieces(m) ==
    IF Lengths[m] = 0 THEN 1 ELSE (Lengths[m] + MAX_BYTES - 1) \div MAX_BYTES

Size(m, i) == IF i < Pieces(m) THEN MAX_BYTES ELSE Lengths[m] - (Pieces(m) - 1) * MAX_BYTES

\* The fragments of a message one after the other, then the next message.
Successor(f) == IF f[2] < Pieces(f[1]) THEN <<f[1], f[2] + 1>> ELSE <<f[1] + 1, 1>>

max_payload_for_hops(hops) == MAX_LAYER_DATA - (hops - 1) * LAYER_OVERHEAD

\* Fragment::encode
Encoded(f) == FRAGMENT_HEADER_SIZE + Size(f[1], f[2])

\* Variant: a message that is complete keeps its slot.
PushKept(f) ==
    /\ partial' = [partial EXCEPT ![f[1]] = @ \cup {f[2]}]
    /\ taken' = taken \cup {f}
    /\ delivered' = IF Cardinality(partial[f[1]] \cup {f[2]}) = Pieces(f[1])
                      THEN Append(delivered, f[1]) ELSE delivered

\* Reassembler::push: a message whose fragments have all arrived leaves its slot; a
\* new one finds none while MAX_INFLIGHT_MESSAGES are incomplete.
Push(f) ==
    LET m == f[1]
        open == {k \in Messages : partial[k] # {}}
        all == partial[m] \cup {f[2]} IN
    IF f[2] \in partial[m] \/ (m \notin open /\ Cardinality(open) >= MaxInflight)
      THEN UNCHANGED <<partial, taken, delivered>>
      ELSE /\ taken' = taken \cup {f}
           /\ partial' = [partial EXCEPT ![m] = IF Cardinality(all) = Pieces(m) THEN {} ELSE all]
           /\ delivered' = IF Cardinality(all) = Pieces(m) THEN Append(delivered, m) ELSE delivered

-----------------------------------------------------------------------------
(* The reverse direction *)

Ready == \A h \in Relays : keys[h] # NoKeys

\* seal_compact refuses more data than a layer holds.
Holds(bytes) == bytes <= MAX_LAYER_DATA

\* The sequence numbers in the headers, from the outside, and what lies inside.
WireCell(seqs, fragment) == [seqs |-> seqs, fragment |-> fragment]

\* HopDuplex::seal_layer: the cell takes the relay's next sequence number.
SealLayer(h, seqs, fragment) ==
    /\ sequence[h] < MaxBack
    /\ sequence' = [sequence EXCEPT ![h] = @ + 1]
    /\ back' = [back EXCEPT ![h] = @ \cup {WireCell(<<sequence[h]>> \o seqs, fragment)}]

\* seal_terminal at the exit, whose fragment fits into one layer.
SealTerminal ==
    /\ Ready
    /\ upcoming[1] \in Messages
    /\ Holds(Encoded(upcoming))
    /\ upcoming' = Successor(upcoming)
    /\ SealLayer(route, <<>>, upcoming)
    /\ UNCHANGED <<vars, part, route, setup, seen, partial, arrived, taken, delivered>>

\* HopDuplex::wrap at a relay: it refuses what leaves no room for its layer, and
\* wraps a duplicate again.
Wrap(h, c) ==
    /\ Holds(Encoded(c.fragment) + Len(c.seqs) * LAYER_OVERHEAD)
    /\ SealLayer(h, c.seqs, c.fragment)
    /\ UNCHANGED <<vars, part, route, setup, upcoming, seen, partial, arrived, taken, delivered>>

\* Variant: of all layers the window of the first is checked.
PassesOuter(h, s) == IF h = 1 THEN s \notin seen[h] ELSE TRUE

\* ReplayWindow::check, for a window that has opened `seen[h]'.
Passes(h, s) ==
    IF seen[h] = {} THEN s = 0
    ELSE /\ s \notin seen[h]
         /\ s <= Max(seen[h]) + MaxJump
         /\ Max(seen[h]) - s < Window

\* The initiator opens the layers from the outside; at the first one that is refused
\* it stops, and the windows of those before it have moved.
Receive(c) ==
    LET Good(h) == \A k \in 1..h : Passes(k, c.seqs[k]) IN
    /\ clock < Expiry
    /\ Good(1)
    /\ seen' = [h \in Relays |-> IF Good(h) THEN seen[h] \cup {c.seqs[h]} ELSE seen[h]]
    /\ IF Good(route)
         THEN arrived' = Append(arrived, c.fragment) /\ Push(c.fragment)
         ELSE UNCHANGED <<arrived, partial, taken, delivered>>
    /\ UNCHANGED <<vars, part, route, setup, upcoming, sequence, back>>

-----------------------------------------------------------------------------

\* Keys of a setup without retries.
KeysOf(h) == HopKeys(SetupRequest(h, 2 * h - 1), 2 * h)

SessionInit ==
    /\ Init
    /\ part \in Parts /\ route \in (IF part = "cells" THEN {NHops} ELSE Routes)
    /\ pending = {} /\ requests = {} /\ responses = {}
    /\ IF part = "reverse"
         THEN /\ keys = [h \in Relays |-> KeysOf(h)] /\ setups = MaxSetups
              /\ accepted = {KeysOf(h) : h \in Relays}
         ELSE keys = [h \in Relays |-> NoKeys] /\ setups = 0 /\ accepted = {}
    /\ upcoming = <<1, 1>>
    /\ sequence = [h \in Relays |-> 0]
    /\ back = [h \in Relays |-> {}]
    /\ seen = [h \in Relays |-> {}]
    /\ partial = [m \in Messages |-> {}]
    /\ arrived = <<>> /\ taken = {} /\ delivered = <<>>

SetupStep ==
    \/ \E h \in Relays : Start(h)
    \/ \E q \in requests : Accept(q)
    \/ \E p \in pending, r \in responses : FinishSetup(p, r)

ReverseStep ==
    \/ SealTerminal
    \/ \E h \in 1..(route - 1) : \E c \in back[h + 1] : Wrap(h, c)
    \/ \E c \in back[1] : Receive(c)

SessionNext ==
    \/ part = "cells" /\ Next /\ UNCHANGED session
    \/ part = "setup" /\ SetupStep
    \/ part = "reverse" /\ ReverseStep
    \/ part # "cells" /\ Tick /\ UNCHANGED session

SessionSpec == SessionInit /\ [][SessionNext]_<<vars, session>>

-----------------------------------------------------------------------------
(* Properties *)

\* Keys that finish returns are keys that the relay of this hop derived too, though
\* requests and responses of several attempts are about.
SetupAgrees == \A h \in Relays : keys[h] # NoKeys => keys[h] \in accepted /\ keys[h].hop = h

\* No fragment is opened twice, though relays wrap duplicates with fresh numbers.
ReverseOnce == \A i, j \in DOMAIN arrived : arrived[i] = arrived[j] => i = j

\* A message is delivered, once, when all its fragments have been taken, and has a
\* slot exactly while some have been and some not; slots keep to their bound.  No
\* fragment arrives that is longer than max_payload_for_hops allows on this route.
Reassembled ==
    /\ \A m \in Messages :
         LET have == {i \in 1..Pieces(m) : <<m, i>> \in taken} IN
         /\ Cardinality({i \in DOMAIN delivered : delivered[i] = m}) =
              (IF Cardinality(have) = Pieces(m) THEN 1 ELSE 0)
         /\ \A i \in have : Encoded(<<m, i>>) <= max_payload_for_hops(route)
         /\ partial[m] = IF Cardinality(have) = Pieces(m) THEN {} ELSE have
    /\ Cardinality({m \in Messages : partial[m] # {}}) <= MaxInflight
=============================================================================
