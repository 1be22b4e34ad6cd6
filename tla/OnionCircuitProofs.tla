------------------------- MODULE OnionCircuitProofs -------------------------
(***************************************************************************)
(* Proofs about OnionCircuit and OnionSession, for every circuit length,   *)
(* window width, jump limit and expiry, and messages of any number and     *)
(* length.                                                                 *)
(*                                                                         *)
(* WindowExact is inductive (with TypeOK); that no cell is opened twice,   *)
(* that windows do not depend on the order of arrival, and the refinement  *)
(* of CellChannel follow from it.  The properties of the session rest on   *)
(* SessionInv, which follows a fragment from the number the exit gave it   *)
(* over the layers of every link to the window and the slots of the        *)
(* initiator.                                                              *)
(***************************************************************************)
EXTENDS OnionSession, FiniteSetTheorems, TLAPS

USE CircuitAssumption DEF Hops, None

\* Counters, windows and histories keep their types over every step of sender,
\* relays and links.
THEOREM TypeCorrect == Spec => []TypeOK
<1>1. Init => TypeOK
  BY DEF Init, TypeOK
<1>2. TypeOK /\ [Next]_vars => TypeOK'
  <2> SUFFICES ASSUME TypeOK, [Next]_vars PROVE TypeOK'
    BY Zenon
  <2> USE DEF TypeOK
  <2>1. CASE Seal
    <3>1. next' = next + 1 /\ next \in 0..next /\ next \in Nat
      BY <2>1 DEF Seal
    <3>2. 0..(next - 1) \subseteq 0..next /\ -1..(next - 1) \subseteq -1..next
      BY <3>1
    <3>3. link' \in [Hops -> SUBSET (0..next)]
      BY <2>1, <3>1, <3>2, Zenon DEF Seal
    <3>4. highest \in [Hops -> -1..next] /\ opened \in [Hops -> SUBSET (0..next)]
      BY <3>2, Zenon
    <3>5. next' \in 0..MaxCells /\ next' - 1 = next
      BY <2>1, <3>1 DEF Seal
    <3> QED
      BY <2>1, <3>3, <3>4, <3>5, Zenon DEF Seal
  <2>2. ASSUME NEW h \in Hops, NEW s \in Sequences, OpenLayer(h, s) PROVE TypeOK'
    <3>1. s \in 0..(next - 1) /\ highest[h] \in -1..(next - 1) /\ next' = next
      BY <2>2, Zenon DEF OpenLayer
    <3>2. highest' \in [Hops -> None..(next' - 1)]
      <4>1. highest' = [highest EXCEPT ![h] = IF s > highest[h] THEN s ELSE highest[h]]
        BY <2>2, Zenon DEF OpenLayer, Commit
      <4>2. (IF s > highest[h] THEN s ELSE highest[h]) \in None..(next - 1)
        BY ONLY <3>1 DEF None
      <4> QED
        BY <3>1, <4>1, <4>2, Zenon
    <3>3. bitmap' \in [Hops -> SUBSET (0..(Window - 1))]
      <4>1. highest[h] - s \in 0..(Window - 1) \/ s > highest[h]
        <5>1. Check(h, s)
          BY <2>2, Zenon DEF OpenLayer
        <5> QED
          BY ONLY <3>1, <5>1, CircuitAssumption DEF Check, None
      <4>2. bitmap'[h] \subseteq 0..(Window - 1)
        <5>1. bitmap'[h] = IF highest[h] = None THEN {0}
                           ELSE IF s > highest[h] THEN Shifted(h, s - highest[h]) \cup {0}
                           ELSE bitmap[h] \cup {highest[h] - s}
          BY <2>2, Zenon DEF OpenLayer, Commit
        <5>2. bitmap[h] \subseteq 0..(Window - 1) /\ Shifted(h, s - highest[h]) \subseteq 0..(Window - 1)
          BY Zenon DEF Shifted
        <5>3. 0 \in 0..(Window - 1)
          BY ONLY CircuitAssumption
        <5>4. highest[h] = None => s > highest[h]
          BY ONLY <3>1 DEF None
        <5> QED
          BY <4>1, <5>1, <5>2, <5>3, <5>4, Zenon
      <4> QED
        BY <2>2, <4>2, Zenon DEF OpenLayer, Commit
    <3>4. link' \in [Hops -> SUBSET (0..(next' - 1))]
      BY <2>2, <3>1, Zenon DEF OpenLayer
    <3>5. opened' \in [Hops -> SUBSET (0..(next' - 1))]
      BY <2>2, <3>1, Zenon DEF OpenLayer
    <3>6. opens' \in [Hops -> Nat]
      <4>1. opens' = [opens EXCEPT ![h] = opens[h] + 1] /\ opens[h] \in Nat
        BY <2>2, Zenon DEF OpenLayer
      <4>2. opens[h] + 1 \in Nat
        BY ONLY <4>1
      <4> QED
        BY <4>1, <4>2, Zenon
    <3> QED
      BY <2>2, <3>1, <3>2, <3>3, <3>4, <3>5, <3>6, Zenon DEF OpenLayer
  <2>3. CASE Tick
    BY <2>3 DEF Tick
  <2>4. CASE UNCHANGED vars
    BY <2>4, Zenon DEF vars
  <2> QED
    BY <2>1, <2>2, <2>3, <2>4, Zenon DEF Next, Refuse
<1> QED
  BY <1>1, <1>2, PTL DEF Spec

\* One step of a receiver keeps its window exact.
LEMMA WindowStep ==
    ASSUME TypeOK, WindowExact, NEW h \in Hops, NEW s \in Sequences, OpenLayer(h, s)
    PROVE  WindowExact'
<1>1. s \in Nat /\ highest[h] \in Int /\ opened[h] \subseteq Nat
  BY DEF OpenLayer, TypeOK
<1>2. opened'[h] = opened[h] \cup {s}
  BY Zenon DEF OpenLayer, TypeOK
<1>3. highest'[h] = IF s > highest[h] THEN s ELSE highest[h]
  BY Zenon DEF OpenLayer, Commit, TypeOK
<1>4. bitmap'[h] = IF highest[h] = None THEN {0}
                   ELSE IF s > highest[h] THEN Shifted(h, s - highest[h]) \cup {0}
                   ELSE bitmap[h] \cup {highest[h] - s}
  BY Zenon DEF OpenLayer, Commit, TypeOK
<1>5. /\ highest'[h] # None
      /\ highest'[h] \in opened'[h]
      /\ \A r \in opened'[h] : r <= highest'[h]
  <2>1. \A r \in opened[h] : r <= highest[h]
    BY Zenon DEF WindowExact
  <2>2. highest[h] # None => highest[h] \in opened[h]
    BY Zenon DEF WindowExact
  <2>3. CASE s > highest[h]
    BY <1>1, <1>2, <1>3, <2>1, <2>3
  <2>4. CASE ~(s > highest[h])
    BY <1>1, <1>2, <1>3, <2>1, <2>2, <2>4
  <2> QED
    BY <2>3, <2>4, Zenon
<1>6. \A d \in 0..(Window - 1) : d \in bitmap'[h] <=> highest'[h] - d \in opened'[h]
  <2>1. CASE highest[h] = None
    <3>1. opened'[h] = {s} /\ highest'[h] = s /\ bitmap'[h] = {0}
      <4>1. opened[h] = {}
        BY <2>1, Zenon DEF WindowExact
      <4> QED
        BY <1>1, <1>2, <1>3, <1>4, <2>1, <4>1
    <3> QED
      BY <1>1, <3>1
  <2>2. CASE highest[h] # None /\ s > highest[h]
    <3> SUFFICES ASSUME NEW d \in 0..(Window - 1)
                 PROVE  d \in bitmap'[h] <=> highest'[h] - d \in opened'[h]
      BY Zenon
    <3>0. PICK n \in Nat : n = s - highest[h]
      BY <1>1, <2>2
    <3>1. n > 0 /\ highest'[h] = highest[h] + n /\ s = highest[h] + n
      BY <1>1, <1>3, <2>2, <3>0
    <3>2. bitmap'[h] = Shifted(h, n) \cup {0}
      BY <1>4, <2>2, <3>0, Zenon
    <3>3. CASE d < n
      <4>1. d - n \notin bitmap[h]
        <5>1. bitmap[h] \subseteq 0..(Window - 1)
          BY Zenon DEF TypeOK
        <5> QED
          BY <3>1, <3>3, <5>1
      <4>2. highest[h] + n - d \notin opened[h]
        <5>1. \A r \in opened[h] : r <= highest[h]
          BY Zenon DEF WindowExact
        <5>2. highest[h] + n - d > highest[h]
          BY <1>1, <3>1, <3>3
        <5> QED
          BY <1>1, <5>1, <5>2
      <4>3. d \in bitmap'[h] <=> d = 0
        BY <3>2, <4>1, Zenon DEF Shifted
      <4>4. highest[h] + n - d \in opened'[h] <=> highest[h] + n - d = s
        BY <1>2, <4>2, Zenon
      <4> QED
        BY <1>1, <3>1, <4>3, <4>4
    <3>4. CASE d >= n
      <4>1. d - n \in 0..(Window - 1)
        BY <3>1, <3>4
      <4>2. d - n \in bitmap[h] <=> highest[h] - (d - n) \in opened[h]
        BY <4>1, Zenon DEF WindowExact
      <4>3. highest'[h] - d = highest[h] - (d - n) /\ highest'[h] - d # s /\ d # 0
        BY <1>1, <3>1, <3>4
      <4> QED
        BY <1>2, <3>2, <4>1, <4>2, <4>3, Zenon DEF Shifted
    <3> QED
      BY <3>1, <3>3, <3>4
  <2>3. CASE highest[h] # None /\ ~(s > highest[h])
    <3> SUFFICES ASSUME NEW d \in 0..(Window - 1)
                 PROVE  d \in bitmap'[h] <=> highest'[h] - d \in opened'[h]
      BY Zenon
    <3>1. highest'[h] = highest[h] /\ bitmap'[h] = bitmap[h] \cup {highest[h] - s}
      BY <1>3, <1>4, <2>3, Zenon
    <3>2. d \in bitmap[h] <=> highest[h] - d \in opened[h]
      BY Zenon DEF WindowExact
    <3>3. d = highest[h] - s <=> highest[h] - d = s
      BY <1>1
    <3> QED
      BY <1>2, <3>1, <3>2, <3>3, Zenon
  <2> QED
    BY <2>1, <2>2, <2>3, Zenon
<1>7. \A k \in Hops : k # h =>
          highest'[k] = highest[k] /\ bitmap'[k] = bitmap[k] /\ opened'[k] = opened[k]
  BY Zenon DEF OpenLayer, Commit, TypeOK
<1> QED
  BY <1>5, <1>6, <1>7, Zenon DEF WindowExact

\* Every receiver's window is exact in every reachable state.
THEOREM WindowsAreExact == Spec => []WindowExact
<1>1. Init => WindowExact
  BY Zenon DEF Init, WindowExact
<1>2. TypeOK /\ WindowExact /\ [Next]_vars => WindowExact'
  <2> SUFFICES ASSUME TypeOK, WindowExact, [Next]_vars PROVE WindowExact'
    BY Zenon
  <2>1. CASE Seal \/ Tick \/ UNCHANGED vars
    BY <2>1, Zenon DEF Seal, Tick, vars, WindowExact
  <2> QED
    BY <2>1, WindowStep, Zenon DEF Next, Refuse
<1> QED
  BY <1>1, <1>2, TypeCorrect, PTL DEF Spec

\* A sequence that passes the check has not been opened by this hop.
LEMMA CheckedIsFresh ==
    ASSUME TypeOK, WindowExact, NEW h \in Hops, NEW s \in Nat, Check(h, s)
    PROVE  s \notin opened[h]
<1>1. highest[h] \in Int
  BY DEF TypeOK
<1>2. CASE highest[h] = None
  BY <1>2, Zenon DEF WindowExact
<1>3. CASE highest[h] # None /\ s > highest[h]
  BY <1>1, <1>3 DEF WindowExact
<1>4. CASE /\ highest[h] # None /\ s <= highest[h] /\ highest[h] - s < Window
           /\ highest[h] - s \notin bitmap[h]
  <2>1. highest[h] - s \in 0..(Window - 1) /\ highest[h] - (highest[h] - s) = s
    BY <1>1, <1>4
  <2> QED
    BY <1>4, <2>1, Zenon DEF WindowExact
<1> QED
  BY <1>2, <1>3, <1>4, Zenon DEF Check

\* No hop opens a cell twice, however often it is duplicated and in whatever
\* order cells arrive.
THEOREM OpenedAtMostOnce == Spec => []AtMostOnce
<1>1. Init => AtMostOnce
  BY FS_EmptySet, Zenon DEF Init, AtMostOnce
<1>2. TypeOK /\ WindowExact /\ AtMostOnce /\ [Next]_vars => AtMostOnce'
  <2> SUFFICES ASSUME TypeOK, WindowExact, AtMostOnce, [Next]_vars PROVE AtMostOnce'
    BY Zenon
  <2>1. ASSUME NEW h \in Hops, NEW s \in Sequences, OpenLayer(h, s) PROVE AtMostOnce'
    <3>1. s \notin opened[h]
      BY <2>1, CheckedIsFresh DEF OpenLayer, Sequences
    <3>2. IsFiniteSet(opened[h])
      <4>1. opened[h] \subseteq 0..(next - 1) /\ next \in Int
        BY DEF TypeOK
      <4>2. IsFiniteSet(0..(next - 1))
        <5>1. 0 \in Int /\ next - 1 \in Int
          BY <4>1
        <5> QED
          BY <5>1, FS_Interval, Zenon
      <4> QED
        BY <4>1, <4>2, FS_Subset, Zenon
    <3>3. Cardinality(opened[h] \cup {s}) = Cardinality(opened[h]) + 1
      BY <3>1, <3>2, FS_AddElement, Zenon
    <3>4. opens'[h] = opens[h] + 1 /\ opened'[h] = opened[h] \cup {s}
      BY <2>1, Zenon DEF OpenLayer, TypeOK
    <3>5. \A k \in Hops : k # h => opens'[k] = opens[k] /\ opened'[k] = opened[k]
      BY <2>1, Zenon DEF OpenLayer, TypeOK
    <3> QED
      BY <3>3, <3>4, <3>5, Zenon DEF AtMostOnce
  <2>2. CASE Seal \/ Tick \/ UNCHANGED vars
    BY <2>2, Zenon DEF Seal, Tick, vars, AtMostOnce
  <2> QED
    BY <2>1, <2>2, Zenon DEF Next, Refuse
<1> QED
  BY <1>1, <1>2, TypeCorrect, WindowsAreExact, PTL DEF Spec

-----------------------------------------------------------------------------
\* Two hops whose windows are exact and that opened the same cells have the same
\* window, and decide alike on every cell.
LEMMA SameOpenedSameCheck ==
    ASSUME TypeOK, WindowExact, NEW h \in Hops, NEW k \in Hops, opened[h] = opened[k],
           NEW s \in Sequences
    PROVE  Check(h, s) <=> Check(k, s)
<1>1. highest[h] \in Int /\ highest[k] \in Int /\ s \in Int
  BY DEF TypeOK, Sequences
<1>2. highest[h] = highest[k]
  <2>1. CASE highest[h] = None
    BY <2>1, Zenon DEF WindowExact
  <2>2. CASE highest[k] = None
    BY <2>2, Zenon DEF WindowExact
  <2>3. CASE highest[h] # None /\ highest[k] # None
    <3>1. highest[h] <= highest[k] /\ highest[k] <= highest[h]
      BY <2>3, Zenon DEF WindowExact
    <3> QED
      BY <1>1, <3>1
  <2> QED
    BY <2>1, <2>2, <2>3, Zenon
<1>3. \A d \in 0..(Window - 1) : d \in bitmap[h] <=> d \in bitmap[k]
  BY <1>2, Zenon DEF WindowExact
<1>4. bitmap[h] \subseteq 0..(Window - 1) /\ bitmap[k] \subseteq 0..(Window - 1)
  BY Zenon DEF TypeOK
<1>5. bitmap[h] = bitmap[k]
  BY <1>3, <1>4, Zenon
<1> QED
  BY <1>2, <1>5, Zenon DEF Check

\* What a hop accepts depends on the cells it has opened, not on their order.
THEOREM WindowsIgnoreOrder == Spec => []OrderIndependent
<1>1. TypeOK /\ WindowExact => OrderIndependent
  BY SameOpenedSameCheck, Zenon DEF OrderIndependent
<1> QED
  BY <1>1, TypeCorrect, WindowsAreExact, PTL

\* A cell found on any link was put on the first one by the sender.
Origin == \A h \in Hops : link[h] \subseteq link[1]

LEMMA OriginInvariant == Spec => []Origin
<1>1. Init => Origin
  BY Zenon DEF Init, Origin
<1>2. TypeOK /\ Origin /\ [Next]_vars => Origin'
  <2> SUFFICES ASSUME TypeOK, Origin, [Next]_vars PROVE Origin'
    BY Zenon
  <2>1. CASE Seal
    BY <2>1, Zenon DEF Seal, Origin, TypeOK
  <2>2. ASSUME NEW h \in Hops, NEW s \in Sequences, OpenLayer(h, s) PROVE Origin'
    <3>1. link'[1] = link[1] /\ s \in link[1]
      BY <2>2 DEF OpenLayer, Origin
    <3>2. \A k \in Hops : link'[k] \subseteq link[k] \cup {s}
      BY <2>2, Zenon DEF OpenLayer
    <3> QED
      BY <3>1, <3>2, Zenon DEF Origin
  <2>3. CASE Tick \/ UNCHANGED vars
    BY <2>3, Zenon DEF Tick, vars, Origin
  <2> QED
    BY <2>1, <2>2, <2>3, Zenon DEF Next, Refuse
<1> QED
  BY <1>1, <1>2, TypeCorrect, PTL DEF Spec

\* Every step of the circuit is a step of the channel or leaves it unchanged.
LEMMA ChannelStep ==
    ASSUME TypeOK, WindowExact, Origin, [Next]_vars
    PROVE  [Channel!ChannelNext]_(Channel!chvars)
<1>1. CASE Seal
  <2>1. next \in Sequences /\ next \notin link[1]
    BY <1>1 DEF Seal, TypeOK, Sequences
  <2>2. link'[1] = link[1] \cup {next}
    BY <1>1 DEF Seal, TypeOK
  <2>3. Channel!Send(next)
    BY <1>1, <2>1, <2>2, Zenon DEF Seal, Channel!Send
  <2> QED
    BY <2>1, <2>3, Zenon DEF Channel!ChannelNext
<1>2. ASSUME NEW h \in Hops, NEW s \in Sequences, OpenLayer(h, s)
      PROVE  [Channel!ChannelNext]_(Channel!chvars)
  <2>1. clock' = clock /\ link'[1] = link[1]
    BY <1>2 DEF OpenLayer
  <2>2. CASE h = NHops
    <3>1. s \in link[1]
      BY <1>2, Zenon DEF OpenLayer, Origin
    <3>2. s \notin opened[NHops]
      BY <1>2, <2>2, CheckedIsFresh DEF OpenLayer, Sequences
    <3>3. opened'[NHops] = opened[NHops] \cup {s} /\ opens'[NHops] = opens[NHops] + 1
      BY <1>2, <2>2, Zenon DEF OpenLayer, TypeOK
    <3>4. Channel!Deliver(s)
      BY <1>2, <2>1, <3>1, <3>2, <3>3, Zenon DEF OpenLayer, Channel!Deliver
    <3> QED
      BY <3>4, Zenon DEF Channel!ChannelNext
  <2>3. CASE h # NHops
    <3>1. opened'[NHops] = opened[NHops] /\ opens'[NHops] = opens[NHops]
      BY <1>2, <2>3 DEF OpenLayer, TypeOK
    <3> QED
      BY <2>1, <3>1, Zenon DEF Channel!chvars
  <2> QED
    BY <2>2, <2>3, Zenon
<1>3. CASE Tick
  <2>1. CASE clock' < Expiry
    BY <1>3, <2>1, Zenon DEF Tick, Channel!chvars
  <2>2. CASE ~(clock' < Expiry)
    <3>1. Channel!Close
      BY <1>3, <2>2, Zenon DEF Tick, Channel!Close
    <3> QED
      BY <3>1, Zenon DEF Channel!ChannelNext
  <2> QED
    BY <2>1, <2>2, Zenon
<1>4. CASE UNCHANGED vars
  BY <1>4, Zenon DEF vars, Channel!chvars
<1> QED
  BY <1>1, <1>2, <1>3, <1>4, Zenon DEF Next, Refuse

\* A circuit of any length, with windows of any width, is the lossy, reordering,
\* once-only channel of CellChannel.
THEOREM CircuitImplementsChannel == Spec => ImplementsChannel
<1>1. Init => Channel!ChannelInit
  BY DEF Init, Channel!ChannelInit
<1> QED
  BY <1>1, ChannelStep, TypeCorrect, WindowsAreExact, OriginInvariant, PTL DEF Spec,
     ImplementsChannel, Channel!ChannelSpec
-----------------------------------------------------------------------------
(* The session around the cells *)

\* What relays answer is what they derived their keys from.
SetupInv ==
    /\ keys = [h \in Relays |-> keys[h]]
    /\ \A r \in responses : HopKeys(r, r.responder) \in accepted
    /\ SetupAgrees

Fragment(f) == f = <<f[1], f[2]>> /\ f[1] \in Messages /\ f[2] \in 1..Pieces(f[1])

Earlier(f, g) == f[1] < g[1] \/ (f[1] = g[1] /\ f[2] < g[2])

\* The exit gives every fragment a number of its own.
ExitInv ==
    /\ upcoming \in Nat \X Nat
    /\ upcoming[1] \in Messages => Fragment(upcoming)
    /\ sequence \in [Relays -> Nat]
    /\ \A c \in back[route] :
         /\ c = WireCell(<<c.seqs[1]>>, c.fragment)
         /\ c.seqs[1] \in Nat /\ c.seqs[1] < sequence[route]
         /\ Fragment(c.fragment) /\ Earlier(c.fragment, upcoming)
    /\ \A c, d \in back[route] : c.seqs[1] = d.seqs[1] <=> c.fragment = d.fragment

\* A cell on any link has a layer of every relay behind it; the innermost number and
\* the fragment are those of a cell of the exit, and there was room for every layer.
CellOk(h, c) ==
    /\ c.seqs \in Seq(Nat) /\ Len(c.seqs) = route - h + 1
    /\ \E d \in back[route] : d.seqs[1] = c.seqs[Len(c.seqs)] /\ d.fragment = c.fragment
    /\ Encoded(c.fragment) + (Len(c.seqs) - 1) * LAYER_OVERHEAD <= MAX_LAYER_DATA

CellsInv ==
    /\ back = [h \in Relays |-> back[h]]
    /\ \A h \in Relays : \A c \in back[h] : CellOk(h, c)

\* What arrived was opened under a number of the exit that its window knows.
ArrivedInv ==
    /\ seen = [h \in Relays |-> seen[h]]
    /\ arrived \in Seq(Nat \X Nat)
    /\ \A i \in DOMAIN arrived :
         \E d \in back[route] : d.seqs[1] \in seen[route] /\ d.fragment = arrived[i]
    /\ ReverseOnce

\* What was taken has arrived.
TakenInv ==
    /\ \A f \in taken : \E i \in DOMAIN arrived : arrived[i] = f
    /\ partial = [m \in Messages |-> partial[m]]
    /\ delivered \in Seq(Messages)
    /\ Reassembled

SessionInv ==
    /\ route \in Nat \ {0}
    /\ SetupInv /\ ExitInv /\ CellsInv /\ ArrivedInv /\ TakenInv

HIDE CircuitAssumption DEF Hops, None

\* The setup: finish takes the keys of a hop from a response of a relay that has
\* derived the same.
LEMMA SetupsAgree == SetupInv /\ [SessionNext]_<<vars, session>> => SetupInv'
<1> SUFFICES ASSUME SetupInv, [SessionNext]_<<vars, session>> PROVE SetupInv'
  BY Zenon
<1>1. ASSUME NEW h \in Relays, Start(h) PROVE SetupInv'
  BY <1>1, Zenon DEF Start, SetupInv, SetupAgrees, Relays, HopKeys
<1>2. ASSUME NEW q \in requests, Accept(q) PROVE SetupInv'
  <2>1. accepted \subseteq accepted' /\ UNCHANGED <<keys, route>>
    BY <1>2, Zenon DEF Accept
  <2>2. ASSUME NEW r \in responses' PROVE HopKeys(r, r.responder) \in accepted'
    <3>1. CASE r \in responses
      BY <2>1, <3>1, Zenon DEF SetupInv
    <3>2. CASE r = SetupResponse(q, setups')
      BY <1>2, <3>2, Zenon DEF Accept, SetupResponse, HopKeys
    <3> QED
      BY <1>2, <3>1, <3>2, Zenon DEF Accept
  <2> QED
    BY <2>1, <2>2, Zenon DEF SetupInv, SetupAgrees, Relays, HopKeys
<1>3. ASSUME NEW p \in pending, NEW r \in responses, FinishSetup(p, r) PROVE SetupInv'
  <2>1. UNCHANGED <<route, responses, accepted>> /\ Relays' = Relays
    BY <1>3, Zenon DEF FinishSetup, Relays
  <2>2. CASE keys' = keys
    BY <2>1, <2>2, Zenon DEF SetupInv, SetupAgrees, HopKeys
  <2>3. CASE Matches(p, r) /\ keys' = [keys EXCEPT ![p.hop] = HopKeys(p, r.responder)]
    <3>1. HopKeys(p, r.responder) \in accepted /\ HopKeys(p, r.responder).hop = p.hop
      BY <2>3, Zenon DEF SetupInv, HopKeys, Matches
    <3>2. /\ keys' = [h \in Relays |-> keys'[h]]
          /\ \A h \in Relays : keys'[h] = keys[h] \/ (h = p.hop /\ keys'[h] = HopKeys(p, r.responder))
      BY <2>3, Zenon DEF SetupInv
    <3>3. SetupAgrees'
      BY <2>1, <3>1, <3>2, Zenon DEF SetupInv, SetupAgrees
    <3> QED
      BY <2>1, <3>2, <3>3, Zenon DEF SetupInv, HopKeys
  <2> QED
    BY <1>3, <2>2, <2>3, Zenon DEF FinishSetup
<1>4. CASE UNCHANGED <<keys, route, responses, accepted>>
  BY <1>4, Zenon DEF SetupInv, SetupAgrees, Relays, HopKeys
<1>5. CASE ReverseStep \/ UNCHANGED session
  BY <1>4, <1>5, Zenon DEF ReverseStep, SealTerminal, Wrap, Receive, session, setup
<1> QED
  BY <1>1, <1>2, <1>3, <1>5, Zenon DEF SessionNext, SetupStep

\* Every message has fragments, and every fragment a size.
LEMMA PiecesType ==
    ASSUME NEW m \in Messages
    PROVE  Pieces(m) \in Nat \ {0} /\ \A i \in Nat : Encoded(<<m, i>>) \in Int
<1>1. Lengths[m] \in Nat
  BY SessionAssumption DEF Messages
<1>2. MAX_BYTES = 927 /\ FRAGMENT_HEADER_SIZE = 28
  BY DEF MAX_BYTES, FRAGMENT_HEADER_SIZE, MAX_LAYER_DATA, CELL_SIZE, LAYER_OVERHEAD
<1>3. Pieces(m) \in Nat \ {0}
  BY <1>1, <1>2 DEF Pieces
<1>4. ASSUME NEW i \in Nat PROVE Encoded(<<m, i>>) \in Int
  BY <1>1, <1>2, <1>3 DEF Encoded, Size
<1> QED
  BY <1>3, <1>4, Zenon

\* A fragment is a pair of numbers and has a size.
LEMMA FragmentType ==
    ASSUME NEW f, Fragment(f)
    PROVE  f \in Nat \X Nat /\ f[1] \in Nat /\ f[2] \in Nat /\ Encoded(f) \in Int
<1>1. PICK m, i : m \in Messages /\ f = <<m, i>> /\ f[1] = m /\ f[2] = i /\ i \in 1..Pieces(m)
  BY Zenon DEF Fragment
<1>2. Pieces(m) \in Nat \ {0} /\ \A k \in Nat : Encoded(<<m, k>>) \in Int
  BY <1>1, PiecesType, Zenon
<1>3. m \in Nat /\ i \in Nat
  BY <1>1, <1>2 DEF Messages
<1>4. Encoded(<<m, i>>) \in Int
  BY <1>2, <1>3, Zenon
<1> QED
  BY <1>1, <1>3, <1>4, Zenon

\* The fragment after the next comes after it.
LEMMA SuccessorLater ==
    ASSUME ExitInv, upcoming[1] \in Messages
    PROVE  /\ Successor(upcoming) \in Nat \X Nat
           /\ Successor(upcoming)[1] \in Messages => Fragment(Successor(upcoming))
           /\ Earlier(upcoming, Successor(upcoming))
           /\ \A f \in Nat \X Nat : Earlier(f, upcoming) => Earlier(f, Successor(upcoming))
<1>1. PICK m \in Messages, i \in Nat : upcoming = <<m, i>> /\ i \in 1..Pieces(m)
  BY Zenon DEF ExitInv, Fragment
<1>2. m \in Nat /\ Pieces(m) \in Nat \ {0}
  BY PiecesType DEF Messages
<1>3. PICK g : g = Successor(upcoming)
  BY Zenon
<1>4. CASE i < Pieces(m)
  <2>1. g = <<m, i + 1>>
    BY <1>1, <1>3, <1>4, Zenon DEF Successor
  <2> QED
    BY <1>1, <1>2, <1>3, <1>4, <2>1 DEF Fragment, Earlier
<1>5. CASE ~(i < Pieces(m))
  <2>1. g = <<m + 1, 1>>
    BY <1>1, <1>3, <1>5, Zenon DEF Successor
  <2>2. m + 1 \in Messages => Pieces(m + 1) \in Nat \ {0}
    BY PiecesType, Zenon
  <2> QED
    BY <1>1, <1>2, <1>3, <2>1, <2>2 DEF Fragment, Earlier
<1> QED
  BY <1>4, <1>5, Zenon

\* Fragments come one after the other.
LEMMA EarlierIsOther ==
    ASSUME NEW f, NEW g, f[1] \in Nat, f[2] \in Nat, Earlier(f, g) PROVE f # g
  BY DEF Earlier

\* The exit seals the next fragment under its next number.
LEMMA ExitSeals ==
    ASSUME SessionInv, SealTerminal
    PROVE  ExitInv' /\ CellsInv' /\ back[route] \subseteq back'[route]
<1>1. route \in Relays /\ route \in Nat /\ route' = route /\ Relays' = Relays
  BY DEF SessionInv, SealTerminal, Relays
<1>2. PICK n, new : n = sequence[route] /\ new = WireCell(<<n>>, upcoming)
  BY Zenon
<1>3. n \in Nat
  BY <1>1, <1>2, Zenon DEF SessionInv, ExitInv
<1>4. WireCell(<<n>> \o <<>>, upcoming) = new
  BY <1>2, <1>3 DEF WireCell
<1>5. /\ sequence' = [sequence EXCEPT ![route] = n + 1]
      /\ back' = [back EXCEPT ![route] = back[route] \cup {new}]
      /\ upcoming' = Successor(upcoming) /\ upcoming[1] \in Messages /\ Holds(Encoded(upcoming))
  BY <1>2, <1>4, Zenon DEF SealTerminal, SealLayer
<1>6. /\ back' = [h \in Relays |-> back'[h]] /\ back'[route] = back[route] \cup {new}
      /\ \A h \in Relays : back'[h] = back[h] \/ h = route
  BY <1>1, <1>5, Zenon DEF SessionInv, CellsInv
<1>7. sequence' \in [Relays -> Nat] /\ sequence'[route] = n + 1
  BY <1>1, <1>3, <1>5 DEF SessionInv, ExitInv
<1>8. new.seqs = <<n>> /\ new.fragment = upcoming /\ new.seqs[1] = n
  BY <1>2, Zenon DEF WireCell
<1>9. Fragment(upcoming) /\ upcoming \in Nat \X Nat
  BY <1>5, Zenon DEF SessionInv, ExitInv
<1>10. /\ upcoming' \in Nat \X Nat /\ (upcoming'[1] \in Messages => Fragment(upcoming'))
       /\ Earlier(upcoming, upcoming')
       /\ \A f \in Nat \X Nat : Earlier(f, upcoming) => Earlier(f, upcoming')
  BY <1>5, SuccessorLater, Zenon DEF SessionInv
<1>11. ASSUME NEW c \in back[route]
       PROVE  /\ c = WireCell(<<c.seqs[1]>>, c.fragment)
              /\ c.seqs[1] \in Nat /\ c.seqs[1] < n /\ c.seqs[1] # n
              /\ Fragment(c.fragment) /\ Earlier(c.fragment, upcoming) /\ c.fragment # upcoming
              /\ c.fragment \in Nat \X Nat
  <2>1. /\ c = WireCell(<<c.seqs[1]>>, c.fragment) /\ c.seqs[1] \in Nat /\ c.seqs[1] < n
        /\ Fragment(c.fragment) /\ Earlier(c.fragment, upcoming)
    BY <1>2, Zenon DEF SessionInv, ExitInv
  <2>2. c.fragment \in Nat \X Nat /\ c.fragment[1] \in Nat /\ c.fragment[2] \in Nat
    BY <2>1, FragmentType, Zenon
  <2> QED
    BY <1>3, <2>1, <2>2, EarlierIsOther
<1>12. ASSUME NEW c \in back'[route]
       PROVE  /\ c = WireCell(<<c.seqs[1]>>, c.fragment)
              /\ c.seqs[1] \in Nat /\ c.seqs[1] < sequence'[route]
              /\ Fragment(c.fragment) /\ Earlier(c.fragment, upcoming')
  <2>1. CASE c = new
    BY <1>2, <1>3, <1>7, <1>8, <1>9, <1>10, <2>1
  <2>2. CASE c \in back[route]
    BY <1>3, <1>7, <1>10, <1>11, <2>2
  <2> QED
    BY <1>6, <2>1, <2>2, Zenon
<1>13. ASSUME NEW c \in back'[route], NEW d \in back'[route]
       PROVE  c.seqs[1] = d.seqs[1] <=> c.fragment = d.fragment
  <2>1. CASE c \in back[route] /\ d \in back[route]
    BY <2>1, Zenon DEF SessionInv, ExitInv
  <2> QED
    BY <1>6, <1>8, <1>11, <2>1, Zenon
<1>14. ExitInv'
  BY <1>1, <1>7, <1>10, <1>12, <1>13, Zenon DEF ExitInv, Fragment, Earlier, WireCell, Pieces,
     Messages
<1>15. ASSUME NEW h \in Relays, NEW c \in back[h] PROVE CellOk(h, c)'
  BY <1>1, <1>6, <1>15, Zenon DEF SessionInv, CellsInv, CellOk, Encoded, Size, Pieces
<1>16. CellOk(route, new)'
  <2>1. new.seqs \in Seq(Nat) /\ Len(new.seqs) = 1 /\ new.seqs[Len(new.seqs)] = n
    BY <1>3, <1>8
  <2>2. Encoded(upcoming) \in Int /\ Encoded(upcoming) <= MAX_LAYER_DATA
    BY <1>5, <1>9, FragmentType, Zenon DEF Holds
  <2>3. Encoded(new.fragment)' = Encoded(upcoming)
    BY <1>8, Zenon DEF Encoded, Size, Pieces
  <2>4. Encoded(upcoming) + (1 - 1) * LAYER_OVERHEAD <= MAX_LAYER_DATA
    BY <2>2 DEF LAYER_OVERHEAD, MAX_LAYER_DATA, CELL_SIZE
  <2>5. 1 = route - route + 1
    BY <1>1
  <2> QED
    BY <1>1, <1>6, <1>8, <2>1, <2>3, <2>4, <2>5, Zenon DEF CellOk
<1>17. CellsInv'
  BY <1>1, <1>6, <1>15, <1>16, Zenon DEF CellsInv
<1> QED
  BY <1>6, <1>14, <1>17, Zenon

\* What is said of messages depends on what was taken, delivered and kept.
LEMMA SameReassembled ==
    ASSUME Reassembled, UNCHANGED <<route, partial, taken, delivered>> PROVE Reassembled'
  BY Zenon DEF Reassembled

\* A number in front of others.
LEMMA Prepended ==
    ASSUME NEW n \in Nat, NEW q \in Seq(Nat), Len(q) \in Nat \ {0}
    PROVE  /\ <<n>> \o q \in Seq(Nat) /\ Len(<<n>> \o q) = Len(q) + 1
           /\ (<<n>> \o q)[Len(q) + 1] = q[Len(q)]
<1>1. <<n>> \in Seq(Nat) /\ Len(<<n>>) = 1
  OBVIOUS
<1>2. Len(q) + 1 \in 1..(Len(q) + 1) /\ Len(q) + 1 > 1 /\ (Len(q) + 1) - 1 = Len(q)
  OBVIOUS
<1>3. <<n>> \o q \in Seq(Nat) /\ Len(<<n>> \o q) = Len(q) + 1
  BY <1>1
<1>4. (<<n>> \o q)[Len(q) + 1] = q[(Len(q) + 1) - 1]
  BY <1>1, <1>2, <1>3
<1> QED
  BY <1>2, <1>3, <1>4, Zenon

\* A relay adds a layer to a cell, under its own next number.
LEMMA RelayWraps ==
    ASSUME SessionInv, NEW h \in 1..(route - 1), NEW c \in back[h + 1], Wrap(h, c)
    PROVE  ExitInv' /\ CellsInv' /\ back'[route] = back[route]
<1>1. /\ route \in Nat \ {0} /\ route' = route /\ Relays' = Relays
      /\ h \in Relays /\ h + 1 \in Relays /\ route \in Relays /\ h # route /\ h \in Nat
  BY DEF SessionInv, Wrap, Relays
<1>2. PICK n, new : n = sequence[h] /\ new = WireCell(<<n>> \o c.seqs, c.fragment)
  BY Zenon
<1>3. /\ sequence' = [sequence EXCEPT ![h] = n + 1]
      /\ back' = [back EXCEPT ![h] = back[h] \cup {new}]
      /\ upcoming' = upcoming /\ Holds(Encoded(c.fragment) + Len(c.seqs) * LAYER_OVERHEAD)
  BY <1>2, Zenon DEF Wrap, SealLayer
<1>4. n \in Nat /\ sequence' \in [Relays -> Nat] /\ sequence'[route] = sequence[route]
  BY <1>1, <1>2, <1>3 DEF SessionInv, ExitInv
<1>5. /\ back' = [k \in Relays |-> back'[k]] /\ back'[h] = back[h] \cup {new}
      /\ \A k \in Relays : k # h => back'[k] = back[k]
  BY <1>1, <1>3, Zenon DEF SessionInv, CellsInv
<1>6. back'[route] = back[route]
  BY <1>1, <1>5, Zenon
<1>7. ExitInv'
  <2>1. \A c1 \in back'[route] :
          /\ c1 = WireCell(<<c1.seqs[1]>>, c1.fragment)
          /\ c1.seqs[1] \in Nat /\ c1.seqs[1] < sequence'[route]
          /\ Fragment(c1.fragment) /\ Earlier(c1.fragment, upcoming')
    BY <1>3, <1>4, <1>6, Zenon DEF SessionInv, ExitInv
  <2>2. \A c1, d \in back'[route] : c1.seqs[1] = d.seqs[1] <=> c1.fragment = d.fragment
    BY <1>6, Zenon DEF SessionInv, ExitInv
  <2>3. upcoming' \in Nat \X Nat /\ (upcoming'[1] \in Messages => Fragment(upcoming'))
    BY <1>3, Zenon DEF SessionInv, ExitInv
  <2> QED
    BY <1>1, <1>4, <2>1, <2>2, <2>3, Zenon DEF ExitInv, Fragment, Earlier, WireCell, Pieces,
       Messages
<1>8. ASSUME NEW k \in Relays, NEW d \in back[k] PROVE CellOk(k, d)'
  BY <1>1, <1>6, <1>8, Zenon DEF SessionInv, CellsInv, CellOk, Encoded, Size, Pieces
<1>9. CellOk(h, new)'
  <2>1. CellOk(h + 1, c)
    BY <1>1, Zenon DEF SessionInv, CellsInv
  <2>2. PICK q, l, fragment : q = c.seqs /\ l = Len(q) /\ fragment = c.fragment
    BY Zenon
  <2>3. q \in Seq(Nat) /\ l = route - (h + 1) + 1
    BY <2>1, <2>2, Zenon DEF CellOk
  <2>4. l \in Nat \ {0} /\ l + 1 = route - h + 1
    BY <1>1, <2>3
  <2>5. new.seqs = <<n>> \o q /\ new.fragment = fragment
    BY <1>2, <2>2, Zenon DEF WireCell
  <2>6. new.seqs \in Seq(Nat) /\ Len(new.seqs) = l + 1 /\ new.seqs[l + 1] = q[l]
    BY <1>4, <2>2, <2>3, <2>4, <2>5, Prepended, Zenon
  <2>7. Encoded(fragment) + ((l + 1) - 1) * LAYER_OVERHEAD <= MAX_LAYER_DATA
    <3>1. (l + 1) - 1 = l
      BY <2>4
    <3> QED
      BY <1>3, <2>2, <3>1, Zenon DEF Holds
  <2>8. \E d \in back[route] : d.seqs[1] = q[l] /\ d.fragment = fragment
    BY <2>1, <2>2, Zenon DEF CellOk
  <2>9. Encoded(new.fragment)' = Encoded(fragment)
    BY <2>5, Zenon DEF Encoded, Size, Pieces
  <2> QED
    BY <1>1, <1>6, <2>4, <2>5, <2>6, <2>7, <2>8, <2>9, Zenon DEF CellOk
<1>10. CellsInv'
  BY <1>1, <1>5, <1>8, <1>9, Zenon DEF CellsInv
<1> QED
  BY <1>6, <1>7, <1>10, Zenon

Have(m) == {i \in 1..Pieces(m) : <<m, i>> \in taken}
Deliveries(m) == {i \in DOMAIN delivered : delivered[i] = m}
Slots == {m \in Messages : partial[m] # {}}

\* A set of indices of a message is all of them exactly if it is large enough.
LEMMA AllPieces ==
    ASSUME NEW m \in Messages, NEW i \in 1..Pieces(m), i \notin Have(m)
    PROVE  Cardinality(Have(m)) # Pieces(m)
<1>1. Pieces(m) \in Nat
  BY PiecesType, Zenon
<1>2. IsFiniteSet(1..Pieces(m)) /\ Cardinality(1..Pieces(m)) = Pieces(m)
  BY <1>1, FS_Interval
<1>3. Have(m) \subseteq 1..Pieces(m)
  BY Zenon DEF Have
<1>4. Have(m) # 1..Pieces(m)
  BY Zenon
<1> QED
  BY <1>2, <1>3, <1>4, FS_Subset, Zenon

\* A fragment that is new finds its message's slot or makes one.
LEMMA PushReassembles ==
    ASSUME TakenInv, NEW f, Fragment(f), f \notin taken, Push(f),
           Encoded(f) <= max_payload_for_hops(route), route' = route
    PROVE  /\ taken' \subseteq taken \cup {f}
           /\ partial' = [m \in Messages |-> partial'[m]]
           /\ delivered' \in Seq(Messages)
           /\ Reassembled'
<1>1. PICK m, i : m \in Messages /\ f = <<m, i>> /\ f[1] = m /\ f[2] = i /\ i \in 1..Pieces(m)
  BY Zenon DEF Fragment
<1>2. Pieces(m) \in Nat /\ i \in Nat /\ m \in Nat
  BY <1>1, PiecesType DEF Messages
<1>3. CASE UNCHANGED <<partial, taken, delivered>>
  <2>1. Reassembled'
    BY <1>3, SameReassembled, Zenon DEF TakenInv
  <2> QED
    BY <1>3, <2>1, Zenon DEF TakenInv
<1>4. CASE ~UNCHANGED <<partial, taken, delivered>>
  <2>1. PICK all : all = partial[m] \cup {i}
    BY Zenon
  <2>2. /\ i \notin partial[m]
        /\ m \in Slots \/ ~(Cardinality(Slots) >= MaxInflight)
        /\ taken' = taken \cup {f}
        /\ partial' = [partial EXCEPT ![m] = IF Cardinality(all) = Pieces(m) THEN {} ELSE all]
        /\ delivered' = IF Cardinality(all) = Pieces(m) THEN Append(delivered, m) ELSE delivered
    BY <1>1, <1>4, <2>1, Zenon DEF Push, Slots
  <2>3. ASSUME NEW k \in Messages
        PROVE  /\ Cardinality(Deliveries(k)) = IF Cardinality(Have(k)) = Pieces(k) THEN 1 ELSE 0
               /\ \A j \in Have(k) : Encoded(<<k, j>>) <= max_payload_for_hops(route)
               /\ partial[k] = IF Cardinality(Have(k)) = Pieces(k) THEN {} ELSE Have(k)
    BY Zenon DEF TakenInv, Reassembled, Have, Deliveries
  <2>4. i \notin Have(m)
    BY <1>1, Zenon DEF Have
  <2>5. Cardinality(Have(m)) # Pieces(m)
    BY <1>1, <2>4, AllPieces, Zenon
  <2>6. partial[m] = Have(m) /\ Cardinality(Deliveries(m)) = 0 /\ all = Have(m) \cup {i}
    BY <1>1, <2>1, <2>3, <2>5, Zenon
  <2>7. Have(m)' = all
    BY <1>1, <2>2, <2>6, Zenon DEF Have, Pieces
  <2>8. ASSUME NEW k \in Messages, k # m PROVE Have(k)' = Have(k)
    BY <1>1, <2>2, <2>8, Zenon DEF Have, Pieces
  <2>9. /\ partial' = [k \in Messages |-> partial'[k]]
        /\ partial'[m] = IF Cardinality(all) = Pieces(m) THEN {} ELSE all
        /\ \A k \in Messages : k # m => partial'[k] = partial[k]
    BY <1>1, <2>2, Zenon DEF TakenInv
  <2>10. delivered \in Seq(Messages) /\ delivered' \in Seq(Messages)
    BY <1>1, <2>2 DEF TakenInv
  <2>11. Deliveries(m) = {}
    <3>1. IsFiniteSet(Deliveries(m))
      <4>1. Len(delivered) \in Nat /\ DOMAIN delivered = 1..Len(delivered)
        BY <2>10
      <4>2. IsFiniteSet(DOMAIN delivered)
        BY <4>1, FS_Interval
      <4> QED
        BY <4>2, FS_Subset, Zenon DEF Deliveries
    <3> QED
      BY <2>6, <3>1, FS_EmptySet, Zenon
  <2>12. Cardinality(Deliveries(m))' = IF Cardinality(all) = Pieces(m) THEN 1 ELSE 0
    <3>1. CASE Cardinality(all) = Pieces(m)
      <4>1. delivered' = Append(delivered, m)
        BY <2>2, <3>1, Zenon
      <4>2. Deliveries(m)' = {Len(delivered) + 1}
        BY <2>10, <2>11, <4>1 DEF Deliveries
      <4> QED
        BY <3>1, <4>2, FS_Singleton, Zenon
    <3>2. CASE Cardinality(all) # Pieces(m)
      <4>1. Deliveries(m)' = {}
        BY <2>2, <2>11, <3>2, Zenon DEF Deliveries
      <4> QED
        BY <3>2, <4>1, FS_EmptySet, Zenon
    <3> QED
      BY <3>1, <3>2, Zenon
  <2>13. ASSUME NEW k \in Messages, k # m PROVE Deliveries(k)' = Deliveries(k)
    <3>1. CASE delivered' = delivered
      BY <3>1, Zenon DEF Deliveries
    <3>2. CASE delivered' = Append(delivered, m)
      BY <2>10, <2>13, <3>2 DEF Deliveries
    <3> QED
      BY <2>2, <3>1, <3>2, Zenon
  <2>14. Cardinality(Slots)' <= MaxInflight
    <3>1. Slots' \subseteq Slots \cup {m}
      BY <1>1, <2>9, Zenon DEF Slots
    <3>2. IsFiniteSet(Slots) /\ Cardinality(Slots) <= MaxInflight /\ MaxInflight \in Nat
      <4>1. IsFiniteSet(Messages)
        BY FS_Interval, SessionAssumption DEF Messages
      <4> QED
        BY <4>1, FS_Subset, SessionAssumption, Zenon DEF Slots, TakenInv, Reassembled
    <3>3. Cardinality(Slots) \in Nat
      BY <3>2, FS_CardinalityType, Zenon
    <3>4. IsFiniteSet(Slots \cup {m}) /\ Cardinality(Slots \cup {m}) <= MaxInflight
      <4>1. CASE m \in Slots
        <5>1. Slots \cup {m} = Slots
          BY <4>1, Zenon
        <5> QED
          BY <3>2, <5>1, Zenon
      <4>2. CASE m \notin Slots
        <5>1. IsFiniteSet(Slots \cup {m}) /\ Cardinality(Slots \cup {m}) = Cardinality(Slots) + 1
          BY <3>2, <4>2, FS_AddElement, Zenon
        <5>2. ~(Cardinality(Slots) >= MaxInflight)
          BY <2>2, <4>2, Zenon
        <5> QED
          BY <3>2, <3>3, <5>1, <5>2
      <4> QED
        BY <4>1, <4>2, Zenon
    <3>5. Cardinality(Slots') \in Nat /\ Cardinality(Slots') <= Cardinality(Slots \cup {m})
      BY <3>1, <3>4, FS_Subset, FS_CardinalityType, Zenon
    <3>6. Cardinality(Slots \cup {m}) \in Nat
      BY <3>4, FS_CardinalityType, Zenon
    <3> QED
      BY <3>2, <3>4, <3>5, <3>6
  <2>15. ASSUME NEW k \in Messages
        PROVE  /\ Cardinality(Deliveries(k))' = IF Cardinality(Have(k))' = Pieces(k) THEN 1 ELSE 0
               /\ \A j \in Have(k)' : Encoded(<<k, j>>) <= max_payload_for_hops(route)
               /\ partial'[k] = IF Cardinality(Have(k))' = Pieces(k) THEN {} ELSE Have(k)'
    <3>1. CASE k = m
      BY <1>1, <2>3, <2>6, <2>7, <2>9, <2>12, <3>1, Zenon
    <3>2. CASE k # m
      BY <2>3, <2>8, <2>9, <2>13, <3>2, Zenon
    <3> QED
      BY <3>1, <3>2, Zenon
  <2>16. Reassembled'
    BY <2>14, <2>15, Zenon DEF Reassembled, Have, Deliveries, Slots, Pieces, Encoded, Size,
       Messages, max_payload_for_hops
  <2> QED
    BY <2>2, <2>9, <2>10, <2>16, Zenon
<1> QED
  BY <1>3, <1>4, Zenon

\* The initiator opens the layers of a cell; what it then takes out is new to it.
LEMMA InitiatorReceives ==
    ASSUME SessionInv, NEW c \in back[1], Receive(c)
    PROVE  ArrivedInv' /\ TakenInv'
<1>1. /\ route \in Nat \ {0} /\ route' = route /\ Relays' = Relays /\ back' = back
      /\ 1 \in Relays /\ route \in Relays
  BY DEF SessionInv, Receive, Relays
<1> DEFINE Good(h) == \A k \in 1..h : Passes(k, c.seqs[k])
<1>2. /\ seen' = [h \in Relays |-> IF Good(h) THEN seen[h] \cup {c.seqs[h]} ELSE seen[h]]
      /\ IF Good(route)
           THEN arrived' = Append(arrived, c.fragment) /\ Push(c.fragment)
           ELSE UNCHANGED <<arrived, partial, taken, delivered>>
  BY Zenon DEF Receive
<1>3. /\ seen' = [h \in Relays |-> seen'[h]]
      /\ seen'[route] = IF Good(route) THEN seen[route] \cup {c.seqs[route]} ELSE seen[route]
  BY <1>1, <1>2, Zenon
<1>4. CASE ~Good(route)
  <2>1. UNCHANGED <<arrived, partial, taken, delivered>> /\ seen[route] \subseteq seen'[route]
    BY <1>2, <1>3, <1>4, Zenon
  <2>2. ArrivedInv'
    BY <1>1, <1>3, <2>1, Zenon DEF SessionInv, ArrivedInv, ReverseOnce
  <2>3. Reassembled'
    BY <1>1, <2>1, SameReassembled, Zenon DEF SessionInv, TakenInv
  <2> QED
    BY <2>1, <2>2, <2>3, Zenon DEF SessionInv, TakenInv
<1>5. CASE Good(route)
  <2>1. PICK f, n : f = c.fragment /\ n = c.seqs[route]
    BY Zenon
  <2>2. arrived' = Append(arrived, f) /\ Push(f) /\ seen'[route] = seen[route] \cup {n}
    BY <1>2, <1>3, <1>5, <2>1, Zenon
  <2>3. Passes(route, n)
    <3>1. route \in 1..route
      BY <1>1
    <3> QED
      BY <1>5, <2>1, <3>1, Zenon
  <2>4. n \notin seen[route]
    BY <2>3, Zenon DEF Passes
  <2>5. CellOk(1, c)
    BY <1>1, Zenon DEF SessionInv, CellsInv
  <2>6. Len(c.seqs) = route
    BY <1>1, <2>5 DEF CellOk
  <2>7. PICK d \in back[route] : d.seqs[1] = n /\ d.fragment = f
    BY <2>1, <2>5, <2>6, Zenon DEF CellOk
  <2>8. Fragment(f)
    BY <2>7, Zenon DEF SessionInv, ExitInv
  <2>9. f \in Nat \X Nat /\ Encoded(f) \in Int
    BY <2>8, FragmentType, Zenon
  <2>10. ASSUME NEW i \in DOMAIN arrived PROVE arrived[i] # f
    <3>1. PICK e \in back[route] : e.seqs[1] \in seen[route] /\ e.fragment = arrived[i]
      BY Zenon DEF SessionInv, ArrivedInv
    <3> QED
      BY <2>4, <2>7, <3>1, Zenon DEF SessionInv, ExitInv
  <2>11. f \notin taken
    BY <2>10, Zenon DEF SessionInv, TakenInv
  <2>12. Encoded(f) <= max_payload_for_hops(route)
    <3>1. Encoded(f) + (route - 1) * LAYER_OVERHEAD <= MAX_LAYER_DATA
      BY <2>1, <2>5, <2>6, Zenon DEF CellOk
    <3>2. LAYER_OVERHEAD = 69 /\ MAX_LAYER_DATA = 955
      BY DEF LAYER_OVERHEAD, MAX_LAYER_DATA, CELL_SIZE
    <3>3. max_payload_for_hops(route) = 955 - (route - 1) * 69
      BY <3>2, Zenon DEF max_payload_for_hops
    <3>4. Encoded(f) + (route - 1) * 69 <= 955
      BY <3>1, <3>2, Zenon
    <3> QED
      BY <1>1, <2>9, <3>3, <3>4
  <2>13. /\ arrived \in Seq(Nat \X Nat) /\ arrived' \in Seq(Nat \X Nat)
         /\ DOMAIN arrived' = DOMAIN arrived \cup {Len(arrived) + 1}
         /\ Len(arrived) + 1 \notin DOMAIN arrived
         /\ arrived'[Len(arrived) + 1] = f
         /\ \A i \in DOMAIN arrived : arrived'[i] = arrived[i]
    <3>1. arrived \in Seq(Nat \X Nat)
      BY Zenon DEF SessionInv, ArrivedInv
    <3> QED
      BY <2>2, <2>9, <3>1
  <2>14. ASSUME NEW i \in DOMAIN arrived'
         PROVE  \E e \in back[route] : e.seqs[1] \in seen'[route] /\ e.fragment = arrived'[i]
    <3>1. CASE i \in DOMAIN arrived
      BY <2>2, <2>13, <3>1, Zenon DEF SessionInv, ArrivedInv
    <3>2. CASE i = Len(arrived) + 1
      BY <2>2, <2>7, <2>13, <3>2, Zenon
    <3> QED
      BY <2>13, <3>1, <3>2, Zenon
  <2>15. ReverseOnce'
    BY <2>10, <2>13, Zenon DEF SessionInv, ArrivedInv, ReverseOnce
  <2>16. ArrivedInv'
    BY <1>1, <1>3, <2>13, <2>14, <2>15, Zenon DEF ArrivedInv
  <2>17. /\ taken' \subseteq taken \cup {f} /\ partial' = [m \in Messages |-> partial'[m]]
         /\ delivered' \in Seq(Messages) /\ Reassembled'
    BY <1>1, <2>2, <2>8, <2>11, <2>12, PushReassembles, Zenon DEF SessionInv
  <2>18. ASSUME NEW g \in taken' PROVE \E i \in DOMAIN arrived' : arrived'[i] = g
    <3>1. CASE g = f
      BY <2>13, <3>1, Zenon
    <3>2. CASE g \in taken
      BY <2>13, <3>2, Zenon DEF SessionInv, TakenInv
    <3> QED
      BY <2>17, <3>1, <3>2, Zenon
  <2> QED
    BY <2>16, <2>17, <2>18, Zenon DEF TakenInv, Messages
<1> QED
  BY <1>4, <1>5, Zenon

\* While nothing of the reverse direction moves, what was said of it stays.
LEMMA ReverseIdle ==
    ASSUME SessionInv, UNCHANGED <<route, upcoming, sequence, back>>
    PROVE  /\ ExitInv' /\ CellsInv'
           /\ UNCHANGED <<seen, partial, arrived, taken, delivered>> => ArrivedInv' /\ TakenInv'
<1>1. Relays' = Relays
  BY Zenon DEF Relays
<1>2. ExitInv'
  BY <1>1, Zenon DEF SessionInv, ExitInv
<1>3. CellsInv'
  BY <1>1, Zenon DEF SessionInv, CellsInv, CellOk
<1>4. ASSUME UNCHANGED <<seen, partial, arrived, taken, delivered>> PROVE ArrivedInv' /\ TakenInv'
  <2>1. ArrivedInv'
    BY <1>1, <1>4, Zenon DEF SessionInv, ArrivedInv, ReverseOnce
  <2>2. Reassembled'
    BY <1>4, SameReassembled, Zenon DEF SessionInv, TakenInv
  <2> QED
    BY <1>4, <2>1, <2>2, Zenon DEF SessionInv, TakenInv
<1> QED
  BY <1>2, <1>3, <1>4, Zenon

\* Cells that the relays add leave what has arrived and what was taken as it was.
LEMMA MoreCells ==
    ASSUME SessionInv, UNCHANGED <<route, seen, partial, arrived, taken, delivered>>,
           back[route] \subseteq back'[route]
    PROVE  ArrivedInv' /\ TakenInv'
<1>1. Relays' = Relays
  BY Zenon DEF Relays
<1>2. ArrivedInv'
  BY <1>1, Zenon DEF SessionInv, ArrivedInv, ReverseOnce
<1>3. Reassembled'
  BY SameReassembled, Zenon DEF SessionInv, TakenInv
<1> QED
  BY <1>2, <1>3, Zenon DEF SessionInv, TakenInv

\* A step of the session, in whichever of its parts.
LEMMA SessionStep == SessionInv /\ [SessionNext]_<<vars, session>> => SessionInv'
<1> SUFFICES ASSUME SessionInv, [SessionNext]_<<vars, session>> PROVE SessionInv'
  BY Zenon
<1>1. SetupInv'
  BY SetupsAgree, Zenon DEF SessionInv
<1>2. CASE SealTerminal
  BY <1>1, <1>2, ExitSeals, MoreCells, Zenon DEF SealTerminal, SessionInv
<1>3. ASSUME NEW h \in 1..(route - 1), NEW c \in back[h + 1], Wrap(h, c) PROVE SessionInv'
  <2>1. ExitInv' /\ CellsInv' /\ back'[route] = back[route]
    BY <1>3, RelayWraps, Zenon
  <2>2. ArrivedInv' /\ TakenInv' /\ route' = route
    BY <1>3, <2>1, MoreCells, Zenon DEF Wrap
  <2> QED
    BY <1>1, <2>1, <2>2, Zenon DEF SessionInv
<1>4. ASSUME NEW c \in back[1], Receive(c) PROVE SessionInv'
  <2>1. ArrivedInv' /\ TakenInv'
    BY <1>4, InitiatorReceives, Zenon
  <2>2. ExitInv' /\ CellsInv' /\ route' = route
    BY <1>4, ReverseIdle, Zenon DEF Receive
  <2> QED
    BY <1>1, <2>1, <2>2, Zenon DEF SessionInv
<1>5. CASE UNCHANGED <<route, reverse>>
  BY <1>1, <1>5, ReverseIdle, Zenon DEF reverse, SessionInv
<1>6. SetupStep => UNCHANGED <<route, reverse>>
  BY Zenon DEF SetupStep, Start, Accept, FinishSetup
<1>7. UNCHANGED session => UNCHANGED <<route, reverse>>
  BY Zenon DEF session
<1> QED
  BY <1>2, <1>3, <1>4, <1>5, <1>6, <1>7, Zenon DEF SessionNext, ReverseStep

\* A session starts with nothing on its links.
LEMMA SessionStarts == SessionInit => SessionInv
<1> SUFFICES ASSUME SessionInit PROVE SessionInv
  BY Zenon
<1>1. route \in Nat \ {0} /\ route \in Relays
  <2>1. route \in Nat \ {0}
    BY SessionAssumption, CircuitAssumption, Zenon DEF SessionInit
  <2> QED
    BY <2>1 DEF Relays
<1>2. SetupInv
  <2>1. responses = {} /\ keys = [h \in Relays |-> keys[h]]
    BY Zenon DEF SessionInit
  <2>2. ASSUME NEW h \in Relays, keys[h] # NoKeys PROVE keys[h] \in accepted /\ keys[h].hop = h
    <3>1. keys[h] = KeysOf(h) /\ KeysOf(h) \in accepted
      BY <2>2, Zenon DEF SessionInit
    <3>2. KeysOf(h).hop = h
      BY Zenon DEF KeysOf, HopKeys, SetupRequest
    <3> QED
      BY <3>1, <3>2, Zenon
  <2> QED
    BY <2>1, <2>2, Zenon DEF SetupInv, SetupAgrees
<1>3. back[route] = {} /\ back = [h \in Relays |-> back[h]] /\ \A h \in Relays : back[h] = {}
  BY <1>1, Zenon DEF SessionInit
<1>4. ExitInv
  <2>1. upcoming = <<1, 1>> /\ sequence \in [Relays -> Nat]
    BY Zenon DEF SessionInit
  <2>2. 1 \in Messages => 1 \in 1..Pieces(1)
    BY PiecesType
  <2>3. upcoming \in Nat \X Nat /\ (upcoming[1] \in Messages => Fragment(upcoming))
    BY <2>1, <2>2, Zenon DEF Fragment
  <2> QED
    BY <1>3, <2>1, <2>3, Zenon DEF ExitInv
<1>5. CellsInv
  BY <1>3, Zenon DEF CellsInv
<1>6. arrived = <<>> /\ delivered = <<>> /\ DOMAIN arrived = {} /\ DOMAIN delivered = {}
  BY DEF SessionInit
<1>7. ArrivedInv
  <2>1. arrived \in Seq(Nat \X Nat)
    BY <1>6
  <2> QED
    BY <1>6, <2>1, Zenon DEF SessionInit, ArrivedInv, ReverseOnce
<1>8. Reassembled
  <2>1. ASSUME NEW m \in Messages
        PROVE  Have(m) = {} /\ Deliveries(m) = {} /\ Pieces(m) # 0
    BY <1>6, PiecesType, Zenon DEF SessionInit, Have, Deliveries
  <2>2. Slots = {} /\ \A m \in Messages : partial[m] = {}
    BY Zenon DEF SessionInit, Slots
  <2>3. Cardinality({}) = 0
    BY FS_EmptySet, Zenon
  <2>4. 0 <= MaxInflight
    BY SessionAssumption
  <2>5. Cardinality(Slots) <= MaxInflight
    BY <2>2, <2>3, <2>4, Zenon
  <2>6. ASSUME NEW m \in Messages
        PROVE  /\ Cardinality(Deliveries(m)) = IF Cardinality(Have(m)) = Pieces(m) THEN 1 ELSE 0
               /\ \A j \in Have(m) : Encoded(<<m, j>>) <= max_payload_for_hops(route)
               /\ partial[m] = IF Cardinality(Have(m)) = Pieces(m) THEN {} ELSE Have(m)
    BY <2>1, <2>2, <2>3, Zenon
  <2> QED
    BY <2>5, <2>6, Zenon DEF Reassembled, Have, Deliveries, Slots
<1>9. TakenInv
  <2>1. delivered \in Seq(Messages)
    BY <1>6
  <2> QED
    BY <1>8, <2>1, Zenon DEF SessionInit, TakenInv
<1> QED
  BY <1>1, <1>2, <1>4, <1>5, <1>7, <1>9, Zenon DEF SessionInv

LEMMA SessionInvariant == SessionSpec => []SessionInv
  BY SessionStarts, SessionStep, PTL DEF SessionSpec

\* Keys that InitiatorSetup::finish returns are keys that the relay of this hop
\* derived too, whatever requests and responses of other attempts are about.
THEOREM SetupsAlwaysAgree == SessionSpec => []SetupAgrees
<1>1. SessionInv => SetupAgrees
  BY Zenon DEF SessionInv, SetupInv
<1> QED
  BY <1>1, SessionInvariant, PTL

\* The initiator opens every fragment at most once, over any number of relays that
\* each wrap duplicates again under fresh numbers: it is the window of the exit's keys
\* that stops the second.
THEOREM ReverseAtMostOnce == SessionSpec => []ReverseOnce
<1>1. SessionInv => ReverseOnce
  BY Zenon DEF SessionInv, ArrivedInv
<1> QED
  BY <1>1, SessionInvariant, PTL

\* Reassembler::push delivers every message once, when its last fragment is taken, and
\* keeps a slot exactly while some of the fragments are missing, within its bound; the
\* layers leave room for every fragment that comes through.
THEOREM MessagesReassemble == SessionSpec => []Reassembled
<1>1. SessionInv => Reassembled
  BY Zenon DEF SessionInv, TakenInv
<1> QED
  BY <1>1, SessionInvariant, PTL

\* With setup and the reverse direction about them, the cells of the forward direction
\* behave as they do alone, so all that was shown of them holds in a session.
THEOREM SessionKeepsCircuit == SessionSpec => Spec
<1>1. SessionInit => Init
  BY Zenon DEF SessionInit
<1>2. [SessionNext]_<<vars, session>> => [Next]_vars
  <2>1. SetupStep => UNCHANGED vars
    BY Zenon DEF SetupStep, Start, Accept, FinishSetup
  <2>2. ReverseStep => UNCHANGED vars
    BY Zenon DEF ReverseStep, SealTerminal, Wrap, Receive
  <2> QED
    BY <2>1, <2>2, Zenon DEF SessionNext, Next
<1> QED
  BY <1>1, <1>2, PTL DEF SessionSpec, Spec
====
