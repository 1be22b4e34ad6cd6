-------------------------- MODULE RequesterProofs ---------------------------
(***************************************************************************)
(* Proofs about Placement and Requester, for all peers, capabilities and   *)
(* calls.                                                                  *)
(*                                                                         *)
(* The properties of the calls are not inductive: they speak of what a     *)
(* call returned.  CallsOk follows every call from its start: what it      *)
(* still waits for, which records it has and whose they are.  Calls share  *)
(* the history of what ran, which only grows, so a step of one call keeps  *)
(* the facts about the others.                                             *)
(***************************************************************************)
EXTENDS Requester, FiniteSetTheorems, TLAPS

-----------------------------------------------------------------------------
(* Weighted-fair placement *)

\* The assignments are counted for the candidates.
Counted == assignments \in [Candidates -> Nat]

\* Capacities are positive numbers.
LEMMA CapacityType ==
    ASSUME NEW p \in Candidates
    PROVE  capacity(p) \in Nat
<1> DEFINE o == Seen[p]
<1>1. o \in Attributes
  BY PlacementAssumption, Zenon
<1>2. o.cores \in Nat /\ o.cpu \in Nat /\ o.load \in 0..Unit
  BY <1>1 DEF Attributes, Unit
<1> HIDE DEF o
<1>3. o.cores * o.cpu \in Nat /\ Unit - o.load \in Nat
  BY <1>2 DEF Unit
<1>4. \A a, b \in Nat : a * b \in Nat
  OBVIOUS
<1>5. o.cores * o.cpu * (Unit - o.load) \in Nat
  BY <1>3, <1>4, Zenon
<1> QED
  BY <1>5, Zenon DEF capacity, o

\* Products grow with their factors.
LEMMA Products ==
    ASSUME NEW a \in Nat, NEW b \in Nat, NEW c \in Nat, NEW d \in Nat
    PROVE  /\ a * b \in Nat /\ (a + 1) * b \in Nat
           /\ a * b <= (a + 1) * b
           /\ a > 0 => (a - 1) * b \in Nat
  OBVIOUS

\* A placement is at the peer with the least pressure among those that are eligible,
\* or at the node itself when none is.
LEMMA PlacedFairly ==
    ASSUME Counted, WeightedFair, NEW need, NEW p \in Candidates, Place(need, p)
    PROVE  Counted' /\ WeightedFair'
<1> DEFINE remote == {q \in Peers : eligible(need, q)}
<1>1. Counted'
  BY DEF Place, Counted
<1>2. \A q \in Peers \ passed' : q \in remote /\ q \notin passed
  BY Zenon DEF Place, Candidates
<1>3. ASSUME NEW q \in Peers \ passed', q # p, p \in Peers
      PROVE  assignments[p] * capacity(q) <= assignments[q] * capacity(p)
  <2>1. q \in remote
    BY <1>2, Zenon
  <2>2. remote # {}
    BY <2>1, Zenon
  <2>3. Precedes(p, q)
    BY <1>3, <2>1, <2>2, Zenon DEF Place, place_balanced_with_local_fallback
  <2>4. assignments[p] * capacity(q) \in Nat /\ assignments[q] * capacity(p) \in Nat
    BY <1>3, CapacityType, Products, Zenon DEF Counted, Candidates
  <2> QED
    BY <2>3, <2>4 DEF Precedes
<1> HIDE DEF remote
<1>4. \A q \in Candidates : assignments'[q] = IF q = p THEN assignments[p] + 1 ELSE assignments[q]
  BY Zenon DEF Place, Counted
<1>5. ASSUME NEW x \in Peers \ passed', NEW q \in Peers \ passed', assignments'[x] > 0
      PROVE  (assignments'[x] - 1) * capacity(q) <= assignments'[q] * capacity(x)
  <2>0. /\ x \in Candidates /\ q \in Candidates /\ assignments[x] \in Nat /\ assignments[q] \in Nat
        /\ capacity(x) \in Nat /\ capacity(q) \in Nat /\ x \notin passed /\ q \notin passed
    BY <1>2, CapacityType, Zenon DEF Counted, Candidates
  <2>1. CASE x = p
    <3>1. (assignments'[x] - 1) * capacity(q) = assignments[p] * capacity(q)
      BY <2>0, <2>1, <1>4
    <3>2. CASE q = p
      BY <3>1, <3>2, <2>0, <2>1, <1>4, Products, Zenon
    <3>3. CASE q # p
      BY <3>1, <3>3, <2>0, <2>1, <1>3, <1>4, Zenon
    <3> QED
      BY <3>2, <3>3, Zenon
  <2>2. CASE x # p
    <3>1. (assignments[x] - 1) * capacity(q) <= assignments[q] * capacity(x)
      BY <2>0, <2>2, <1>4, <1>5, Zenon DEF WeightedFair
    <3>2. CASE q = p
      <4>1. assignments[q] * capacity(x) <= (assignments[q] + 1) * capacity(x)
        BY <2>0, Products, Zenon
      <4>2. /\ (assignments[x] - 1) * capacity(q) \in Nat
            /\ assignments[q] * capacity(x) \in Nat /\ (assignments[q] + 1) * capacity(x) \in Nat
        BY <2>0, <2>2, <1>4, <1>5, Products, Zenon
      <4> QED
        BY <3>1, <4>1, <4>2, <3>2, <2>0, <2>2, <1>4
    <3>3. CASE q # p
      BY <3>1, <3>3, <2>0, <2>2, <1>4, Zenon
    <3> QED
      BY <3>2, <3>3, Zenon
  <2> QED
    BY <2>1, <2>2, Zenon
<1>6. WeightedFair'
  BY <1>5, Zenon DEF WeightedFair, capacity
<1> QED
  BY <1>1, <1>6, Zenon

\* Only the scheduler counts assignments.
LEMMA StepsKeepPlacement ==
    ASSUME NEW c \in Calls, Step(c)
    PROVE  UNCHANGED placement
<1>1. CASE Start(c) \/ Collect(c) \/ StartReplication(c)
  BY <1>1, Zenon DEF Start, Collect, StartReplication, Enter
<1>2. ASSUME NEW t, Exchange(t) \/ Finish(t) \/ \E error \in Errors : Fail(t, error)
      PROVE  UNCHANGED placement
  BY <1>2, Zenon DEF Exchange, Finish, Fail
<1>3. ASSUME NEW p \in Peers, CheckReplica(c, p) \/ Copy(c, p) \/ Ask(c, p)
      PROVE  UNCHANGED placement
  BY <1>3, Zenon DEF CheckReplica, Copy, Ask, Keep, Enter
<1>4. CASE Checked(c) \/ Copied(c) \/ NoProvider(c)
  BY <1>4, Zenon DEF Checked, Copied, NoProvider, Enter
<1> QED
  BY <1>1, <1>2, <1>3, <1>4, Zenon DEF Step

\* Scheduler's "Weighted-fair peer selection", for any number of peers and any
\* capabilities that come and go.
THEOREM PlacementIsFair == Spec => []WeightedFair
<1>1. Init => Counted /\ WeightedFair
  <2> SUFFICES ASSUME Init PROVE Counted /\ WeightedFair
    BY Zenon
  <2>1. assignments = [p \in Candidates |-> 0]
    BY Zenon DEF Init, PlacementInit
  <2> QED
    BY <2>1 DEF Counted, WeightedFair, Candidates
<1>2. Counted /\ WeightedFair /\ [Next]_vars => Counted' /\ WeightedFair'
  <2> SUFFICES ASSUME Counted, WeightedFair, [Next]_vars PROVE Counted' /\ WeightedFair'
    BY Zenon
  <2>1. CASE UNCHANGED <<assignments, passed>>
    BY <2>1, Zenon DEF Counted, WeightedFair, capacity
  <2>2. CASE \E c \in Calls : Step(c)
    BY <2>1, <2>2, StepsKeepPlacement, Zenon DEF placement
  <2>3. CASE \E p \in Candidates : Lose(p)
    BY <2>1, <2>3, Zenon DEF Lose, placement
  <2>4. CASE Schedule
    BY <2>1, <2>4, PlacedFairly, Zenon DEF Schedule, Refresh
  <2>5. CASE UNCHANGED vars
    BY <2>1, <2>5, Zenon DEF vars, placement
  <2> QED
    BY <2>2, <2>3, <2>4, <2>5, Zenon DEF Next
<1> QED
  BY <1>1, <1>2, PTL DEF Spec

-----------------------------------------------------------------------------
(* The calls: one does not disturb another *)

Remote == {"best", "verified", "sharded"}

\* The record is e's own for slot i of the call, and e has run it.
Good(r, c, i) == r.output = Output(r.executor, i) /\ <<r.executor, <<c, i>>>> \in ran

IsSeq(s) == \E S : s \in Seq(S)

\* The variables are tables of the calls.
Shape ==
    /\ DOMAIN phase = Calls /\ DOMAIN policy = Calls /\ DOMAIN outcomes = Calls
    /\ DOMAIN left = Calls /\ DOMAIN results = Calls /\ DOMAIN accepted = Calls
    /\ DOMAIN live = Calls /\ DOMAIN asked = Calls
    /\ \A c \in Calls : DOMAIN outcomes[c] = 1..Shards

\* An execution under way belongs to a call that waits for it; once the peer has
\* answered the commit, its record is good.
TryOk(t, c) ==
    /\ t = [call |-> c, slot |-> t.slot, peer |-> t.peer, stage |-> t.stage, record |-> t.record]
    /\ kind[c] \in Remote /\ phase[c] = "busy"
    /\ t.slot \in 1..Shards /\ (kind[c] # "sharded" => t.slot = 1)
    /\ t.stage \in 1..3 /\ (t.stage = 3 => Good(t.record, c, t.slot))

TriesOk(c) == \A t \in tries : t.call = c => TryOk(t, c)

\* Which operation goes through which phase.
PhaseOk(c) ==
    /\ phase[c] = "busy" => kind[c] \in Remote
    /\ phase[c] = "checking" => kind[c] = "repair"
    /\ phase[c] = "copying" => kind[c] \in {"repair", "replicate"}
    /\ phase[c] = "asking" => kind[c] = "fetch"

Outputs(c) == [i \in DOMAIN results[c] |-> results[c][i].output]

\* One execution at a time.
OneTry(c) == \A t, u \in tries : t.call = c /\ u.call = c => t = u

\* execute_verified_p2p: one good record per executor, and an output that is accepted
\* is one the policy accepts for those records.
VerifiedOk(c) ==
    /\ IsSeq(results[c])
    /\ \A i \in DOMAIN results[c] : Good(results[c][i], c, 1)
    /\ \A i, j \in DOMAIN results[c] : results[c][i].executor = results[c][j].executor => i = j
    /\ phase[c] # "idle" => policy[c] \in Policies
    /\ phase[c] = "done" => accepted[c] \in Agreed(policy[c], Outputs(c))

Ended(c, i) == outcomes[c][i] \in {Failed, Lost} \/ Good(outcomes[c][i].record, c, i)

\* execute_sharded_bytes_p2p: up to the end e of the wave, every slot has ended or is
\* under way; what has been collected are good records for the slots in order.
ShardedOk(c) ==
    /\ IsSeq(results[c]) /\ Len(results[c]) <= Shards
    /\ \A i \in DOMAIN results[c] : Good(results[c][i].record, c, i)
    /\ phase[c] = "idle" => results[c] = <<>>
    /\ phase[c] = "done" => Len(results[c]) = Shards
    /\ phase[c] = "busy" =>
         \E e \in (Len(results[c]) + 1)..Shards :
            /\ e % Len(ByRank) = 0 \/ e = Shards
            /\ \A j \in 1..e : Ended(c, j) \/ \E t \in tries : t.call = c /\ t.slot = j

\* replicate_p2p and repair_replication_p2p: a copy was asked for at every peer that is
\* not still to be tried.
ReplicaOk(c) ==
    /\ live[c] \subseteq Peers /\ asked[c] \subseteq Peers
    /\ kind[c] = "replicate" =>
         /\ live[c] \subseteq asked[c]
         /\ phase[c] = "idle" => asked[c] = {}
         /\ phase[c] = "copying" =>
              left[c] \in Seq(Peers) /\ Range(left[c]) \cup asked[c] = Range(Hosts)
    /\ kind[c] \in {"repair", "replicate"} /\ phase[c] = "done" =>
         /\ Cardinality(live[c]) + 1 >= Minimum
         /\ \/ Cardinality(live[c]) + 1 >= Target
            \/ live[c] \cup asked[c] = IF kind[c] = "repair" THEN Peers ELSE Range(Hosts)

CallOk(c) ==
    /\ TriesOk(c) /\ PhaseOk(c) /\ ReplicaOk(c)
    /\ kind[c] # "sharded" => OneTry(c)
    /\ kind[c] = "verified" => VerifiedOk(c)
    /\ kind[c] = "sharded" => ShardedOk(c)

CallsOk == Shape /\ (\A t \in tries : t.call \in Calls) /\ \A c \in Calls : CallOk(c)

\* A step of c leaves the other calls alone, and only adds to what has run.
Others(c) ==
    /\ kind' = kind /\ ran \subseteq ran'
    /\ \A d \in Calls \ {c} :
         /\ phase'[d] = phase[d] /\ policy'[d] = policy[d] /\ outcomes'[d] = outcomes[d]
         /\ left'[d] = left[d] /\ results'[d] = results[d] /\ accepted'[d] = accepted[d]
         /\ live'[d] = live[d] /\ asked'[d] = asked[d]
    /\ \A t : t.call # c => (t \in tries' <=> t \in tries)

LEMMA OthersKept ==
    ASSUME CallsOk, NEW c \in Calls, Others(c), Shape', CallOk(c)'
    PROVE  CallsOk'
<1>1. \A t \in tries' : t.call \in Calls
  BY Zenon DEF CallsOk, Others
<1>2. ASSUME NEW d \in Calls, d # c
      PROVE  CallOk(d)'
  <2> DEFINE same == /\ phase'[d] = phase[d] /\ policy'[d] = policy[d] /\ outcomes'[d] = outcomes[d]
                     /\ left'[d] = left[d] /\ results'[d] = results[d] /\ accepted'[d] = accepted[d]
                     /\ live'[d] = live[d] /\ asked'[d] = asked[d] /\ kind'[d] = kind[d]
  <2>0. same /\ CallOk(d)
    BY <1>2, Zenon DEF Others, CallsOk
  <2>1. \A r, i : Good(r, d, i) => Good(r, d, i)'
    BY Zenon DEF Good, Others, Output
  <2>2. \A t : t.call = d => (t \in tries' <=> t \in tries)
    BY <1>2, Zenon DEF Others
  <2> HIDE DEF same
  <2>3. TriesOk(d)' /\ (OneTry(d) => OneTry(d)')
    BY <2>0, <2>1, <2>2, Zenon DEF CallOk, TriesOk, TryOk, OneTry, same
  <2>4. PhaseOk(d)' /\ ReplicaOk(d)'
    BY <2>0, Zenon DEF CallOk, PhaseOk, ReplicaOk, same
  <2>5. ASSUME VerifiedOk(d) PROVE VerifiedOk(d)'
    BY <2>0, <2>1, <2>5, Zenon DEF VerifiedOk, Outputs, same
  <2>6. ASSUME ShardedOk(d) PROVE ShardedOk(d)'
    <3>1. \A i : Ended(d, i) => Ended(d, i)'
      BY <2>0, <2>1, Zenon DEF Ended, same
    <3>2. /\ (IsSeq(results[d]) /\ Len(results[d]) <= Shards)'
          /\ (\A i \in DOMAIN results[d] : Good(results[d][i].record, d, i))'
          /\ (phase[d] = "idle" => results[d] = <<>>)'
          /\ (phase[d] = "done" => Len(results[d]) = Shards)'
      BY <2>0, <2>1, <2>6, Zenon DEF ShardedOk, same
    <3>3. ASSUME phase'[d] = "busy"
          PROVE  \E e \in (Len(results'[d]) + 1)..Shards :
                    /\ e % Len(ByRank) = 0 \/ e = Shards
                    /\ \A j \in 1..e : Ended(d, j)' \/ \E t \in tries' : t.call = d /\ t.slot = j
      <4>1. PICK e \in (Len(results[d]) + 1)..Shards :
                    /\ e % Len(ByRank) = 0 \/ e = Shards
                    /\ \A j \in 1..e : Ended(d, j) \/ \E t \in tries : t.call = d /\ t.slot = j
        BY <2>0, <2>6, <3>3, Zenon DEF ShardedOk, same
      <4>2. \A j \in 1..e : Ended(d, j)' \/ \E t \in tries' : t.call = d /\ t.slot = j
        BY <4>1, <3>1, <2>2, Zenon
      <4> QED
        BY <4>1, <4>2, <2>0, Zenon DEF same
    <3> QED
      BY <3>2, <3>3, Zenon DEF ShardedOk
  <2> QED
    BY <2>0, <2>3, <2>4, <2>5, <2>6, Zenon DEF CallOk, same
<1> QED
  BY <1>1, <1>2, Zenon DEF CallsOk

-----------------------------------------------------------------------------
(* Replication *)

\* The tables of a replication call are changed for c alone.
Apart(c) ==
    /\ DOMAIN left' = Calls /\ DOMAIN live' = Calls /\ DOMAIN asked' = Calls
    /\ \A d \in Calls \ {c} : left'[d] = left[d] /\ live'[d] = live[d] /\ asked'[d] = asked[d]

\* A step of a replication call, as long as it is right about the call itself.
LEMMA ReplicationStep ==
    ASSUME CallsOk, NEW c \in Calls, NEW before, NEW after, Enter(c, before, after),
           kind[c] \in {"replicate", "repair", "fetch"},
           Apart(c), PhaseOk(c)', ReplicaOk(c)'
    PROVE  CallsOk'
<1>1. Shape'
  BY Zenon DEF CallsOk, Shape, Enter, Apart
<1>2. Others(c)
  BY Zenon DEF CallsOk, Shape, Others, Enter, Apart
<1>3. \A t \in tries : t.call # c
  BY Zenon DEF CallsOk, CallOk, TriesOk, TryOk, Remote
<1>4. CallOk(c)'
  BY <1>3, Zenon DEF CallOk, TriesOk, OneTry, Enter
<1> QED
  BY <1>1, <1>2, <1>4, OthersKept, Zenon

\* What Enter does to the phase.
LEMMA Entered ==
    ASSUME CallsOk, NEW c \in Calls, NEW before, NEW after, Enter(c, before, after)
    PROVE  phase[c] = before /\ phase'[c] = after /\ kind' = kind
  BY Zenon DEF CallsOk, Shape, Enter

LEMMA StartsReplication ==
    ASSUME CallsOk, NEW c \in Calls, StartReplication(c)
    PROVE  CallsOk'
<1>0. CallOk(c) /\ Shape
  BY Zenon DEF CallsOk
<1>1. CASE /\ kind[c] = "replicate"
           /\ Enter(c, "idle", IF Self \in holds THEN "copying" ELSE "failed")
           /\ left' = [left EXCEPT ![c] = Hosts]
           /\ UNCHANGED <<holds, known, live, asked>>
  <2>1. /\ phase[c] = "idle" /\ kind' = kind
        /\ phase'[c] = IF Self \in holds THEN "copying" ELSE "failed"
    BY <1>1, Entered, Zenon
  <2>2. left'[c] = Hosts /\ Hosts \in Seq(Peers)
    BY <1>1, <1>0, RequesterAssumption, Zenon DEF Shape
  <2>3. PhaseOk(c)' /\ ReplicaOk(c)'
    BY <1>1, <1>0, <2>1, <2>2, Zenon DEF PhaseOk, ReplicaOk, CallOk
  <2>4. Apart(c)
    BY <1>1, <1>0, Zenon DEF Apart, Shape
  <2> QED
    BY <1>1, <2>3, <2>4, ReplicationStep, Zenon
<1>2. CASE /\ kind[c] = "repair"
           /\ Enter(c, "idle", "checking")
           /\ UNCHANGED <<left, holds, known, live, asked>>
  <2>1. phase[c] = "idle" /\ kind' = kind /\ phase'[c] = "checking"
    BY <1>2, Entered, Zenon
  <2>2. PhaseOk(c)' /\ ReplicaOk(c)'
    BY <1>2, <1>0, <2>1, Zenon DEF PhaseOk, ReplicaOk, CallOk
  <2>3. Apart(c)
    BY <1>2, <1>0, Zenon DEF Apart, Shape
  <2> QED
    BY <1>2, <2>2, <2>3, ReplicationStep, Zenon
<1>3. ASSUME kind[c] = "fetch", Enter(c, "idle", IF Self \in holds THEN "done" ELSE "asking"),
             NEW providers \in SUBSET Peers, asked' = [asked EXCEPT ![c] = Peers \ providers],
             UNCHANGED <<left, holds, known, live>>
      PROVE  CallsOk'
  <2>1. /\ phase[c] = "idle" /\ kind' = kind
        /\ phase'[c] = IF Self \in holds THEN "done" ELSE "asking"
    BY <1>3, Entered, Zenon
  <2>2. asked'[c] \subseteq Peers
    BY <1>3, <1>0, Zenon DEF Shape
  <2>3. PhaseOk(c)' /\ ReplicaOk(c)'
    BY <1>3, <1>0, <2>1, <2>2, Zenon DEF PhaseOk, ReplicaOk, CallOk
  <2>4. Apart(c)
    BY <1>3, <1>0, Zenon DEF Apart, Shape
  <2> QED
    BY <1>3, <2>3, <2>4, ReplicationStep, Zenon
<1> QED
  BY <1>1, <1>2, <1>3, Zenon DEF StartReplication

LEMMA Checks ==
    ASSUME CallsOk, NEW c \in Calls, NEW p \in Peers, CheckReplica(c, p)
    PROVE  CallsOk'
<1>0. CallOk(c) /\ Shape /\ phase[c] = "checking" /\ kind[c] = "repair"
  BY Zenon DEF CallsOk, CallOk, PhaseOk, CheckReplica
<1>1. phase'[c] = "checking" /\ kind' = kind
  BY <1>0, Entered, Zenon DEF CheckReplica, Keep
<1>2. asked'[c] \subseteq Peers /\ live'[c] \subseteq Peers
  BY <1>0 DEF CheckReplica, CallOk, ReplicaOk, Shape
<1>3. PhaseOk(c)' /\ ReplicaOk(c)'
  BY <1>0, <1>1, <1>2, Zenon DEF PhaseOk, ReplicaOk
<1>4. Apart(c)
  BY <1>0, Zenon DEF Apart, Shape, CheckReplica
<1> QED
  BY <1>0, <1>3, <1>4, ReplicationStep, Zenon DEF CheckReplica, Keep

LEMMA EndsChecks ==
    ASSUME CallsOk, NEW c \in Calls, Checked(c)
    PROVE  CallsOk'
<1>0. /\ CallOk(c) /\ Shape /\ phase[c] = "checking" /\ kind' = kind
      /\ phase'[c] = IF Self \in holds THEN "copying" ELSE "failed"
  BY Entered, Zenon DEF CallsOk, Checked
<1>1. kind[c] = "repair"
  BY <1>0, Zenon DEF CallOk, PhaseOk
<1>2. asked'[c] = {} /\ live'[c] \subseteq Peers
  BY <1>0, Zenon DEF Checked, CallOk, ReplicaOk, Shape
<1>3. PhaseOk(c)' /\ ReplicaOk(c)'
  BY <1>0, <1>1, <1>2, Zenon DEF PhaseOk, ReplicaOk
<1>4. Apart(c)
  BY <1>0, Zenon DEF Apart, Shape, Checked
<1> QED
  BY <1>1, <1>3, <1>4, ReplicationStep, Zenon DEF Checked

\* The first of a list, and the others.
LEMMA TailRange ==
    ASSUME NEW S, NEW s \in Seq(S), NEW p, p \in {s[i] : i \in DOMAIN s \cap {1}}
    PROVE  Tail(s) \in Seq(S) /\ p \in S /\ Range(s) = {p} \cup Range(Tail(s))
<1>1. s # <<>> /\ Len(s) \in Nat \ {0} /\ DOMAIN s = 1..Len(s) /\ p = s[1] /\ p \in S
  OBVIOUS
<1>2. /\ Tail(s) \in Seq(S) /\ DOMAIN Tail(s) = 1..(Len(s) - 1)
      /\ \A i \in 1..(Len(s) - 1) : Tail(s)[i] = s[i + 1]
  BY <1>1
<1>3. ASSUME NEW i \in DOMAIN s PROVE s[i] \in {p} \cup Range(Tail(s))
  <2>1. CASE i = 1
    BY <1>1, <2>1, Zenon
  <2>2. CASE i # 1
    <3>1. i - 1 \in 1..(Len(s) - 1) /\ Tail(s)[i - 1] = s[i]
      BY <1>1, <1>2, <2>2
    <3> QED
      BY <1>2, <3>1, Zenon DEF Range
  <2> QED
    BY <2>1, <2>2, Zenon
<1>4. ASSUME NEW i \in DOMAIN Tail(s) PROVE Tail(s)[i] \in Range(s)
  <2>1. i + 1 \in DOMAIN s /\ Tail(s)[i] = s[i + 1]
    BY <1>1, <1>2
  <2> QED
    BY <2>1, Zenon DEF Range
<1>5. p \in Range(s)
  BY <1>1, Zenon DEF Range
<1> QED
  BY <1>1, <1>2, <1>3, <1>4, <1>5 DEF Range

LEMMA Copies ==
    ASSUME CallsOk, NEW c \in Calls, NEW p \in Peers, Copy(c, p)
    PROVE  CallsOk'
<1>0. CallOk(c) /\ Shape /\ phase[c] = "copying" /\ kind[c] \in {"repair", "replicate"}
  BY Zenon DEF CallsOk, CallOk, PhaseOk, Copy
<1>1. phase'[c] = "copying" /\ kind' = kind
  BY <1>0, Entered, Zenon DEF Copy, Keep
<1>2. asked'[c] = asked[c] \cup {p} /\ live'[c] \in {live[c], live[c] \cup {p}}
  BY <1>0, Zenon DEF Copy, Shape
<1>3. ASSUME kind[c] = "replicate"
      PROVE  left'[c] \in Seq(Peers) /\ Range(left'[c]) \cup asked'[c] = Range(Hosts)
  <2>1. left[c] \in Seq(Peers) /\ Range(left[c]) \cup asked[c] = Range(Hosts)
    BY <1>0, <1>3, Zenon DEF CallOk, ReplicaOk
  <2>2. left'[c] = Tail(left[c])
    BY <1>0, <1>3, Zenon DEF Copy, Shape
  <2>3. p \in {left[c][i] : i \in DOMAIN left[c] \cap {1}}
    BY <1>3, Zenon DEF Copy, Next_peers
  <2>4. Tail(left[c]) \in Seq(Peers) /\ Range(left[c]) = {p} \cup Range(Tail(left[c]))
    BY <2>1, <2>3, TailRange, Zenon
  <2> QED
    BY <2>1, <2>2, <2>4, <1>2, Zenon
<1>4. PhaseOk(c)' /\ ReplicaOk(c)'
  BY <1>0, <1>1, <1>2, <1>3, Zenon DEF PhaseOk, ReplicaOk, CallOk
<1>5. Apart(c)
  BY <1>0, Zenon DEF Apart, Shape, Copy
<1> QED
  BY <1>0, <1>4, <1>5, ReplicationStep, Zenon DEF Copy, Keep

LEMMA EndsCopies ==
    ASSUME CallsOk, NEW c \in Calls, Copied(c)
    PROVE  CallsOk'
<1>0. /\ CallOk(c) /\ Shape /\ phase[c] = "copying" /\ kind' = kind
      /\ phase'[c] = IF Cardinality(live[c]) + 1 >= Minimum THEN "done" ELSE "failed"
      /\ left' = left /\ live' = live /\ asked' = asked
  BY Entered, Zenon DEF CallsOk, Copied
<1>1. kind[c] \in {"repair", "replicate"} /\ live[c] \subseteq Peers /\ asked[c] \subseteq Peers
  BY <1>0, Zenon DEF CallOk, PhaseOk, ReplicaOk
<1>2. Cardinality(live[c]) \in Nat
  BY <1>1, PlacementAssumption, FS_Subset, FS_CardinalityType, Zenon
<1>3. CASE ~Wanted(c)
  <2>1. Cardinality(live[c]) + 1 >= Target
    BY <1>2, <1>3, RequesterAssumption DEF Wanted
  <2> QED
    BY <1>0, <1>1, <2>1, ReplicationStep, Zenon DEF Copied, PhaseOk, ReplicaOk, CallOk, Apart, Shape
<1>4. CASE Next_peers(c) = {}
  <2>1. live[c] \cup asked[c] = IF kind[c] = "repair" THEN Peers ELSE Range(Hosts)
    <3>1. CASE kind[c] = "repair"
      BY <1>1, <1>4, <3>1, Zenon DEF Next_peers
    <3>2. CASE kind[c] = "replicate"
      <4>1. /\ live[c] \subseteq asked[c] /\ left[c] \in Seq(Peers)
            /\ Range(left[c]) \cup asked[c] = Range(Hosts)
        BY <1>0, <3>2, Zenon DEF CallOk, ReplicaOk
      <4>2. {left[c][i] : i \in DOMAIN left[c] \cap {1}} = {}
        BY <1>4, <3>2, Zenon DEF Next_peers
      <4>3. DOMAIN left[c] = 1..Len(left[c]) /\ Len(left[c]) \in Nat /\ 1 \notin DOMAIN left[c]
        BY <4>1, <4>2
      <4>4. Range(left[c]) = {}
        BY <4>3 DEF Range
      <4> QED
        BY <4>1, <4>4, <3>2, Zenon
    <3> QED
      BY <1>1, <3>1, <3>2, Zenon
  <2> QED
    BY <1>0, <1>1, <2>1, ReplicationStep, Zenon DEF Copied, PhaseOk, ReplicaOk, CallOk, Apart, Shape
<1> QED
  BY <1>3, <1>4, Zenon DEF Copied

LEMMA Fetches ==
    ASSUME CallsOk, NEW c \in Calls,
           (\E p \in Peers : Ask(c, p)) \/ NoProvider(c)
    PROVE  CallsOk'
<1>1. PICK after : Enter(c, "asking", after) /\ after \in {"done", "asking", "failed"}
  BY Zenon DEF Ask, NoProvider, Keep
<1>2. CallOk(c) /\ Shape /\ phase[c] = "asking" /\ phase'[c] = after /\ kind' = kind
  BY <1>1, Entered, Zenon DEF CallsOk
<1>3. kind[c] = "fetch"
  BY <1>2, Zenon DEF CallOk, PhaseOk
<1>4. asked'[c] \subseteq Peers /\ live' = live /\ Apart(c)
  BY <1>2 DEF CallOk, ReplicaOk, Shape, Ask, NoProvider, Apart
<1>5. PhaseOk(c)' /\ ReplicaOk(c)'
  BY <1>1, <1>2, <1>3, <1>4, Zenon DEF CallOk, PhaseOk, ReplicaOk
<1> QED
  BY <1>1, <1>3, <1>4, <1>5, ReplicationStep, Zenon

-----------------------------------------------------------------------------
(* Executions *)

\* What a step of a remote execution leaves alone.
LEMMA RemoteFrame ==
    ASSUME CallsOk, NEW c \in Calls, kind[c] \in Remote, kind' = kind, UNCHANGED <<live, asked>>,
           phase'[c] \in {"busy", "done", "failed"}
    PROVE  PhaseOk(c)' /\ ReplicaOk(c)'
  BY Zenon DEF CallsOk, CallOk, PhaseOk, ReplicaOk, Remote

\* A new execution.
LEMMA NewTry ==
    ASSUME NEW c \in Calls, NEW i \in 1..Shards, NEW p, kind[c] \in Remote, kind' = kind,
           phase'[c] = "busy", kind[c] # "sharded" => i = 1
    PROVE  /\ TryOk(Try(c, i, p), c)'
           /\ Try(c, i, p).call = c /\ Try(c, i, p).slot = i
  BY DEF TryOk, Try

\* An execution goes on, or another takes its place.
LEMMA Swapped ==
    ASSUME CallsOk, NEW c \in Calls, NEW t \in tries, t.call = c, NEW u, TryOk(u, c)',
           kind' = kind, phase'[c] = phase[c], ran \subseteq ran', tries' = (tries \ {t}) \cup {u}
    PROVE  /\ TriesOk(c)' /\ (OneTry(c) => OneTry(c)') /\ u.call = c
           /\ \A v : v.call # c => (v \in tries' <=> v \in tries)
<1>1. u.call = c
  BY DEF TryOk
<1>2. \A r, i : Good(r, c, i) => Good(r, c, i)'
  BY Zenon DEF Good, Output
<1>3. ASSUME NEW v \in tries, v.call = c PROVE TryOk(v, c)'
  <2>1. TryOk(v, c)
    BY <1>3, Zenon DEF CallsOk, CallOk, TriesOk
  <2> QED
    BY <2>1, <1>2, Zenon DEF TryOk
<1>4. TriesOk(c)'
  BY <1>3, Zenon DEF TriesOk
<1> QED
  BY <1>1, <1>4, Zenon DEF OneTry

\* There is a peer.
LEMMA SomePeer ==
    Len(ByRank) \in Nat \ {0}
<1>1. Peers # {}
  <2>1. Given[1] \in Peers
    BY RequesterAssumption
  <2> QED
    BY <2>1, Zenon
<1>2. Cardinality(Peers) \in Nat \ {0}
  BY <1>1, PlacementAssumption, FS_CardinalityType, FS_EmptySet, Zenon
<1> QED
  BY <1>2 DEF ByRank, Ordered

\* Waves are as long as the list of peers.
LEMMA NextMultiple ==
    ASSUME NEW a \in Nat, NEW n \in Nat \ {0}, a % n = 0
    PROVE  (a + n) % n = 0
<1> DEFINE x == a \div n  y == (a + n) \div n  r == (a + n) % n  z == x + 1 - y
<1>1. a = n * x + (a % n) /\ x \in Int
  OBVIOUS
<1>2. a + n = n * y + r /\ y \in Int /\ r \in 0..(n - 1)
  OBVIOUS
<1>3. a = n * x /\ r \in Int /\ 0 <= r /\ r < n
  BY <1>1, <1>2
<1> HIDE DEF x, y, r
<1>4. n * (x + 1 - y) = r
  BY <1>1, <1>2, <1>3
<1>5. n * z = r /\ z \in Int
  BY <1>1, <1>2, <1>4
<1> HIDE DEF z
<1>6. (z > 0 => n * z >= n) /\ (z < 0 => n * z < 0)
  BY <1>5
<1>7. z = 0
  BY <1>3, <1>5, <1>6
<1> QED
  BY <1>5, <1>7 DEF r

\* The wave that begins at a slot ends where the next one begins, or with the last.
LEMMA WaveEnds ==
    ASSUME NEW first \in 1..Shards, (first - 1) % Len(ByRank) = 0
    PROVE  \E e \in first..Shards :
              /\ Wave(first) = first..e
              /\ e % Len(ByRank) = 0 \/ e = Shards
<1> DEFINE n == Len(ByRank)
           e == Min({first + n - 1, Shards})
<1>1. n \in Nat \ {0} /\ Shards \in Nat
  BY SomePeer, RequesterAssumption, Zenon
<1>2. (first - 1 + n) % n = 0
  <2> HIDE DEF n
  <2>1. first - 1 \in Nat /\ (first - 1) % n = 0
    BY <1>1 DEF n
  <2> QED
    BY <2>1, <1>1, NextMultiple, Zenon
<1>3. first - 1 + n = first + n - 1
  BY <1>1
<1>4. e = IF first + n - 1 <= Shards THEN first + n - 1 ELSE Shards
  BY <1>1 DEF Min
<1>5. Wave(first) = first..e
  BY Zenon DEF Wave
<1> HIDE DEF e
<1>6. e \in first..Shards
  BY <1>1, <1>4
<1> QED
  BY <1>2, <1>3, <1>4, <1>5, <1>6, Zenon

\* The executions of a wave.
LEMMA WaveOk ==
    ASSUME CallsOk, NEW c \in Calls, kind[c] = "sharded", kind' = kind, phase'[c] = "busy",
           NEW first \in 1..Shards, (first - 1) % Len(ByRank) = 0,
           \A t \in tries : t.call # c, tries' = tries \cup WaveTries(c, first)
    PROVE  /\ TriesOk(c)' /\ \A v : v.call # c => (v \in tries' <=> v \in tries)
           /\ \E e \in first..Shards :
                 /\ e % Len(ByRank) = 0 \/ e = Shards
                 /\ \A j \in first..e : \E t \in tries' : t.call = c /\ t.slot = j
<1>1. PICK e \in first..Shards : Wave(first) = first..e /\ (e % Len(ByRank) = 0 \/ e = Shards)
  BY WaveEnds, Zenon
<1>2. Shards \in Nat
  BY RequesterAssumption, Zenon
<1>3. \A j \in first..e : j \in 1..Shards
  BY <1>1, <1>2
<1>4. ASSUME NEW j \in first..e, NEW p
      PROVE  TryOk(Try(c, j, p), c)' /\ Try(c, j, p).call = c /\ Try(c, j, p).slot = j
  BY <1>3, NewTry DEF Remote
<1>5. \A t \in WaveTries(c, first) : TryOk(t, c)' /\ t.call = c
  BY <1>1, <1>4 DEF WaveTries
<1>6. ASSUME NEW j \in first..e
      PROVE  \E t \in WaveTries(c, first) : t.call = c /\ t.slot = j
  <2>1. PICK p : p = ByRank[((j - 1) % Len(ByRank)) + 1]
    BY Zenon
  <2>2. Try(c, j, p) \in WaveTries(c, first)
    BY <1>1, <2>1, Zenon DEF WaveTries
  <2> QED
    BY <1>4, <2>2, Zenon
<1>7. TriesOk(c)'
  BY <1>5, Zenon DEF TriesOk
<1> QED
  BY <1>1, <1>5, <1>6, <1>7, Zenon

LEMMA Starts ==
    ASSUME CallsOk, NEW c \in Calls, Start(c)
    PROVE  CallsOk'
<1>0. /\ CallOk(c) /\ Shape /\ phase[c] = "idle" /\ phase'[c] = "busy" /\ kind' = kind
      /\ ran' = ran /\ results' = results /\ accepted' = accepted /\ UNCHANGED <<live, asked>>
  BY Zenon DEF CallsOk, Start, Shape, replicas
<1>1. \A t \in tries : t.call # c
  BY <1>0, Zenon DEF CallOk, TriesOk, TryOk
<1>2. kind[c] \in Remote
  BY Zenon DEF Start, StartBest, StartVerified, StartSharded, Remote
<1>3. PhaseOk(c)' /\ ReplicaOk(c)'
  BY <1>0, <1>2, RemoteFrame, Zenon
<1>4. Shape' /\ \A d \in Calls \ {c} : policy'[d] = policy[d]
  BY <1>0, Zenon DEF Start, StartBest, StartVerified, StartSharded, Shape
<1>5. 1 \in 1..Shards
  BY RequesterAssumption
<1>6. CASE kind[c] # "sharded"
  <2>1. PICK p : tries' = tries \cup {Try(c, 1, p)}
    BY <1>6, Zenon DEF Start, StartBest, StartVerified, StartSharded
  <2>2. TryOk(Try(c, 1, p), c)' /\ Try(c, 1, p).call = c
    BY <1>0, <1>2, <1>5, NewTry, Zenon
  <2>3. TriesOk(c)' /\ OneTry(c)'
    BY <1>1, <2>1, <2>2, Zenon DEF TriesOk, OneTry
  <2>4. Others(c)
    BY <1>0, <1>4, <1>6, <2>1, <2>2, Zenon DEF Others, Start, StartBest, StartVerified,
       StartSharded, Shape
  <2>5. ASSUME kind[c] = "verified" PROVE VerifiedOk(c)'
    <3>1. VerifiedOk(c) /\ policy'[c] \in Policies
      BY <1>0, <2>5, Zenon DEF CallOk, Start, StartBest, StartVerified, StartSharded, Shape
    <3> QED
      BY <1>0, <3>1, Zenon DEF VerifiedOk, Good, Outputs
  <2>6. CallOk(c)'
    BY <1>0, <1>3, <1>6, <2>3, <2>5, Zenon DEF CallOk
  <2> QED
    BY <1>4, <2>4, <2>6, OthersKept, Zenon
<1>7. CASE kind[c] = "sharded"
  <2>1. tries' = tries \cup WaveTries(c, 1) /\ UNCHANGED <<policy, left, outcomes>>
    BY <1>7, Zenon DEF Start, StartBest, StartVerified, StartSharded
  <2>2. (1 - 1) % Len(ByRank) = 0
    BY SomePeer
  <2>3. /\ TriesOk(c)' /\ \A v : v.call # c => (v \in tries' <=> v \in tries)
        /\ \E e \in 1..Shards :
                 /\ e % Len(ByRank) = 0 \/ e = Shards
                 /\ \A j \in 1..e : \E t \in tries' : t.call = c /\ t.slot = j
    BY <1>0, <1>1, <1>5, <1>7, <2>1, <2>2, WaveOk, Zenon
  <2>4. ShardedOk(c) /\ results'[c] = <<>> /\ Len(results'[c]) = 0
    BY <1>0, <1>7, Zenon DEF CallOk, ShardedOk
  <2>5. ShardedOk(c)'
    <3>1. /\ IsSeq(results'[c]) /\ Len(results'[c]) <= Shards
          /\ (\A i \in DOMAIN results[c] : Good(results[c][i].record, c, i))'
      BY <1>0, <2>4, RequesterAssumption, Zenon DEF ShardedOk, Good
    <3>2. \E e \in (Len(results'[c]) + 1)..Shards :
             /\ e % Len(ByRank) = 0 \/ e = Shards
             /\ \A j \in 1..e : Ended(c, j)' \/ \E t \in tries' : t.call = c /\ t.slot = j
      BY <2>3, <2>4
    <3>3. (phase[c] = "idle" => results[c] = <<>>)' /\ (phase[c] = "done" => Len(results[c]) = Shards)'
      BY <1>0, <2>4, Zenon
    <3> QED
      BY <3>1, <3>2, <3>3, Zenon DEF ShardedOk
  <2>6. Others(c)
    BY <1>0, <1>4, <2>1, <2>3, Zenon DEF Others, Start, Shape
  <2>7. CallOk(c)'
    BY <1>0, <1>3, <1>7, <2>3, <2>5, Zenon DEF CallOk
  <2> QED
    BY <1>4, <2>6, <2>7, OthersKept, Zenon
<1> QED
  BY <1>6, <1>7, Zenon

LEMMA StageNames ==
    Len(Stages) = 3 /\ Stages[1] = "offer" /\ Stages[2] = "commit" /\ Stages[3] = "output"
  BY Zenon DEF Stages

\* The next stage of an execution.
LEMMA Changed ==
    ASSUME NEW c, NEW t, NEW r,
           t = [call |-> c, slot |-> t.slot, peer |-> t.peer, stage |-> t.stage, record |-> t.record]
    PROVE  /\ [t EXCEPT !.stage = @ + 1]
                = [call |-> c, slot |-> t.slot, peer |-> t.peer, stage |-> t.stage + 1, record |-> t.record]
           /\ [t EXCEPT !.stage = @ + 1, !.record = r]
                = [call |-> c, slot |-> t.slot, peer |-> t.peer, stage |-> t.stage + 1, record |-> r]
<1>1. ASSUME NEW w, w = [t EXCEPT !.stage = @ + 1, !.record = r]
      PROVE  w = [call |-> c, slot |-> t.slot, peer |-> t.peer, stage |-> t.stage + 1, record |-> r]
  <2>1. w \in [call : {c}, slot : {t.slot}, peer : {t.peer}, stage : {t.stage + 1}, record : {r}]
    <3>1. PICK b, d, g, h : t.slot = b /\ t.peer = d /\ t.stage = g /\ t.record = h
      BY Zenon
    <3>2. t = [call |-> c, slot |-> b, peer |-> d, stage |-> g, record |-> h]
      BY <3>1, Zenon
    <3>3. w \in [call : {c}, slot : {b}, peer : {d}, stage : {g + 1}, record : {r}]
      BY ONLY <1>1, <3>2, Zenon
    <3> QED
      BY <3>1, <3>3, Zenon
  <2> QED
    BY ONLY <2>1, Zenon
<1>2. ASSUME NEW w, w = [t EXCEPT !.stage = @ + 1]
      PROVE  w = [call |-> c, slot |-> t.slot, peer |-> t.peer, stage |-> t.stage + 1, record |-> t.record]
  <2>1. w \in [call : {c}, slot : {t.slot}, peer : {t.peer}, stage : {t.stage + 1}, record : {t.record}]
    BY <1>2
  <2> QED
    BY ONLY <2>1, Zenon
<1> QED
  BY <1>1, <1>2, Zenon

LEMMA Exchanges ==
    ASSUME CallsOk, NEW c \in Calls, NEW t \in tries, t.call = c, Exchange(t)
    PROVE  CallsOk'
<1>0. /\ CallOk(c) /\ Shape /\ TryOk(t, c)
      /\ UNCHANGED <<kind, phase, policy, outcomes, left, results, accepted, live, asked>>
  BY Zenon DEF CallsOk, CallOk, TriesOk, Exchange, call, replicas
<1> DEFINE Next_try(r) == [call |-> c, slot |-> t.slot, peer |-> t.peer, stage |-> t.stage + 1, record |-> r]
<1>1. \A r : [t EXCEPT !.stage = @ + 1, !.record = r] = Next_try(r)
  BY <1>0, Changed, Zenon DEF TryOk
<1>2. [t EXCEPT !.stage = @ + 1] = Next_try(t.record)
  BY <1>0, Changed, Zenon DEF TryOk
<1>3. t.stage \in 1..2 /\ (Stages[t.stage] = "commit" <=> t.stage = 2)
  <2>1. t.stage \in 1..2
    <3>1. t.stage \in 1..3 /\ t.stage < Len(Stages)
      BY <1>0, Zenon DEF TryOk, Exchange
    <3> QED
      BY <3>1, StageNames
  <2>2. t.stage = 1 \/ t.stage = 2
    BY <2>1
  <2> QED
    BY <2>2, StageNames
<1>4. PICK r : /\ tries' = (tries \ {t}) \cup {Next_try(r)} /\ ran \subseteq ran'
               /\ t.stage = 2 => Good(r, c, t.slot)'
  <2>1. CASE t.stage = 2
    <3>1. PICK e : /\ ran' = ran \cup {<<e, <<c, t.slot>>>>}
                   /\ tries' = (tries \ {t}) \cup {[t EXCEPT !.stage = @ + 1, !.record = Record(e, t.slot)]}
      BY <1>3, <2>1, Zenon DEF Exchange
    <3>2. Good(Record(e, t.slot), c, t.slot)'
      BY <3>1, Zenon DEF Good, Record
    <3> QED
      BY <1>1, <3>1, <3>2, Zenon
  <2>2. CASE t.stage # 2
    <3>1. tries' = (tries \ {t}) \cup {[t EXCEPT !.stage = @ + 1]} /\ ran' = ran
      BY <1>3, <2>2, Zenon DEF Exchange
    <3> QED
      BY <1>2, <3>1, <2>2, Zenon
  <2> QED
    BY <2>1, <2>2, Zenon
<1>5. PICK u : u = Next_try(r)
  BY Zenon
<1>6. u.slot = t.slot /\ TryOk(u, c)'
  BY <1>0, <1>3, <1>4, <1>5 DEF TryOk
<1>7. /\ TriesOk(c)' /\ (OneTry(c) => OneTry(c)') /\ u.call = c
      /\ \A v : v.call # c => (v \in tries' <=> v \in tries)
  BY <1>0, <1>4, <1>5, <1>6, Swapped, Zenon
<1>8. Others(c) /\ Shape'
  BY <1>0, <1>4, <1>7, Zenon DEF Others, Shape
<1>9. \A q, i : Good(q, c, i) => Good(q, c, i)'
  BY <1>4, Zenon DEF Good, Output
<1>10. VerifiedOk(c) => VerifiedOk(c)'
  BY <1>0, <1>9, Zenon DEF VerifiedOk, Outputs
<1>11. ShardedOk(c) => ShardedOk(c)'
  <2>1. \A i : Ended(c, i) => Ended(c, i)'
    BY <1>0, <1>9, Zenon DEF Ended
  <2>2. \A j : (\E v \in tries : v.call = c /\ v.slot = j) => \E v \in tries' : v.call = c /\ v.slot = j
    BY <1>4, <1>5, <1>6, <1>7, Zenon
  <2> QED
    BY <1>0, <1>9, <2>1, <2>2, Zenon DEF ShardedOk
<1>12. PhaseOk(c)' /\ ReplicaOk(c)'
  BY <1>0, Zenon DEF CallOk, PhaseOk, ReplicaOk
<1>13. CallOk(c)'
  BY <1>0, <1>7, <1>10, <1>11, <1>12, Zenon DEF CallOk
<1> QED
  BY <1>8, <1>13, OthersKept, Zenon

\* The call returns: nothing of it is under way.
LEMMA Stops ==
    ASSUME CallsOk, NEW c \in Calls, NEW t \in tries, t.call = c, kind[c] # "sharded",
           NEW outcome, Stop(c, t, outcome)
    PROVE  /\ TriesOk(c)' /\ OneTry(c)' /\ phase'[c] = outcome
           /\ \A v : v.call # c => (v \in tries' <=> v \in tries)
           /\ DOMAIN phase' = Calls /\ DOMAIN left' = Calls
           /\ \A d \in Calls \ {c} : phase'[d] = phase[d] /\ left'[d] = left[d]
<1>1. OneTry(c) /\ Shape
  BY Zenon DEF CallsOk, CallOk
<1>2. \A v \in tries' : v.call # c
  BY <1>1, Zenon DEF OneTry, Stop
<1>3. TriesOk(c)' /\ OneTry(c)'
  BY <1>2, Zenon DEF TriesOk, OneTry
<1> QED
  BY <1>1, <1>3, Zenon DEF Stop, Shape

\* The next peer is tried.
LEMMA Proceeds ==
    ASSUME CallsOk, NEW c \in Calls, NEW t \in tries, t.call = c, kind' = kind, ran \subseteq ran',
           NEW rest, tries' = (tries \ {t}) \cup {Try(c, t.slot, Head(rest))},
           left' = [left EXCEPT ![c] = Tail(rest)], UNCHANGED phase
    PROVE  /\ TriesOk(c)' /\ (OneTry(c) => OneTry(c)') /\ phase'[c] = "busy"
           /\ \A v : v.call # c => (v \in tries' <=> v \in tries)
           /\ DOMAIN phase' = Calls /\ DOMAIN left' = Calls
           /\ \A d \in Calls \ {c} : phase'[d] = phase[d] /\ left'[d] = left[d]
<1>1. TryOk(t, c) /\ Shape
  BY Zenon DEF CallsOk, CallOk, TriesOk
<1>2. kind[c] \in Remote /\ phase'[c] = "busy" /\ t.slot \in 1..Shards /\ (kind[c] # "sharded" => t.slot = 1)
  BY <1>1, Zenon DEF TryOk
<1>3. PICK u : u = Try(c, t.slot, Head(rest))
  BY Zenon
<1>4. PICK i \in 1..Shards : i = t.slot
  BY <1>2, Zenon
<1>5. PICK p : p = Head(rest)
  BY Zenon
<1>6. TryOk(u, c)'
  <2>1. TryOk(Try(c, i, p), c)'
    BY <1>2, <1>4, NewTry, Zenon
  <2> QED
    BY <2>1, <1>3, <1>4, <1>5, Zenon
<1>7. /\ TriesOk(c)' /\ (OneTry(c) => OneTry(c)')
      /\ \A v : v.call # c => (v \in tries' <=> v \in tries)
  BY <1>3, <1>6, Swapped, Zenon
<1> QED
  BY <1>1, <1>2, <1>7, Zenon DEF Shape

\* The end of an execution, as long as the records of the call stay good.
LEMMA EndFrame ==
    ASSUME CallsOk, NEW c \in Calls, kind[c] \in Remote, kind' = kind, policy' = policy,
           ran \subseteq ran', UNCHANGED <<live, asked>>,
           TriesOk(c)', kind[c] # "sharded" => OneTry(c)', phase'[c] \in {"busy", "done", "failed"},
           \A v : v.call # c => (v \in tries' <=> v \in tries),
           DOMAIN phase' = Calls, DOMAIN left' = Calls,
           DOMAIN results' = Calls, DOMAIN accepted' = Calls, DOMAIN outcomes' = Calls,
           DOMAIN outcomes'[c] = 1..Shards,
           \A d \in Calls \ {c} : phase'[d] = phase[d] /\ left'[d] = left[d],
           \A d \in Calls \ {c} : /\ results'[d] = results[d] /\ accepted'[d] = accepted[d]
                                  /\ outcomes'[d] = outcomes[d],
           kind[c] = "verified" => VerifiedOk(c)', kind[c] = "sharded" => ShardedOk(c)'
    PROVE  CallsOk'
<1>1. Shape'
  BY Zenon DEF CallsOk, Shape
<1>2. Others(c)
  BY Zenon DEF Others
<1>3. PhaseOk(c)' /\ ReplicaOk(c)'
  BY RemoteFrame, Zenon
<1>4. CallOk(c)'
  BY <1>3, Zenon DEF CallOk
<1> QED
  BY <1>1, <1>2, <1>4, OthersKept, Zenon

LEMMA EndsBest ==
    ASSUME CallsOk, NEW c \in Calls, NEW t \in tries, t.call = c, kind' = kind, policy' = policy,
           ran \subseteq ran', UNCHANGED <<live, asked>>,
           NEW record, NEW error, EndBest(c, t, record, error)
    PROVE  CallsOk'
<1>0. Shape /\ CallOk(c) /\ kind[c] = "best" /\ OneTry(c) /\ outcomes' = outcomes
  BY Zenon DEF CallsOk, CallOk, EndBest
<1>1. DOMAIN results' = Calls /\ accepted' = accepted /\ \A d \in Calls \ {c} : results'[d] = results[d]
  BY <1>0, Zenon DEF EndBest, Proceed, Shape
<1>2. /\ TriesOk(c)' /\ OneTry(c)' /\ phase'[c] \in {"busy", "done", "failed"}
      /\ \A v : v.call # c => (v \in tries' <=> v \in tries)
      /\ DOMAIN phase' = Calls /\ DOMAIN left' = Calls
      /\ \A d \in Calls \ {c} : phase'[d] = phase[d] /\ left'[d] = left[d]
  <2>1. CASE Stop(c, t, "done") \/ Stop(c, t, "failed")
    BY <1>0, <2>1, Stops, Zenon
  <2>2. ASSUME NEW rest, tries' = (tries \ {t}) \cup {Try(c, t.slot, Head(rest))},
               left' = [left EXCEPT ![c] = Tail(rest)], UNCHANGED phase
        PROVE  <1>2!:
    BY <1>0, <2>2, Proceeds, Zenon
  <2> QED
    BY <2>1, <2>2, Zenon DEF EndBest, Proceed
<1> QED
  BY <1>0, <1>1, <1>2, EndFrame, Zenon DEF Shape, Remote

\* One record per executor: the list stays one of good records of different executors.
LEMMA DistinctOk ==
    ASSUME NEW c, NEW list, IsSeq(list), NEW record, Good(record, c, 1),
           \A i \in DOMAIN list : Good(list[i], c, 1),
           \A i, j \in DOMAIN list : list[i].executor = list[j].executor => i = j,
           NEW new, new = Distinct(list, record)
    PROVE  /\ IsSeq(new) /\ \A i \in DOMAIN new : Good(new[i], c, 1)
           /\ \A i, j \in DOMAIN new : new[i].executor = new[j].executor => i = j
<1>1. CASE \E i \in DOMAIN list : list[i].executor = record.executor
  BY <1>1, Zenon DEF Distinct
<1>2. CASE ~ \E i \in DOMAIN list : list[i].executor = record.executor
  <2>1. PICK S : list \in Seq(S)
    BY Zenon DEF IsSeq
  <2>2. new = Append(list, record)
    BY <1>2, Zenon DEF Distinct
  <2>3. list \in Seq(S \cup {record}) /\ record \in S \cup {record}
    BY <2>1
  <2>4. new \in Seq(S \cup {record}) /\ Len(list) \in Nat /\ DOMAIN list = 1..Len(list)
    BY <2>2, <2>3
  <2>5. /\ DOMAIN new = 1..(Len(list) + 1) /\ new[Len(list) + 1] = record
        /\ \A i \in 1..Len(list) : new[i] = list[i]
    BY <2>2, <2>3, <2>4
  <2>6. \A i \in DOMAIN new : i \in DOMAIN list \/ i = Len(list) + 1
    BY <2>4, <2>5
  <2>7. \A i \in DOMAIN new : Good(new[i], c, 1)
    BY <2>4, <2>5, <2>6, Zenon
  <2>8. \A i, j \in DOMAIN new : new[i].executor = new[j].executor => i = j
    BY <1>2, <2>4, <2>5, <2>6
  <2> QED
    BY <2>4, <2>7, <2>8, Zenon DEF IsSeq
<1> QED
  BY <1>1, <1>2, Zenon

LEMMA EndsVerified ==
    ASSUME CallsOk, NEW c \in Calls, NEW t \in tries, t.call = c, kind' = kind, policy' = policy,
           ran \subseteq ran', UNCHANGED <<live, asked>>,
           NEW record, NEW error, error = None => Good(record, c, t.slot),
           EndVerified(c, t, record, error)
    PROVE  CallsOk'
<1> DEFINE list == IF error = None THEN Distinct(results[c], record) ELSE results[c]
<1>0. /\ Shape /\ CallOk(c) /\ kind[c] = "verified" /\ OneTry(c) /\ VerifiedOk(c) /\ outcomes' = outcomes
      /\ TryOk(t, c) /\ phase[c] = "busy" /\ t.slot = 1
  BY Zenon DEF CallsOk, CallOk, TriesOk, TryOk, EndVerified
<1>1. results'[c] = list /\ DOMAIN results' = Calls /\ \A d \in Calls \ {c} : results'[d] = results[d]
  BY <1>0, Zenon DEF EndVerified, Shape
<1>2. PICK l : l = list
  BY Zenon
<1>3. /\ IsSeq(l) /\ \A i \in DOMAIN l : Good(l[i], c, 1)
      /\ \A i, j \in DOMAIN l : l[i].executor = l[j].executor => i = j
  BY <1>0, <1>2, DistinctOk DEF VerifiedOk
<1>4. \A q, i : Good(q, c, i) => Good(q, c, i)'
  BY Zenon DEF Good, Output
<1>5. \/ /\ Stop(c, t, "failed") /\ UNCHANGED accepted
      \/ \E o \in Agreed(policy[c], [i \in DOMAIN l |-> l[i].output]) :
           Stop(c, t, "done") /\ accepted' = [accepted EXCEPT ![c] = o]
      \/ \E rest : /\ tries' = (tries \ {t}) \cup {Try(c, t.slot, Head(rest))}
                   /\ left' = [left EXCEPT ![c] = Tail(rest)]
                   /\ UNCHANGED <<phase, accepted>>
  <2>1. PICK rest : Proceed(c, t, rest, Decide(c, t, l))
    BY <1>2, Zenon DEF EndVerified
  <2> QED
    BY <2>1, Zenon DEF Proceed, Decide
<1>6. /\ TriesOk(c)' /\ OneTry(c)' /\ phase'[c] \in {"busy", "done", "failed"}
      /\ \A v : v.call # c => (v \in tries' <=> v \in tries)
      /\ DOMAIN phase' = Calls /\ DOMAIN left' = Calls
      /\ \A d \in Calls \ {c} : phase'[d] = phase[d] /\ left'[d] = left[d]
  <2>1. CASE Stop(c, t, "done") \/ Stop(c, t, "failed")
    BY <1>0, <2>1, Stops, Zenon
  <2>2. ASSUME NEW rest, tries' = (tries \ {t}) \cup {Try(c, t.slot, Head(rest))},
               left' = [left EXCEPT ![c] = Tail(rest)], UNCHANGED phase
        PROVE  <1>6!:
    BY <1>0, <2>2, Proceeds, Zenon
  <2> QED
    BY <1>5, <2>1, <2>2, Zenon
<1>7. DOMAIN accepted' = Calls /\ \A d \in Calls \ {c} : accepted'[d] = accepted[d]
  BY <1>0, <1>5, Zenon DEF Shape
<1>8. phase'[c] = "done" => accepted'[c] \in Agreed(policy[c], [i \in DOMAIN l |-> l[i].output])
  BY <1>0, <1>5, Stops DEF Shape
<1>9. VerifiedOk(c)'
  <2>1. results'[c] = l /\ policy'[c] = policy[c] /\ policy[c] \in Policies
    BY <1>0, <1>1, <1>2, Zenon DEF VerifiedOk
  <2>2. IsSeq(results[c])' /\ (\A i \in DOMAIN results[c] : Good(results[c][i], c, 1))'
    BY <1>3, <1>4, <2>1, Zenon
  <2>3. (\A i, j \in DOMAIN results[c] : results[c][i].executor = results[c][j].executor => i = j)'
    BY <1>3, <2>1, Zenon
  <2>4. (phase[c] = "done" => accepted[c] \in Agreed(policy[c], Outputs(c)))'
    BY <1>8, <2>1, Zenon DEF Outputs
  <2> QED
    BY <2>1, <2>2, <2>3, <2>4, Zenon DEF VerifiedOk
<1> QED
  BY <1>0, <1>1, <1>6, <1>7, <1>9, EndFrame, Zenon DEF Shape, Remote

\* The slots up to the end of the wave, after a step.
LEMMA WaveKept ==
    ASSUME NEW c \in Calls, ShardedOk(c), phase[c] = "busy", results' = results, phase'[c] = "busy",
           \A r, i : Good(r, c, i) => Good(r, c, i)',
           \A j \in 1..Shards :
              \/ Ended(c, j)
              \/ \E t \in tries : t.call = c /\ t.slot = j
              => \/ Ended(c, j)'
                 \/ \E t \in tries' : t.call = c /\ t.slot = j
    PROVE  ShardedOk(c)'
<1>1. PICK e \in (Len(results[c]) + 1)..Shards :
         /\ e % Len(ByRank) = 0 \/ e = Shards
         /\ \A j \in 1..e : Ended(c, j) \/ \E t \in tries : t.call = c /\ t.slot = j
  BY Zenon DEF ShardedOk
<1>2. Len(results[c]) \in Nat /\ Shards \in Nat
  BY RequesterAssumption DEF ShardedOk, IsSeq
<1>3. \A j \in 1..e : j \in 1..Shards
  BY <1>1, <1>2
<1>4. \A j \in 1..e : Ended(c, j)' \/ \E t \in tries' : t.call = c /\ t.slot = j
  BY <1>1, <1>3, Zenon
<1>5. /\ (IsSeq(results[c]) /\ Len(results[c]) <= Shards)'
      /\ (\A i \in DOMAIN results[c] : Good(results[c][i].record, c, i))'
  BY Zenon DEF ShardedOk
<1> QED
  BY <1>1, <1>4, <1>5, Zenon DEF ShardedOk

LEMMA EndsSharded ==
    ASSUME CallsOk, NEW c \in Calls, NEW t \in tries, t.call = c, kind' = kind, policy' = policy,
           ran \subseteq ran', UNCHANGED <<live, asked>>,
           NEW record, NEW error, error = None => Good(record, c, t.slot),
           EndSharded(c, t, record, error)
    PROVE  CallsOk'
<1>0. /\ Shape /\ CallOk(c) /\ kind[c] = "sharded" /\ ShardedOk(c) /\ results' = results
      /\ TriesOk(c) /\ TryOk(t, c) /\ phase[c] = "busy" /\ t.slot \in 1..Shards
  BY Zenon DEF CallsOk, CallOk, TriesOk, TryOk, EndSharded
<1>1. \A q, i : Good(q, c, i) => Good(q, c, i)'
  BY Zenon DEF Good, Output
<1>2. CASE /\ left[c] # <<>> /\ outcomes' = outcomes
           /\ Proceed(c, t, left[c], FALSE)
  <2>1. /\ tries' = (tries \ {t}) \cup {Try(c, t.slot, Head(left[c]))}
        /\ left' = [left EXCEPT ![c] = Tail(left[c])] /\ phase' = phase /\ accepted' = accepted
    BY <1>2, Zenon DEF Proceed
  <2>2. /\ TriesOk(c)' /\ phase'[c] = "busy" /\ \A v : v.call # c => (v \in tries' <=> v \in tries)
        /\ DOMAIN phase' = Calls /\ DOMAIN left' = Calls
        /\ \A d \in Calls \ {c} : phase'[d] = phase[d] /\ left'[d] = left[d]
    BY <2>1, Proceeds, Zenon
  <2>3. \A j : Ended(c, j) => Ended(c, j)'
    BY <1>1, <1>2, Zenon DEF Ended
  <2>4. \A j : (\E v \in tries : v.call = c /\ v.slot = j) => \E v \in tries' : v.call = c /\ v.slot = j
    <3>1. PICK u : u = Try(c, t.slot, Head(left[c]))
      BY Zenon
    <3>2. u.call = c /\ u.slot = t.slot
      BY <3>1, Zenon DEF Try
    <3> QED
      BY <2>1, <3>1, <3>2, Zenon
  <2>5. ShardedOk(c)'
    BY <1>0, <1>1, <2>2, <2>3, <2>4, WaveKept, Zenon
  <2> QED
    BY <1>0, <1>2, <2>1, <2>2, <2>5, EndFrame, Zenon DEF Shape, Remote
<1>3. ASSUME NEW v, v \in {Failed, Lost} \/ Good(v.record, c, t.slot),
             outcomes' = [outcomes EXCEPT ![c][t.slot] = v],
             tries' = tries \ {t}, UNCHANGED <<phase, left, accepted>>
      PROVE  CallsOk'
  <2>1. TriesOk(c)' /\ \A u : u.call # c => (u \in tries' <=> u \in tries)
    <3>1. ASSUME NEW u \in tries, u.call = c PROVE TryOk(u, c)'
      <4>1. TryOk(u, c)
        BY <1>0, <3>1, Zenon DEF TriesOk
      <4> QED
        BY <1>1, <1>3, <4>1, Zenon DEF TryOk
    <3> QED
      BY <1>3, <3>1, Zenon DEF TriesOk
  <2>2. /\ DOMAIN outcomes' = Calls /\ \A d \in Calls \ {c} : outcomes'[d] = outcomes[d]
        /\ outcomes'[c] = [outcomes[c] EXCEPT ![t.slot] = v]
    BY <1>0, <1>3, Zenon DEF Shape
  <2>3. /\ DOMAIN outcomes'[c] = 1..Shards /\ outcomes'[c][t.slot] = v
        /\ \A j \in (1..Shards) \ {t.slot} : outcomes'[c][j] = outcomes[c][j]
    BY <1>0, <2>2, Zenon DEF Shape
  <2>4. Ended(c, t.slot)'
    <3>1. PICK i : i = t.slot
      BY Zenon
    <3>2. Ended(c, i)'
      BY <1>1, <1>3, <2>3, <3>1, Zenon DEF Ended
    <3> QED
      BY <3>1, <3>2, Zenon
  <2>5. \A j \in (1..Shards) \ {t.slot} : Ended(c, j) => Ended(c, j)'
    BY <1>1, <2>3, Zenon DEF Ended
  <2>6. ASSUME NEW j \in 1..Shards, Ended(c, j) \/ \E u \in tries : u.call = c /\ u.slot = j
        PROVE  Ended(c, j)' \/ \E u \in tries' : u.call = c /\ u.slot = j
    <3>1. CASE j = t.slot
      BY <2>4, <3>1, Zenon
    <3>2. CASE j # t.slot
      BY <1>3, <2>5, <2>6, <3>2, Zenon
    <3> QED
      BY <3>1, <3>2, Zenon
  <2>7. ShardedOk(c)'
    BY <1>0, <1>1, <1>3, <2>6, WaveKept, Zenon
  <2> QED
    BY <1>0, <1>3, <2>1, <2>2, <2>3, <2>7, EndFrame, Zenon DEF Shape, Remote
<1>4. CASE error # None /\ left[c] # <<>> /\ outcomes[c][t.slot] = Failed
  BY <1>2, <1>4, Zenon DEF EndSharded
<1>5. CASE ~(error # None /\ left[c] # <<>> /\ outcomes[c][t.slot] = Failed)
  <2>1. /\ tries' = tries \ {t} /\ UNCHANGED <<phase, left, accepted>>
        /\ outcomes' = [outcomes EXCEPT ![c][t.slot] =
                          IF error = None THEN [peer |-> t.peer, record |-> record]
                          ELSE IF @ = Failed THEN Lost ELSE Failed]
    BY <1>5, Zenon DEF EndSharded, Slot
  <2>2. PICK v : v = IF error = None THEN [peer |-> t.peer, record |-> record]
                     ELSE IF outcomes[c][t.slot] = Failed THEN Lost ELSE Failed
    BY Zenon
  <2>3. v \in {Failed, Lost} \/ Good(v.record, c, t.slot)
    BY <2>2, Zenon
  <2>4. outcomes' = [outcomes EXCEPT ![c][t.slot] = v]
    BY <2>1, <2>2, Zenon
  <2> QED
    BY <1>3, <2>1, <2>3, <2>4, Zenon
<1> QED
  BY <1>4, <1>5, Zenon

\* The next result.
LEMMA Appended ==
    ASSUME NEW c, NEW list, IsSeq(list), NEW v, Good(v.record, c, Len(list) + 1),
           \A i \in DOMAIN list : Good(list[i].record, c, i)
    PROVE  /\ IsSeq(Append(list, v)) /\ Len(Append(list, v)) = Len(list) + 1 /\ Len(list) \in Nat
           /\ \A i \in DOMAIN Append(list, v) : Good(Append(list, v)[i].record, c, i)
<1>1. PICK S : list \in Seq(S)
  BY Zenon DEF IsSeq
<1>2. PICK new : new = Append(list, v)
  BY Zenon
<1>3. list \in Seq(S \cup {v}) /\ v \in S \cup {v}
  BY <1>1
<1>4. new \in Seq(S \cup {v}) /\ Len(list) \in Nat /\ DOMAIN list = 1..Len(list) /\ Len(new) = Len(list) + 1
  BY <1>2, <1>3
<1>5. /\ DOMAIN new = 1..(Len(list) + 1) /\ new[Len(list) + 1] = v
      /\ \A i \in 1..Len(list) : new[i] = list[i]
  BY <1>2, <1>3, <1>4
<1>6. ASSUME NEW i \in DOMAIN new PROVE Good(new[i].record, c, i)
  <2>1. CASE i = Len(list) + 1
    BY <1>5, <2>1, Zenon
  <2>2. CASE i # Len(list) + 1
    BY <1>4, <1>5, <2>2
  <2> QED
    BY <2>1, <2>2, Zenon
<1> QED
  BY <1>2, <1>4, <1>6, Zenon DEF IsSeq

LEMMA Collects ==
    ASSUME CallsOk, NEW c \in Calls, Collect(c)
    PROVE  CallsOk'
<1> DEFINE i == Len(results[c]) + 1
           n == Len(ByRank)
<1>0. /\ Shape /\ CallOk(c) /\ kind[c] = "sharded" /\ ShardedOk(c) /\ phase[c] = "busy"
      /\ \A t \in tries : t.call # c
      /\ UNCHANGED <<kind, policy, outcomes, accepted, ran, live, asked>>
  BY Zenon DEF CallsOk, CallOk, Collect, replicas
<1>1. \A q, k : Good(q, c, k) => Good(q, c, k)'
  BY <1>0, Zenon DEF Good, Output
<1>2. PICK e \in i..Shards :
         /\ e % n = 0 \/ e = Shards
         /\ \A j \in 1..e : Ended(c, j)
  BY <1>0, Zenon DEF ShardedOk
<1>3. Len(results[c]) \in Nat /\ Shards \in Nat /\ n \in Nat \ {0} /\ i \in 1..Shards
  BY <1>0, <1>2, RequesterAssumption, SomePeer DEF ShardedOk, IsSeq
<1> HIDE DEF n, i
<1>4. Ended(c, i) /\ \A j \in 1..e : Ended(c, j)'
  BY <1>0, <1>1, <1>2, <1>3 DEF Ended
<1>5. CASE phase' = [phase EXCEPT ![c] = "failed"] /\ UNCHANGED <<tries, left, results>>
  <2>1. phase'[c] = "failed" /\ DOMAIN phase' = Calls /\ \A d \in Calls \ {c} : phase'[d] = phase[d]
    BY <1>0, <1>5, Zenon DEF Shape
  <2>2. TriesOk(c)'
    BY <1>0, <1>5, Zenon DEF TriesOk
  <2>3. ShardedOk(c)'
    BY <1>0, <1>1, <1>5, <2>1, Zenon DEF ShardedOk
  <2> QED
    BY <1>0, <1>5, <2>1, <2>2, <2>3, EndFrame, Zenon DEF Shape, Remote
<1>6. ASSUME NEW p, NEW rest, tries' = tries \cup {Try(c, i, p)},
             left' = [left EXCEPT ![c] = rest], UNCHANGED <<phase, results>>
      PROVE  CallsOk'
  <2>1. PICK u : u = Try(c, i, p) /\ TryOk(u, c)' /\ u.call = c
    <3>1. PICK k \in 1..Shards : k = i
      BY <1>3, Zenon
    <3>2. TryOk(Try(c, k, p), c)' /\ Try(c, k, p).call = c
      BY <1>0, <1>6, NewTry DEF Remote
    <3>3. PICK u : u = Try(c, k, p)
      BY Zenon
    <3>4. TryOk(u, c)'
      BY <3>2, <3>3, Zenon
    <3> QED
      BY <3>1, <3>2, <3>3, <3>4, Zenon
  <2>2. TriesOk(c)' /\ \A v : v.call # c => (v \in tries' <=> v \in tries)
    BY <1>0, <1>6, <2>1, Zenon DEF TriesOk
  <2>3. /\ DOMAIN left' = Calls /\ \A d \in Calls \ {c} : left'[d] = left[d]
    BY <1>0, <1>6, Zenon DEF Shape
  <2>4. ShardedOk(c)'
    <3>1. \A j \in 1..Shards : Ended(c, j) => Ended(c, j)'
      BY <1>0, <1>1, Zenon DEF Ended
    <3> QED
      BY <1>0, <1>1, <1>6, <3>1, WaveKept, Zenon
  <2> QED
    BY <1>0, <1>6, <2>2, <2>3, <2>4, EndFrame, Zenon DEF Shape, Remote
<1>7. ASSUME outcomes[c][i] # Failed, outcomes[c][i] # Lost,
             results' = [results EXCEPT ![c] = Append(@, outcomes[c][i])],
             left' = [left EXCEPT ![c] = <<>>],
             tries' = IF i % n = 0 /\ i < Shards THEN tries \cup WaveTries(c, i + 1) ELSE tries,
             phase' = IF i = Shards THEN [phase EXCEPT ![c] = "done"] ELSE phase
      PROVE  CallsOk'
  <2>1. Good(outcomes[c][i].record, c, i)
    BY <1>4, <1>7, Zenon DEF Ended
  <2>2. /\ results'[c] = Append(results[c], outcomes[c][i]) /\ DOMAIN results' = Calls
        /\ \A d \in Calls \ {c} : results'[d] = results[d]
    BY <1>0, <1>7, Zenon DEF Shape
  <2>3. PICK new : new = Append(results[c], outcomes[c][i])
    BY Zenon
  <2>4. IsSeq(new) /\ Len(new) = i /\ \A j \in DOMAIN new : Good(new[j].record, c, j)
    <3>1. /\ IsSeq(results[c]) /\ i = Len(results[c]) + 1
          /\ \A j \in DOMAIN results[c] : Good(results[c][j].record, c, j)
      BY <1>0, Zenon DEF ShardedOk, i
    <3> QED
      BY <2>1, <2>3, <3>1, Appended, Zenon
  <2>5. /\ phase'[c] = (IF i = Shards THEN "done" ELSE "busy") /\ DOMAIN phase' = Calls
        /\ DOMAIN left' = Calls /\ \A d \in Calls \ {c} : phase'[d] = phase[d] /\ left'[d] = left[d]
    BY <1>0, <1>7, Zenon DEF Shape
  <2>6. /\ (IsSeq(results[c]) /\ Len(results[c]) <= Shards)'
        /\ (\A j \in DOMAIN results[c] : Good(results[c][j].record, c, j))'
        /\ Len(results'[c]) = i
    BY <1>1, <1>3, <2>2, <2>3, <2>4
  <2>7. CASE i = Shards
    <3>1. tries' = tries
      BY <1>3, <1>7, <2>7
    <3>2. TriesOk(c)'
      BY <1>0, <3>1, Zenon DEF TriesOk
    <3>3. ShardedOk(c)'
      BY <2>5, <2>6, <2>7, Zenon DEF ShardedOk
    <3> QED
      BY <1>0, <2>2, <2>5, <2>7, <3>1, <3>2, <3>3, EndFrame, Zenon DEF Shape, Remote
  <2>8. CASE i # Shards /\ i % n = 0
    <3>1. tries' = tries \cup WaveTries(c, i + 1) /\ i + 1 \in 1..Shards /\ i + 1 - 1 = i /\ phase'[c] = "busy"
      BY <1>3, <1>7, <2>5, <2>8
    <3>2. PICK first \in 1..Shards : first = i + 1 /\ (first - 1) % Len(ByRank) = 0
      <4>1. PICK first \in 1..Shards : first = i + 1
        BY <3>1, Zenon
      <4>2. first - 1 = i
        BY <1>3, <4>1
      <4> QED
        BY <2>8, <4>1, <4>2, Zenon DEF n
    <3>3. /\ TriesOk(c)' /\ \A v : v.call # c => (v \in tries' <=> v \in tries)
          /\ \E f \in first..Shards :
                 /\ f % Len(ByRank) = 0 \/ f = Shards
                 /\ \A j \in first..f : \E t \in tries' : t.call = c /\ t.slot = j
      BY <1>0, <3>1, <3>2, WaveOk, Zenon
    <3>4. PICK f \in first..Shards :
                 /\ f % Len(ByRank) = 0 \/ f = Shards
                 /\ \A j \in first..f : \E t \in tries' : t.call = c /\ t.slot = j
      BY <3>3, Zenon
    <3>5. \A j \in 1..f : j \in 1..e \/ j \in first..f
      BY <1>2, <1>3, <3>2, <3>4
    <3>6. \A j \in 1..f : Ended(c, j)' \/ \E t \in tries' : t.call = c /\ t.slot = j
      BY <1>4, <3>4, <3>5, Zenon
    <3>7. ShardedOk(c)'
      BY <2>6, <3>1, <3>2, <3>4, <3>6, Zenon DEF ShardedOk
    <3> QED
      BY <1>0, <2>2, <2>5, <3>1, <3>3, <3>7, EndFrame, Zenon DEF Shape, Remote
  <2>9. CASE i # Shards /\ i % n # 0
    <3>1. tries' = tries /\ phase'[c] = "busy" /\ phase' = phase
      BY <1>7, <2>5, <2>9, Zenon
    <3>2. TriesOk(c)'
      BY <1>0, <3>1, Zenon DEF TriesOk
    <3>3. e \in (i + 1)..Shards
      BY <1>2, <1>3, <2>9
    <3>4. ShardedOk(c)'
      BY <1>2, <1>4, <2>6, <3>1, <3>3, Zenon DEF ShardedOk, n
    <3> QED
      BY <1>0, <2>2, <2>5, <3>1, <3>2, <3>4, EndFrame, Zenon DEF Shape, Remote
  <2> QED
    BY <2>7, <2>8, <2>9, Zenon
<1> QED
  BY <1>5, <1>6, <1>7, Zenon DEF Collect, i, n

-----------------------------------------------------------------------------
(* The theorems about the calls *)

LEMMA InitCalls == Init => CallsOk
<1> SUFFICES ASSUME Init PROVE CallsOk
  BY Zenon
<1>1. Shape /\ tries = {}
  BY Zenon DEF Init, Shape
<1>2. ASSUME NEW c \in Calls PROVE CallOk(c)
  <2>1. phase[c] = "idle" /\ results[c] = <<>> /\ live[c] = {} /\ asked[c] = {}
    BY Zenon DEF Init
  <2>2. IsSeq(<<>>) /\ Len(<<>>) = 0 /\ DOMAIN <<>> = {}
    <3>1. <<>> \in Seq({})
      OBVIOUS
    <3> QED
      BY <3>1 DEF IsSeq
  <2>3. ShardedOk(c) /\ VerifiedOk(c)
    BY <2>1, <2>2, RequesterAssumption DEF ShardedOk, VerifiedOk
  <2> QED
    BY <1>1, <2>1, <2>3, Zenon DEF CallOk, TriesOk, PhaseOk, ReplicaOk, OneTry
<1> QED
  BY <1>1, <1>2, Zenon DEF CallsOk

LEMMA Finishes ==
    ASSUME CallsOk, NEW c \in Calls, NEW t \in tries, t.call = c,
           Finish(t) \/ \E error \in Errors : Fail(t, error)
    PROVE  CallsOk'
<1>1. kind' = kind /\ policy' = policy /\ ran \subseteq ran' /\ UNCHANGED <<live, asked>>
  BY Zenon DEF Finish, Fail, replicas
<1>2. TryOk(t, c)
  BY Zenon DEF CallsOk, CallOk, TriesOk
<1>3. PICK record, error : End(c, t, record, error) /\ (error = None => Good(record, c, t.slot))
  <2>1. CASE Finish(t)
    <3>1. t.stage \in {1, 2, 3}
      BY <1>2 DEF TryOk
    <3>2. t.stage = 3
      BY <2>1, <3>1, StageNames, Zenon DEF Finish
    <3> QED
      BY <1>2, <2>1, <3>2, Zenon DEF Finish, TryOk
  <2>2. ASSUME NEW error \in Errors, Fail(t, error)
        PROVE  End(c, t, None, error) /\ error # None
    BY <2>2, RequesterAssumption, Zenon DEF Fail
  <2> QED
    BY <2>1, <2>2, Zenon
<1> QED
  BY <1>1, <1>3, EndsBest, EndsVerified, EndsSharded, Zenon DEF End

LEMMA StepsKeepCalls == CallsOk /\ [Next]_vars => CallsOk'
<1> SUFFICES ASSUME CallsOk, [Next]_vars PROVE CallsOk'
  BY Zenon
<1>1. CASE UNCHANGED <<call, tries, ran, live, asked>>
  <2>1. /\ kind' = kind /\ phase' = phase /\ policy' = policy /\ outcomes' = outcomes /\ left' = left
        /\ results' = results /\ accepted' = accepted /\ tries' = tries /\ ran' = ran
        /\ live' = live /\ asked' = asked
    BY <1>1, Zenon DEF call
  <2>2. ASSUME NEW c \in Calls PROVE CallOk(c)'
    <3>1. CallOk(c)
      BY Zenon DEF CallsOk
    <3>2. /\ TriesOk(c)' <=> TriesOk(c)
          /\ OneTry(c)' <=> OneTry(c)
          /\ PhaseOk(c)' <=> PhaseOk(c)
      BY <2>1, Zenon DEF TriesOk, TryOk, OneTry, PhaseOk, Good, Output
    <3>3. ReplicaOk(c)' <=> ReplicaOk(c)
      BY <2>1, Zenon DEF ReplicaOk
    <3>4. VerifiedOk(c)' <=> VerifiedOk(c)
      BY <2>1, Zenon DEF VerifiedOk, Good, Output, Outputs
    <3>5. ShardedOk(c)' <=> ShardedOk(c)
      BY <2>1 DEF ShardedOk, Ended, Good, Output
    <3> QED
      BY <2>1, <3>1, <3>2, <3>3, <3>4, <3>5, Zenon DEF CallOk
  <2> QED
    BY <2>1, <2>2, Zenon DEF CallsOk, Shape
<1>2. ASSUME NEW c \in Calls, Step(c) PROVE CallsOk'
  <2>1. CASE Start(c) \/ StartReplication(c) \/ Collect(c)
    BY <2>1, Starts, StartsReplication, Collects, Zenon
  <2>2. ASSUME NEW t \in tries, t.call = c,
               Exchange(t) \/ Finish(t) \/ \E error \in Errors : Fail(t, error)
        PROVE  CallsOk'
    BY <2>2, Exchanges, Finishes, Zenon
  <2>3. ASSUME NEW p \in Peers, CheckReplica(c, p) \/ Copy(c, p) \/ Ask(c, p)
        PROVE  CallsOk'
    BY <2>3, Checks, Copies, Fetches, Zenon
  <2>4. CASE Checked(c) \/ Copied(c) \/ NoProvider(c)
    BY <2>4, EndsChecks, EndsCopies, Fetches, Zenon
  <2> QED
    BY <1>2, <2>1, <2>2, <2>3, <2>4, Zenon DEF Step
<1>3. CASE (\E p \in Candidates : Lose(p)) \/ Schedule
  BY <1>1, <1>3, Zenon DEF Lose, Schedule, replicas
<1>4. CASE UNCHANGED vars
  BY <1>1, <1>4, Zenon DEF vars, replicas
<1> QED
  BY <1>2, <1>3, <1>4, Zenon DEF Next

LEMMA CallsStayOk == Spec => []CallsOk
  BY InitCalls, StepsKeepCalls, PTL DEF Spec

\* The executors that gave an output, in a list of records.
Backing(R, o) == {R[i].executor : i \in {j \in DOMAIN R : R[j].output = o}}

\* Executors that give the same output are counted once each.
LEMMA Backed ==
    ASSUME NEW R, IsSeq(R), NEW o, NEW I, I \subseteq DOMAIN R, \A i \in I : R[i].output = o,
           \A i, j \in DOMAIN R : R[i].executor = R[j].executor => i = j
    PROVE  /\ IsFiniteSet(Backing(R, o)) /\ Cardinality(Backing(R, o)) \in Nat
           /\ IsFiniteSet(I) /\ Cardinality(I) \in Nat
           /\ Cardinality(Backing(R, o)) >= Cardinality(I)
<1> DEFINE J == {j \in DOMAIN R : R[j].output = o}
           backing == {R[i].executor : i \in J}
           f == [j \in J |-> R[j].executor]
<1>1. IsFiniteSet(DOMAIN R)
  <2>1. DOMAIN R = 1..Len(R) /\ 1 \in Int /\ Len(R) \in Int
    BY DEF IsSeq
  <2> QED
    BY <2>1, FS_Interval
<1>2. IsFiniteSet(J) /\ Cardinality(J) \in Nat
  BY <1>1, FS_Subset, FS_CardinalityType, Zenon
<1>3. IsFiniteSet(I) /\ Cardinality(I) \in Nat /\ Cardinality(I) <= Cardinality(J)
  <2>1. I \in SUBSET J
    BY Zenon
  <2> QED
    BY <1>2, <2>1, FS_Subset, FS_CardinalityType, Zenon
<1>4. ExistsBijection(J, backing)
  <2>1. f \in [J -> backing]
    BY Zenon
  <2>2. \A a, b \in J : f[a] = f[b] => a = b
    BY Zenon
  <2>3. \A p \in backing : \E j \in J : f[j] = p
    BY Zenon
  <2> HIDE DEF J, f, backing
  <2>4. f \in Bijection(J, backing)
    <3>1. f \in Injection(J, backing)
      BY <2>1, <2>2, Zenon DEF Injection, IsInjective
    <3>2. f \in Surjection(J, backing)
      BY <2>1, <2>3, Zenon DEF Surjection
    <3> QED
      BY <3>1, <3>2, Zenon DEF Bijection
  <2> QED
    BY <2>4, Zenon DEF ExistsBijection
<1> HIDE DEF J, f, backing
<1>5. IsFiniteSet(backing) /\ Cardinality(backing) = Cardinality(J)
  BY <1>2, <1>4, FS_Bijection, Zenon
<1> QED
  BY <1>2, <1>3, <1>5, Zenon DEF J, backing, Backing

\* As many positions as the policy asks for hold an output that it accepts.
LEMMA Matching ==
    ASSUME NEW q \in Policies, NEW outs, IsSeq(outs), NEW o \in Agreed(q, outs)
    PROVE  /\ Matches(q) \in Nat \ {0}
           /\ \E I \in SUBSET DOMAIN outs : (\A i \in I : outs[i] = o) /\ Cardinality(I) >= Matches(q)
<1> DEFINE m == Required(q)
           first == SubSeq(outs, 1, m)
<1>1. q.kind \in {"trust", "replicate", "quorum"} /\ q.executions \in Nat /\ q.matches \in Nat
  BY RequesterAssumption, Zenon
<1>2. m \in Nat \ {0} /\ m <= Len(outs) /\ Len(outs) \in Nat /\ DOMAIN outs = 1..Len(outs)
  BY <1>1 DEF Agreed, Required, IsSeq
<1>3. DOMAIN first = 1..m /\ \A i \in 1..m : first[i] = outs[i]
  BY <1>2 DEF IsSeq
<1>4. CASE q.kind = "trust"
  <2>1. o = outs[1] /\ m = 1 /\ Matches(q) = 1
    BY <1>2, <1>4, Zenon DEF Agreed, Required, Matches
  <2>2. {1} \in SUBSET DOMAIN outs /\ Cardinality({1}) = 1
    <3>1. 1 \in DOMAIN outs
      BY <1>2
    <3>2. Cardinality({1}) = 1
      BY FS_Singleton, Zenon
    <3> QED
      BY <3>1, <3>2, Zenon
  <2> QED
    BY <2>1, <2>2
<1>5. CASE q.kind = "replicate"
  <2>1. Matches(q) = m /\ o = first[1] /\ \A i \in DOMAIN first : first[i] = first[1]
    BY <1>2, <1>5, Zenon DEF Agreed, Matches
  <2>2. 1..m \in SUBSET DOMAIN outs /\ Cardinality(1..m) = m
    <3>1. \A i \in 1..m : i \in DOMAIN outs
      BY <1>2
    <3>2. Cardinality(1..m) = m
      <4> HIDE DEF m
      <4>1. 1 \in Int /\ m \in Int /\ ~(1 > m) /\ m - 1 + 1 = m
        BY <1>2
      <4> QED
        BY <4>1, FS_Interval, Zenon
    <3> QED
      BY <3>1, <3>2, Zenon
  <2>3. 1 \in 1..m /\ m >= m
    BY <1>2
  <2>4. \A i \in 1..m : outs[i] = o
    BY <1>3, <2>1, <2>3, Zenon
  <2> QED
    BY <1>2, <2>1, <2>2, <2>3, <2>4, Zenon
<1>6. CASE q.kind = "quorum"
  <2>1. Matches(q) = q.matches /\ q.matches # 0 /\ Count(first, o) >= q.matches
    BY <1>2, <1>6, Zenon DEF Agreed, Matches
  <2>2. {i \in DOMAIN first : first[i] = o} \in SUBSET DOMAIN outs
    BY <1>2, <1>3
  <2> QED
    BY <1>1, <1>3, <2>1, <2>2, Zenon DEF Count
<1> QED
  BY <1>1, <1>4, <1>5, <1>6, Zenon

\* Fewer faulty peers than executors that agree: one of them is not faulty.
LEMMA SomeHonest ==
    ASSUME NEW S, IsFiniteSet(S), Cardinality(Faulty) < Cardinality(S)
    PROVE  \E p \in S : p \notin Faulty
<1>1. IsFiniteSet(Faulty) /\ Cardinality(Faulty) \in Nat /\ Cardinality(S) \in Nat
  BY RequesterAssumption, PlacementAssumption, FS_Subset, FS_CardinalityType, Zenon
<1>2. S \subseteq Faulty => Cardinality(S) <= Cardinality(Faulty)
  BY <1>1, FS_Subset, Zenon
<1> QED
  BY <1>1, <1>2

\* execute_verified_p2p returns only what enough different executors have computed,
\* for every policy, every list of peers and every set of faulty ones.
THEOREM VerifiedOutputs == Spec => []VerifiedSound
<1>1. CallsOk => VerifiedSound
  <2> SUFFICES ASSUME CallsOk, NEW c \in Calls, kind[c] = "verified", phase[c] = "done"
               PROVE  LET backing == {results[c][i].executor :
                            i \in {j \in DOMAIN results[c] : results[c][j].output = accepted[c]}} IN
                      /\ Cardinality(backing) >= Matches(policy[c])
                      /\ \A p \in backing : <<p, <<c, 1>>>> \in ran
                      /\ Cardinality(Faulty) < Matches(policy[c]) => accepted[c] = <<1, "right">>
    BY Zenon DEF VerifiedSound
  <2> DEFINE R == results[c]
             backing == {R[i].executor : i \in {j \in DOMAIN R : R[j].output = accepted[c]}}
  <2>1. VerifiedOk(c) /\ policy[c] \in Policies /\ accepted[c] \in Agreed(policy[c], Outputs(c))
    BY Zenon DEF CallsOk, CallOk, VerifiedOk
  <2>2. IsSeq(R) /\ DOMAIN Outputs(c) = DOMAIN R /\ \A i \in DOMAIN R : Outputs(c)[i] = R[i].output
    BY <2>1, Zenon DEF VerifiedOk, Outputs
  <2>3. IsSeq(Outputs(c))
    <3>1. DOMAIN R = 1..Len(R) /\ Len(R) \in Nat
      BY <2>2 DEF IsSeq
    <3>2. Outputs(c) \in Seq({R[i].output : i \in DOMAIN R})
      BY <3>1 DEF Outputs
    <3> QED
      BY <3>2, Zenon DEF IsSeq
  <2>4. /\ Matches(policy[c]) \in Nat \ {0}
        /\ \E I \in SUBSET DOMAIN Outputs(c) :
              (\A i \in I : Outputs(c)[i] = accepted[c]) /\ Cardinality(I) >= Matches(policy[c])
    BY <2>1, <2>3, Matching, Zenon
  <2>5. PICK I \in SUBSET DOMAIN R :
              (\A i \in I : R[i].output = accepted[c]) /\ Cardinality(I) >= Matches(policy[c])
    BY <2>2, <2>4, Zenon
  <2>6. /\ IsFiniteSet(backing) /\ Cardinality(backing) \in Nat
        /\ Cardinality(I) \in Nat /\ Cardinality(backing) >= Cardinality(I)
    <3>1. \A i, j \in DOMAIN R : R[i].executor = R[j].executor => i = j
      BY <2>1, Zenon DEF VerifiedOk
    <3>2. backing = Backing(R, accepted[c])
      BY Zenon DEF Backing
    <3> HIDE DEF R, backing
    <3> QED
      BY <2>2, <2>5, <3>1, <3>2, Backed
  <2>7. Cardinality(backing) >= Matches(policy[c])
    BY <2>4, <2>5, <2>6
  <2>8. \A p \in backing : <<p, <<c, 1>>>> \in ran /\ accepted[c] = Output(p, 1)
    BY <2>1, Zenon DEF VerifiedOk, Good
  <2>9. ASSUME Cardinality(Faulty) < Matches(policy[c])
        PROVE  accepted[c] = <<1, "right">>
    <3>1. Cardinality(Faulty) \in Nat
      BY RequesterAssumption, PlacementAssumption, FS_Subset, FS_CardinalityType, Zenon
    <3>2. Cardinality(Faulty) < Cardinality(backing)
      BY <2>4, <2>6, <2>7, <2>9, <3>1
    <3>3. PICK p \in backing : p \notin Faulty
      <4> HIDE DEF backing
      <4> QED
        BY <2>6, <3>2, SomeHonest, Zenon
    <3> QED
      BY <2>8, <3>3, Zenon DEF Output
  <2> QED
    BY <2>7, <2>8, <2>9, Zenon
<1> QED
  BY <1>1, CallsStayOk, PTL

\* execute_sharded_bytes_p2p returns the outputs of all shards, in order, for any
\* number of shards and peers.
THEOREM ShardsAreInOrder == Spec => []ShardsInOrder
<1>1. CallsOk => ShardsInOrder
  BY Zenon DEF CallsOk, CallOk, ShardedOk, Good, ShardsInOrder
<1> QED
  BY <1>1, CallsStayOk, PTL

\* A replication or a repair that succeeded has acknowledged copies enough, and misses
\* the target only after it has asked every peer it may ask.
THEOREM RepairsRestore == Spec => []RepairRestores
<1>1. CallsOk => RepairRestores
  BY Zenon DEF CallsOk, CallOk, ReplicaOk, RepairRestores
<1> QED
  BY <1>1, CallsStayOk, PTL
=============================================================================
