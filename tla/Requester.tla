----------------------------- MODULE Requester ------------------------------
(***************************************************************************)
(* The requesting side of a node: execute_best, execute_verified_p2p,      *)
(* execute_sharded_bytes_p2p over peers that fail, answer late or compute  *)
(* something else; replicate_p2p, repair_replication_p2p and fetch_p2p.    *)
(*                                                                         *)
(* A remote execution transfers component and input, offers, commits and   *)
(* gets the output.  Any exchange may fail, the commit also after the peer *)
(* has run the task; up to the offer nothing has run, and the exchanges    *)
(* are one stage.  What the end of an execution changes (reputation,       *)
(* placement count, the caller's own variables) is disjoint or read only   *)
(* when another call starts, so the end is one step.                       *)
(***************************************************************************)
EXTENDS Placement

CONSTANTS Calls,         \* calling threads
          Scenarios,     \* which operation each of them calls
          Policies,      \* verification policies
          Given,         \* the peers handed to execute_verified_p2p, in order
          Hosts,         \* the peers handed to replicate_p2p, in order, each once
          Shards,        \* number of shards of the input
          Faulty,        \* peers that compute something else or pass on others' records
          Minimum, Target,   \* ReplicationPolicy
          MaxLosses,     \* bound: replicas lost
          None, Failed, Lost   \* no value; failed at first; failed everywhere

Kinds == {"none", "best", "verified", "sharded", "replicate", "repair", "fetch"}
Stages == <<"offer", "commit", "output">>
Errors == {"network", "rejected", "invalid"}

ASSUME RequesterAssumption ==
    /\ Scenarios \subseteq [Calls -> Kinds]
    /\ Policies \subseteq [kind : {"trust", "replicate", "quorum"}, executions : Nat, matches : Nat]
    /\ Given \in Seq(Peers) /\ Given # <<>>
    /\ Hosts \in Seq(Peers) /\ \A i, j \in DOMAIN Hosts : Hosts[i] = Hosts[j] => i = j
    /\ Shards \in Nat \ {0} /\ Faulty \subseteq Peers
    /\ Minimum \in Nat \ {0} /\ Target \in Nat /\ Target >= Minimum   \* validate
    /\ None \notin Errors

VARIABLES
    kind, phase,  \* per call
    policy,       \* verification policy, per call
    tries,        \* remote executions under way
    outcomes,     \* outcomes[c][i]: how the execution of slot i ended
    left,         \* left[c]: peers still to be tried, in order
    results,      \* results[c]: accepted records so far
    accepted,     \* accepted[c]: output of execute_verified_p2p
    ran,          \* <<peer, task>> executed
    counts,       \* placement_counts
    reputation,   \* the table of metadata
    holds,        \* nodes that store the content
    known,        \* known_replicas of the caller
    live, asked,  \* per replication call: acknowledged, asked so far
    losses

book == <<counts, reputation>>
replicas == <<holds, known, live, asked, losses>>
call == <<kind, phase, policy, outcomes, left, results, accepted>>
vars == <<placement, call, tries, ran, book, replicas>>

\* The peers in an order: the i-th is the one that has i - 1 before it.
Ordered(Before(_, _)) ==
    [i \in 1..Cardinality(Peers) |->
       CHOOSE p \in Peers : Cardinality({q \in Peers : Before(q, p)}) = i - 1]

\* Fewest assignments first, then the smaller PeerId.
ordered_remote_executors ==
    Ordered(LAMBDA p, q : \/ counts[p] < counts[q]
                          \/ counts[p] = counts[q] /\ Rank[p] < Rank[q])

ByRank == Ordered(LAMBDA p, q : Rank[p] < Rank[q])

Try(c, slot, p) == [call |-> c, slot |-> slot, peer |-> p, stage |-> 1, record |-> None]

\* What p computes for a slot, and the record it answers a commit with.
Output(p, slot) == <<slot, IF p \in Faulty THEN "other" ELSE "right">>
Record(p, slot) == [executor |-> p, output |-> Output(p, slot)]

-----------------------------------------------------------------------------
(* Starting a call *)

StartBest(c) ==
    /\ kind[c] = "best"
    /\ tries' = tries \cup {Try(c, 1, ordered_remote_executors[1])}
    /\ left' = [left EXCEPT ![c] = Tail(ordered_remote_executors)]
    /\ UNCHANGED <<policy, outcomes>>

StartVerified(c) ==
    /\ kind[c] = "verified"
    /\ \E q \in Policies : policy' = [policy EXCEPT ![c] = q] /\ Required(q) > 0
    /\ tries' = tries \cup {Try(c, 1, Given[1])}
    /\ left' = [left EXCEPT ![c] = Tail(Given)]
    /\ UNCHANGED outcomes

\* The slots of the wave that begins at `first'.
Wave(first) == first..Min({first + Len(ByRank) - 1, Shards})

WaveTries(c, first) ==
    {Try(c, i, ByRank[((i - 1) % Len(ByRank)) + 1]) : i \in Wave(first)}

StartSharded(c) ==
    /\ kind[c] = "sharded"
    /\ tries' = tries \cup WaveTries(c, 1)
    /\ UNCHANGED <<policy, left, outcomes>>

Start(c) ==
    /\ phase[c] = "idle"
    /\ phase' = [phase EXCEPT ![c] = "busy"]
    /\ StartBest(c) \/ StartVerified(c) \/ StartSharded(c)
    /\ UNCHANGED <<placement, kind, results, accepted, ran, book, replicas>>

-----------------------------------------------------------------------------
(* Remote execution *)

\* remote_execute_bytes_via: the next exchange is answered as it should be.  Only a
\* record for this task, component and input is taken; a faulty peer may pass on
\* the record of another executor.
Exchange(t) ==
    LET task == <<t.call, t.slot>>
        others == IF t.peer \in Faulty THEN {p \in Candidates : <<p, task>> \in ran} ELSE {}
    IN
    /\ t.stage < Len(Stages)
    /\ IF Stages[t.stage] = "commit"
         THEN \E e \in {t.peer} \cup others :
                /\ ran' = ran \cup {<<e, task>>}
                /\ tries' = (tries \ {t}) \cup
                     {[t EXCEPT !.stage = @ + 1, !.record = Record(e, t.slot)]}
         ELSE /\ tries' = (tries \ {t}) \cup {[t EXCEPT !.stage = @ + 1]}
              /\ ran' = ran
    /\ UNCHANGED <<placement, call, book, replicas>>

\* record_success and record_failure.  A request that ran out of time says "timed
\* out" or "Timeout", which counts as a failure; a peer's reason may say anything.
Judged(p, column) ==
    reputation' = IF p \in Peers THEN [reputation EXCEPT ![p][column] = @ + 1] ELSE reputation

Columns(error) ==
    CASE error = "network" -> {"failure"}
      [] error = "rejected" -> {"failure", "invalid", "timeout"}
      [] error = "invalid" -> {"invalid"}

\* The next peer of the list, or what the caller does when there is none.
Proceed(c, t, rest, last) ==
    IF rest # <<>>
      THEN /\ tries' = (tries \ {t}) \cup {Try(c, t.slot, Head(rest))}
           /\ left' = [left EXCEPT ![c] = Tail(rest)]
           /\ UNCHANGED <<phase, accepted>>
      ELSE last

\* The call returns.
Stop(c, t, outcome) ==
    /\ tries' = tries \ {t}
    /\ phase' = [phase EXCEPT ![c] = outcome]
    /\ left' = [left EXCEPT ![c] = <<>>]

\* execute_best: the first success is the result; without one, the node itself.
EndBest(c, t, record, error) ==
    /\ kind[c] = "best"
    /\ \E column \in IF error = None THEN {"success"} ELSE Columns(error) : Judged(t.peer, column)
    /\ IF error = None
         THEN /\ results' = [results EXCEPT ![c] = <<record>>]
              /\ counts' = IF t.peer \in Peers THEN [counts EXCEPT ![t.peer] = @ + 1] ELSE counts
              /\ Stop(c, t, "done") /\ UNCHANGED accepted
         ELSE /\ UNCHANGED <<results, counts>>
              /\ Proceed(c, t, IF left[c] = <<>> /\ t.peer # Self THEN <<Self>> ELSE left[c],
                         Stop(c, t, "failed") /\ UNCHANGED accepted)
    /\ UNCHANGED outcomes

\* Variant: an executor's second record counts as another execution.
DistinctAny(list, record) == Append(list, record)

\* One record per executor.
Distinct(list, record) ==
    IF \E i \in DOMAIN list : list[i].executor = record.executor THEN list
    ELSE Append(list, record)

Decide(c, t, list) ==
    LET agreed == Agreed(policy[c], [i \in DOMAIN list |-> list[i].output]) IN
    IF agreed = {} THEN Stop(c, t, "failed") /\ UNCHANGED accepted
    ELSE \E o \in agreed : Stop(c, t, "done") /\ accepted' = [accepted EXCEPT ![c] = o]

\* execute_verified_p2p: go on until enough executors have answered.
EndVerified(c, t, record, error) ==
    LET list == IF error = None THEN Distinct(results[c], record) ELSE results[c]
        rest == IF Len(list) >= Required(policy[c]) THEN <<>> ELSE left[c]
    IN
    /\ kind[c] = "verified"
    /\ \E column \in IF error = None THEN {"success"} ELSE Columns(error) : Judged(t.peer, column)
    /\ results' = [results EXCEPT ![c] = list]
    /\ Proceed(c, t, rest, Decide(c, t, list))
    /\ UNCHANGED <<outcomes, counts>>

\* Variant: outcomes in the order in which the threads finish.
SlotFinished(c, t) ==
    IF outcomes[c][t.slot] = Failed THEN t.slot
    ELSE Min({i \in 1..Shards : outcomes[c][i] = None})

\* The place of an outcome among the results of the wave.
Slot(c, t) == t.slot

\* execute_sharded_bytes_p2p: the thread of a slot ends, or a retry of the slot
\* being collected; the caller collects later.
EndSharded(c, t, record, error) ==
    /\ kind[c] = "sharded"
    /\ IF error # None /\ left[c] # <<>> /\ outcomes[c][t.slot] = Failed
         THEN Proceed(c, t, left[c], FALSE) /\ UNCHANGED outcomes
         ELSE /\ tries' = tries \ {t}
              /\ outcomes' = [outcomes EXCEPT ![c][Slot(c, t)] =
                                IF error = None THEN [peer |-> t.peer, record |-> record]
                                ELSE IF @ = Failed THEN Lost ELSE Failed]
              /\ UNCHANGED <<phase, left, accepted>>
    /\ UNCHANGED <<results, counts, reputation>>

End(c, t, record, error) ==
    \/ EndBest(c, t, record, error)
    \/ EndVerified(c, t, record, error)
    \/ EndSharded(c, t, record, error)

\* The output came, and is the content the record names.
Finish(t) ==
    /\ Stages[t.stage] = "output"
    /\ End(t.call, t, t.record, None)
    /\ UNCHANGED <<placement, kind, policy, ran, replicas>>

\* An exchange fails; a commit may have been carried out all the same.
Fail(t, error) ==
    /\ error = "invalid" => Stages[t.stage] = "commit"
    /\ ran' \in IF Stages[t.stage] = "commit"
                  THEN {ran, ran \cup {<<t.peer, <<t.call, t.slot>>>>}} ELSE {ran}
    /\ End(t.call, t, None, error)
    /\ UNCHANGED <<placement, kind, policy, replicas>>

\* After the join: the slots of the wave in order.  A failed one is tried at the
\* other peers, one after the other; the last slot of a wave starts the next.
Collect(c) ==
    LET i == Len(results[c]) + 1
        n == Len(ByRank)
        others == SelectSeq(ByRank, LAMBDA p : p # ByRank[((i - 1) % n) + 1])
    IN
    /\ kind[c] = "sharded" /\ phase[c] = "busy"
    /\ \A t \in tries : t.call # c
    /\ IF outcomes[c][i] = Lost \/ (outcomes[c][i] = Failed /\ others = <<>>)
         THEN phase' = [phase EXCEPT ![c] = "failed"] /\ UNCHANGED <<tries, left, results, counts>>
         ELSE IF outcomes[c][i] = Failed
         THEN /\ tries' = tries \cup {Try(c, i, Head(others))}
              /\ left' = [left EXCEPT ![c] = Tail(others)]
              /\ UNCHANGED <<phase, results, counts>>
         ELSE /\ results' = [results EXCEPT ![c] = Append(@, outcomes[c][i])]
              /\ counts' = [counts EXCEPT ![outcomes[c][i].peer] = @ + 1]
              /\ left' = [left EXCEPT ![c] = <<>>]
              /\ tries' = IF i % n = 0 /\ i < Shards THEN tries \cup WaveTries(c, i + 1) ELSE tries
              /\ phase' = IF i = Shards THEN [phase EXCEPT ![c] = "done"] ELSE phase
    /\ UNCHANGED <<placement, kind, policy, outcomes, accepted, ran, reputation, replicas>>

-----------------------------------------------------------------------------
(* Replication *)

Enter(c, before, after) ==
    /\ phase[c] = before
    /\ phase' = [phase EXCEPT ![c] = after]
    /\ UNCHANGED <<placement, kind, policy, outcomes, results, accepted, tries, ran, book, losses>>

Keep(c) == Enter(c, phase[c], phase[c])

\* replicate_p2p reads the local copy and offers it to the given peers in turn;
\* repair_replication_p2p asks the known replicas first; fetch_p2p asks providers.
StartReplication(c) ==
    \/ /\ kind[c] = "replicate"
       /\ Enter(c, "idle", IF Self \in holds THEN "copying" ELSE "failed")
       /\ left' = [left EXCEPT ![c] = Hosts]
       /\ UNCHANGED <<holds, known, live, asked>>
    \/ /\ kind[c] = "repair"
       /\ Enter(c, "idle", "checking")
       /\ UNCHANGED <<left, holds, known, live, asked>>
    \/ /\ kind[c] = "fetch"
       /\ Enter(c, "idle", IF Self \in holds THEN "done" ELSE "asking")
       /\ \E providers \in SUBSET Peers : asked' = [asked EXCEPT ![c] = Peers \ providers]
       /\ UNCHANGED <<left, holds, known, live>>

\* CheckContent: a replica counts as live if it says that it has the content.
CheckReplica(c, p) ==
    /\ phase[c] = "checking" /\ p \in known \ asked[c]
    /\ Keep(c)
    /\ asked' = [asked EXCEPT ![c] = @ \cup {p}]
    /\ \/ p \in holds /\ live' = [live EXCEPT ![c] = @ \cup {p}]
       \/ live' = live
    /\ UNCHANGED <<left, holds, known>>

\* cas.get, after the checks.
Checked(c) ==
    /\ known \subseteq asked[c]
    /\ Enter(c, "checking", IF Self \in holds THEN "copying" ELSE "failed")
    /\ asked' = [asked EXCEPT ![c] = {}]
    /\ UNCHANGED <<left, holds, known, live>>

Wanted(c) == Cardinality(live[c]) < Target - 1

\* The peers that may be copied to next.
Next_peers(c) ==
    IF kind[c] = "repair" THEN Peers \ (live[c] \cup asked[c])
    ELSE {left[c][i] : i \in DOMAIN left[c] \cap {1}}

\* The content is sent; without an acknowledgement it may have been stored or not.
Copy(c, p) ==
    /\ phase[c] = "copying" /\ Wanted(c) /\ p \in Next_peers(c)
    /\ Keep(c)
    /\ left' = IF kind[c] = "replicate" THEN [left EXCEPT ![c] = Tail(@)] ELSE left
    /\ asked' = [asked EXCEPT ![c] = @ \cup {p}]
    /\ \/ holds' = holds \cup {p} /\ live' = [live EXCEPT ![c] = @ \cup {p}]
       \/ holds' \in {holds, holds \cup {p}} /\ live' = live
    /\ UNCHANGED known

\* Variant: peers are given up when the minimum is met.
CopiedMinimum(c) ==
    /\ Cardinality(live[c]) + 1 >= Minimum \/ Next_peers(c) = {}
    /\ Enter(c, "copying", IF Cardinality(live[c]) + 1 >= Minimum THEN "done" ELSE "failed")
    /\ known' = IF kind[c] = "repair" THEN live[c] ELSE known
    /\ UNCHANGED <<left, holds, live, asked>>

\* repair hands its set to the caller even if it fails.
Copied(c) ==
    /\ ~Wanted(c) \/ Next_peers(c) = {}
    /\ Enter(c, "copying", IF Cardinality(live[c]) + 1 >= Minimum THEN "done" ELSE "failed")
    /\ known' = IF kind[c] = "repair" THEN live[c] ELSE known
    /\ UNCHANGED <<left, holds, live, asked>>

\* Variant: a provider that failed is asked again.
AskAgain(c, p) ==
    /\ phase[c] = "asking" /\ p \in Peers \ asked[c]
    /\ \/ p \in holds /\ holds' = holds \cup {Self} /\ Enter(c, "asking", "done")
       \/ holds' = holds /\ Keep(c)
    /\ UNCHANGED <<left, known, live, asked>>

\* fetch_p2p: the first provider that sends the content with the right hash.
Ask(c, p) ==
    /\ phase[c] = "asking" /\ p \in Peers \ asked[c]
    /\ asked' = [asked EXCEPT ![c] = @ \cup {p}]
    /\ \/ p \in holds /\ holds' = holds \cup {Self} /\ Enter(c, "asking", "done")
       \/ holds' = holds /\ Keep(c)
    /\ UNCHANGED <<left, known, live>>

NoProvider(c) ==
    /\ asked[c] = Peers
    /\ Enter(c, "asking", "failed")
    /\ UNCHANGED <<left, holds, known, live, asked>>

Replicating == \E c \in Calls : kind[c] \in {"replicate", "repair", "fetch"}

\* A node loses its copy, or leaves.
Lose(p) ==
    /\ losses < MaxLosses /\ Replicating
    /\ losses' = losses + 1
    /\ holds' = holds \ {p}
    /\ UNCHANGED <<placement, call, tries, ran, book, known, live, asked>>

-----------------------------------------------------------------------------

Init ==
    /\ PlacementInit
    /\ kind \in Scenarios
    /\ phase = [c \in Calls |-> "idle"]
    /\ policy = [c \in Calls |-> None] /\ accepted = policy
    /\ tries = {} /\ ran = {}
    /\ outcomes = [c \in Calls |-> [i \in 1..Shards |-> None]]
    /\ left = [c \in Calls |-> <<>>] /\ results = left
    /\ counts = [p \in Peers |-> 0]
    /\ reputation = [p \in Peers |-> [success |-> 0, failure |-> 0, invalid |-> 0, timeout |-> 0]]
    /\ holds \in IF Replicating THEN {{Self}, Peers, Candidates} ELSE {{}}
    /\ known = holds \ {Self}
    /\ live = [c \in Calls |-> {}] /\ asked = live
    /\ losses = 0

Step(c) ==
    \/ Start(c) \/ StartReplication(c) \/ Collect(c)
    \/ \E t \in {u \in tries : u.call = c} :
         Exchange(t) \/ Finish(t) \/ \E error \in Errors : Fail(t, error)
    \/ \E p \in Peers : CheckReplica(c, p) \/ Copy(c, p) \/ Ask(c, p)
    \/ Checked(c) \/ Copied(c) \/ NoProvider(c)

\* The application that places its tasks with Scheduler.
Schedule ==
    /\ \A c \in Calls : kind[c] = "none"
    /\ \E p \in Candidates : Refresh(p) \/ \E need \in Needs : Place(need, p)
    /\ UNCHANGED <<call, tries, ran, book, replicas>>

Next ==
    \/ \E c \in Calls : Step(c)
    \/ \E p \in Candidates : Lose(p)
    \/ Schedule

Spec == Init /\ [][Next]_vars

\* Every request ends, by its answer or by the timeout of P2pRpc::request, and a
\* thread that is not waiting runs.
FairSpec == Spec /\ \A c \in Calls : WF_vars(Step(c))

-----------------------------------------------------------------------------
(* Properties *)

Matches(q) == IF q.kind = "quorum" THEN q.matches ELSE Required(q)

\* What execute_verified_p2p returns was computed by as many different executors as
\* the policy asks for, whoever handed in the records; with fewer faulty peers
\* than that, it is the right output.
VerifiedSound ==
    \A c \in Calls : kind[c] = "verified" /\ phase[c] = "done" =>
        LET backing == {results[c][i].executor :
                          i \in {j \in DOMAIN results[c] : results[c][j].output = accepted[c]}} IN
        /\ Cardinality(backing) >= Matches(policy[c])
        /\ \A p \in backing : <<p, <<c, 1>>>> \in ran
        /\ Cardinality(Faulty) < Matches(policy[c]) => accepted[c] = <<1, "right">>

\* The outputs of execute_sharded_bytes_p2p are those of its shards, all of them and
\* in their order, whichever executor failed, was replaced, or ran a shard twice.
ShardsInOrder ==
    \A c \in Calls : kind[c] = "sharded" =>
        /\ phase[c] = "done" => Len(results[c]) = Shards
        /\ \A i \in DOMAIN results[c] :
             LET r == results[c][i].record IN
             r.output = Output(r.executor, i) /\ <<r.executor, <<c, i>>>> \in ran

\* README: "Repair checks each known replica ..., removes departed peers, and copies
\* to replacements until the target is restored; it fails if the minimum cannot be
\* reached."  After a repair, or a replication, that succeeded there were enough
\* acknowledged copies (replicate_p2p counts a peer twice that is given twice), and
\* the target is missed only if no peer was left to ask.
RepairRestores ==
    \A c \in Calls : kind[c] \in {"repair", "replicate"} /\ phase[c] = "done" =>
        /\ Cardinality(live[c]) + 1 >= Minimum
        /\ \/ Cardinality(live[c]) + 1 >= Target
           \/ live[c] \cup asked[c] = IF kind[c] = "repair" THEN Peers ELSE Range(Hosts)

\* Every call returns, whatever fails on the way.
CallsEnd ==
    \A c \in Calls : phase[c] # "idle" ~> phase[c] \in {"done", "failed"}
=============================================================================
