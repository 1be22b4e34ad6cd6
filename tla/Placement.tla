----------------------------- MODULE Placement ------------------------------
(***************************************************************************)
(* Scheduler and verification policy of peerless-compute.  An application  *)
(* places one task after another, counting the assignments; the            *)
(* candidates' capabilities come and go.                                   *)
(***************************************************************************)
EXTENDS Naturals, Sequences, FiniteSets, FiniteSetsExt, Functions

CONSTANTS Peers,
          Self,            \* the local node
          Rank,            \* Rank[p]: place of p in NodeId order
          Seen,            \* Seen[p]: what is known of p, see Attributes
          Memory,          \* Memory[p]: available memory
          DefaultMemory,   \* DEFAULT_TASK_MEMORY_LIMIT
          MaxMemory,       \* MAX_TASK_MEMORY_LIMIT
          Needs,           \* values of requirements.minimum_memory
          MaxPlaced        \* bound: tasks placed

Candidates == Peers \cup {Self}
Unit == 10                 \* 1.0

\* NodeCapability and PlacementObservation, reals of 0..1 as multiples of 1 / Unit.
Attributes ==
    [cores : Nat, cpu : 0..Unit, load : 0..Unit, memory : 0..Unit, latency : 0..Unit,
     locality : 0..Unit, transfer : 0..Unit, history : 0..Unit, trust : 0..Unit,
     replication : 0..Unit, congestion : 0..Unit, power : {"Ac", "Battery", "Unknown"}]

ASSUME PlacementAssumption ==
    /\ IsFiniteSet(Peers) /\ Self \notin Peers
    /\ Rank \in [Candidates -> Nat] /\ Seen \in [Candidates -> Attributes]
    /\ \A p, q \in Candidates : p # q => Rank[p] # Rank[q]
    /\ Memory \in [Candidates -> Nat] /\ DefaultMemory \in Nat /\ MaxMemory \in Nat
    /\ Needs \subseteq Nat

VARIABLES assignments,   \* assignments[p]: tasks placed at p
          fresh,         \* candidates whose capability is fresh and has a free slot
          passed         \* history: candidates that were not eligible at some placement

placement == <<assignments, fresh, passed>>

\* The enforced memory budget of a task, 0 when it asks for too much.
task_memory_limit(need) ==
    LET limit == IF need > DefaultMemory THEN need ELSE DefaultMemory
    IN  IF limit <= MaxMemory THEN limit ELSE 0

eligible(need, p) ==
    /\ p \in fresh
    /\ task_memory_limit(need) # 0 /\ Memory[p] >= task_memory_limit(need)

\* PowerState: 1.0, 0.4 or 0.6.
Power(state) == CASE state = "Ac" -> 10 [] state = "Battery" -> 4 [] state = "Unknown" -> 6

\* The default weights, in hundredths; the result is clamped to 0..1.
score(p) ==
    LET o == Seen[p]
        gain == 25 * o.cpu + 15 * o.memory + 15 * o.latency + 10 * Power(o.power)
                + 20 * o.locality + 10 * o.history + 15 * o.trust + 10 * o.replication
        cost == 10 * o.load + 5 * o.transfer + 10 * o.congestion
    IN  IF gain <= cost THEN 0 ELSE IF gain - cost >= 100 * Unit THEN 100 * Unit ELSE gain - cost

\* Scheduler::place: the best score, the smaller NodeId on a tie.
Outranks(p, q) == score(p) > score(q) \/ (score(p) = score(q) /\ Rank[p] < Rank[q])

place(candidates, p) == p \in candidates /\ \A q \in candidates \ {p} : Outranks(p, q)

\* Free cores, in units of 1 / Unit^2 and at least 0.05.
capacity(p) ==
    LET free == Seen[p].cores * Seen[p].cpu * (Unit - Seen[p].load)
    IN  IF free < 5 THEN 5 ELSE free

\* Variant: the number of assignments whatever the capacity.
PrecedesUnweighted(p, q) ==
    \/ assignments[p] < assignments[q]
    \/ assignments[p] = assignments[q] /\ Outranks(p, q)

\* Less pressure (assigned / capacity), then the better score, then the smaller NodeId.
Precedes(p, q) ==
    \/ assignments[p] * capacity(q) < assignments[q] * capacity(p)
    \/ assignments[p] * capacity(q) = assignments[q] * capacity(p) /\ Outranks(p, q)

\* p is where a task is placed.
place_balanced_with_local_fallback(need, p) ==
    LET remote == {q \in Peers : eligible(need, q)} IN
    IF remote = {} THEN place({q \in Candidates : eligible(need, q)}, p)
    ELSE p \in remote /\ \A q \in remote \ {p} : Precedes(p, q)

PlacementInit ==
    /\ assignments = [p \in Candidates |-> 0]
    /\ fresh = Candidates
    /\ passed = {}

Place(need, p) ==
    /\ place_balanced_with_local_fallback(need, p)
    /\ MapThenSumSet(LAMBDA q : assignments[q], Candidates) < MaxPlaced
    /\ assignments' = [assignments EXCEPT ![p] = @ + 1]
    /\ passed' = passed \cup {q \in Candidates : ~eligible(need, q)}
    /\ fresh' = fresh

\* A capability expires, fills its slots, or is refreshed.
Refresh(p) ==
    /\ fresh' = IF p \in fresh THEN fresh \ {p} ELSE fresh \cup {p}
    /\ UNCHANGED <<assignments, passed>>

\* "Weighted-fair peer selection" (Scheduler): among peers that were eligible
\* throughout, each has its share of the assignments by capacity, to within the one
\* task that made it the busier.
WeightedFair ==
    \A p, q \in Peers \ passed :
        assignments[p] > 0 => (assignments[p] - 1) * capacity(q) <= assignments[q] * capacity(p)

-----------------------------------------------------------------------------
(* verify_outputs *)

\* A policy is [kind, executions, matches].
Required(policy) == IF policy.kind = "trust" THEN 1 ELSE policy.executions

Count(outputs, o) == Cardinality({i \in DOMAIN outputs : outputs[i] = o})

\* The outputs the policy accepts; for a quorum, one of those with most matches.
Agreed(policy, outputs) ==
    LET first == SubSeq(outputs, 1, Required(policy)) IN
    IF Len(outputs) < Required(policy) \/ Required(policy) = 0 THEN {}
    ELSE CASE policy.kind = "trust" -> {outputs[1]}
           [] policy.kind = "replicate" ->
                IF \A i \in DOMAIN first : first[i] = first[1] THEN {first[1]} ELSE {}
           [] policy.kind = "quorum" ->
                IF policy.matches = 0 \/ policy.matches > policy.executions THEN {}
                ELSE {o \in Range(first) :
                        /\ Count(first, o) >= policy.matches
                        /\ \A u \in Range(first) : Count(first, u) <= Count(first, o)}
=============================================================================
