-------------------------- MODULE ExecutorContract --------------------------
(***************************************************************************)
(* What an executor promises to its requesters, without threads, locks,    *)
(* leases or files: a bounded pool of reservations.  A task is reserved,   *)
(* started at most once per reservation, and its slot is given back when   *)
(* the run ends.  The promise is made for as long as every run ends within *)
(* the lease it was started under (`timely'); once a run outlives its      *)
(* lease nothing is promised until the executor is restarted.              *)
(***************************************************************************)
EXTENDS Naturals, FiniteSets

CONSTANTS TaskIds,   \* task identifiers
          MaxSlots   \* MAX_CONCURRENT_TASKS

VARIABLES timely,    \* no run has outlived its lease since the last restart
          held,      \* task ids with a reservation
          active     \* task ids being executed

cvars == <<timely, held, active>>

ContractInit ==
    /\ timely = TRUE
    /\ held = {}
    /\ active = {}

Reserve(i) ==
    /\ i \notin held
    /\ Cardinality(held) < MaxSlots
    /\ held' = held \cup {i}
    /\ active' = active

Start(i) ==
    /\ i \in held \ active
    /\ active' = active \cup {i}
    /\ held' = held

Finish(i) ==
    /\ i \in active
    /\ active' = active \ {i}
    /\ held' = held \ {i}

\* Cancellation and expiry: only reservations that are not being executed.
Lapse(S) ==
    /\ S \subseteq held \ active
    /\ held' = held \ S
    /\ active' = active

\* Reservations are kept in memory: a restart forgets all of them.
Restart ==
    /\ held' = {}
    /\ active' = {}

TimelyStep ==
    /\ timely'
    /\ \/ Restart
       \/ timely /\ \E i \in TaskIds : Reserve(i) \/ Start(i) \/ Finish(i)
       \/ timely /\ \E S \in SUBSET TaskIds : Lapse(S)

Overrun == ~timely'

ContractNext == TimelyStep \/ Overrun

ContractSpec == ContractInit /\ [][ContractNext]_cvars
=============================================================================
