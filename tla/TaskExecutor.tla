---------------------------- MODULE TaskExecutor ----------------------------
(***************************************************************************)
(* The executing side of the task protocol of a PeerlessNode: TaskOffer,   *)
(* TaskCommit and TaskCancel handlers, the reservation table `pending',    *)
(* the result cache `completed', the task table of the metadata database   *)
(* and the TaskCompleted events of the local ledger, with crash and        *)
(* restart.                                                                *)
(*                                                                         *)
(* Handlers interleave: the TCP RPC server runs one thread per connection, *)
(* every P2P listener one thread, and execute_local calls the handlers on  *)
(* the application's threads.  Every region a handler executes under one   *)
(* lock (or one SQL statement, or one file operation) is one action, which *)
(* reads the clock once; between two of them any other thread may run.     *)
(*                                                                         *)
(* Data kept: a Task is its id and its deadline (two offers of one id with *)
(* different deadlines are different tasks; "no deadline" is a deadline    *)
(* beyond the clock's bound).  A signed result is the number of the        *)
(* TaskCommit call that executed it.                                       *)
(***************************************************************************)
EXTENDS Naturals, FiniteSets

CONSTANTS Threads,      \* connection handler threads
          TaskIds,      \* task identifiers
          Requesters,   \* authenticated signers
          Deadlines,    \* deadlines a requester may put in a Task
          Leases,       \* values of TaskOffer.expires_at
          MaxSlots,     \* MAX_CONCURRENT_TASKS
          NoTask,       \* absence of an entry in a map
          NoCall,       \* the locals of an idle thread
          MaxTime,      \* bound: largest clock value
          MaxCalls,     \* bound: TaskOffer and TaskCommit calls received
          MaxCrashes    \* bound: crashes

PendingTask == [requester : Requesters, deadline : Nat, lease : Nat,
                phase : {"accepted", "running"}]
CompletedTask == [requester : Requesters, deadline : Nat, run : Nat]
Call == [run : Nat, id : TaskIds, requester : Requesters, deadline : Nat,
         lease : Nat, verdict : {"none", "eligible", "ineligible"}]

ASSUME ConstantsAssumption ==
    /\ IsFiniteSet(TaskIds)
    /\ IsFiniteSet(Threads)
    /\ MaxSlots \in Nat
    /\ Deadlines \subseteq Nat
    /\ Leases \subseteq Nat
    /\ NoTask \notin PendingTask \cup CompletedTask
    /\ NoCall \notin Call

VARIABLES
    clock,       \* now()
    pending,     \* Inner.pending
    completed,   \* Inner.completed
    taskState,   \* table `tasks': the state column
    taskResult,  \* table `tasks': the requester, task and result json columns
    ledger,      \* TaskCompleted events on disk
    pc, loc,     \* per thread: the next step and the handler's locals
    calls,       \* calls received so far; numbers the executions
    crashes,
    claims,      \* history: executions started, with what was reserved
    delivered,   \* history: results sent, and to whom
    overran      \* history: threads whose run outlived its lease since the
                 \* last start

mem == <<pending, completed>>
dbase == <<taskState, taskResult>>
disk == <<taskState, taskResult, ledger>>
history == <<claims, delivered>>
vars == <<clock, pending, completed, taskState, taskResult, ledger, pc, loc,
          calls, crashes, claims, delivered, overran>>

OfferSteps == {"offer_capability", "offer_reserve", "offer_record"}
RunSteps == {"run_mark", "run_cache", "run_ledger", "run_persist", "run_answer",
             "run_release"}
Steps == {"idle", "commit_claim"} \cup OfferSteps \cup RunSteps

Executing(t) == pc[t] \in RunSteps

Reserved == {i \in TaskIds : pending[i] # NoTask}

\* The reservation outlives instant `at': neither lease nor deadline passed.
Unexpired(p, at) == p.lease > at /\ p.deadline > at

-----------------------------------------------------------------------------
Init ==
    /\ clock = 0
    /\ pending = [i \in TaskIds |-> NoTask]
    /\ completed = [i \in TaskIds |-> NoTask]
    /\ taskState = [i \in TaskIds |-> "absent"]
    /\ taskResult = [i \in TaskIds |-> NoTask]
    /\ ledger = {}
    /\ pc = [t \in Threads |-> "idle"]
    /\ loc = [t \in Threads |-> NoCall]
    /\ calls = 0
    /\ crashes = 0
    /\ claims = {}
    /\ delivered = {}
    /\ overran = {}

Goto(t, step) == pc' = [pc EXCEPT ![t] = step] /\ loc' = loc

\* The handler answers and its thread goes back to the connection.
Return(t) == pc' = [pc EXCEPT ![t] = "idle"] /\ loc' = [loc EXCEPT ![t] = NoCall]

Deliver(run, to) == delivered' = delivered \cup {[run |-> run, to |-> to]}

\* Metadata::task: an upsert of the state column; the json columns stay.
SetState(i, state) ==
    taskState' = [taskState EXCEPT ![i] = state] /\ taskResult' = taskResult

SetPending(i, p) == pending' = [pending EXCEPT ![i] = p]

-----------------------------------------------------------------------------
(* TaskOffer: accept_offer *)

\* The structural check and the lookup in `completed'.  An offer that is
\* expired, not signed by its requester, or answered from `completed' changes
\* nothing and is answered at once.
OfferReceived(t, i, r, d, l) ==
    /\ pc[t] = "idle"
    /\ calls < MaxCalls
    /\ l > clock
    /\ completed[i] = NoTask
    /\ calls' = calls + 1
    /\ pc' = [pc EXCEPT ![t] = "offer_capability"]
    /\ loc' = [loc EXCEPT ![t] = [run |-> calls + 1, id |-> i, requester |-> r,
                                  deadline |-> d, lease |-> l, verdict |-> "none"]]
    /\ UNCHANGED <<clock, mem, disk, crashes, history, overran>>

\* Variant: expiry compared one instant too early.
PrunedEarly == [i \in TaskIds |->
              IF pending[i] # NoTask /\ pending[i].phase # "running"
                                     /\ ~Unexpired(pending[i], clock + 1)
                THEN NoTask
                ELSE pending[i]]

\* capability(): drop the reservations that expired and are not running.
Pruned == [i \in TaskIds |->
              IF pending[i] # NoTask /\ pending[i].phase # "running"
                                     /\ ~Unexpired(pending[i], clock)
                THEN NoTask
                ELSE pending[i]]

\* eligible(task, capability, observed_at): a free slot in the snapshot, the
\* deadline ahead, and enough memory, CPU and storage, which the host may lack.
OfferCapability(t) ==
    /\ pc[t] = "offer_capability"
    /\ pending' = Pruned
    /\ \E verdict \in {"eligible", "ineligible"} :
         /\ verdict = "eligible" =>
              /\ Cardinality({i \in TaskIds : Pruned[i] # NoTask}) < MaxSlots
              /\ loc[t].deadline > clock
         /\ loc' = [loc EXCEPT ![t].verdict = verdict]
    /\ pc' = [pc EXCEPT ![t] = "offer_reserve"]
    /\ UNCHANGED <<clock, completed, disk, calls, crashes, history, overran>>

\* Variant: trusts the capability snapshot and does not count again.
SlotFreeBySnapshot == TRUE

SlotFree == Cardinality(Reserved) < MaxSlots

\* Under the `pending' lock: an existing entry is answered (accept if it is the
\* same task of the same requester, else collision); otherwise reserve.
OfferReserve(t) ==
    LET c == loc[t] IN
    /\ pc[t] = "offer_reserve"
    /\ IF pending[c.id] = NoTask /\ c.verdict = "eligible" /\ SlotFree
         THEN /\ SetPending(c.id, [requester |-> c.requester, deadline |-> c.deadline,
                                   lease |-> c.lease, phase |-> "accepted"])
              /\ Goto(t, "offer_record")
         ELSE Return(t) /\ UNCHANGED pending
    /\ UNCHANGED <<clock, completed, disk, calls, crashes, history, overran>>

\* metadata.task(id, "accepted"), which may fail; the reservation stays.
OfferRecord(t) ==
    /\ pc[t] = "offer_record"
    /\ SetState(loc[t].id, "accepted") \/ UNCHANGED dbase
    /\ Return(t)
    /\ UNCHANGED <<clock, mem, ledger, calls, crashes, history, overran>>

-----------------------------------------------------------------------------
(* TaskCommit: execute *)

\* Variant: no check of the signer against the cached requester.
ReplayToAnyone(i, r) ==
    /\ completed[i] # NoTask
    /\ Deliver(completed[i].run, r)
    /\ UNCHANGED <<clock, mem, disk, pc, loc, calls, crashes, claims, overran>>

\* The task is in `completed': replay the cached result to its requester.
Replay(i, r) ==
    /\ completed[i] # NoTask
    /\ completed[i].requester = r
    /\ Deliver(completed[i].run, r)
    /\ UNCHANGED <<clock, mem, disk, pc, loc, calls, crashes, claims, overran>>

CommitReceived(t, i, r) ==
    /\ pc[t] = "idle"
    /\ calls < MaxCalls
    /\ completed[i] = NoTask
    /\ calls' = calls + 1
    /\ pc' = [pc EXCEPT ![t] = "commit_claim"]
    /\ loc' = [loc EXCEPT ![t] = [run |-> calls + 1, id |-> i, requester |-> r,
                                  deadline |-> 0, lease |-> 0, verdict |-> "none"]]
    /\ UNCHANGED <<clock, mem, disk, crashes, history, overran>>

StartRun(t) ==
    LET c == loc[t]
        p == pending[c.id]
    IN  /\ SetPending(c.id, [p EXCEPT !.phase = "running"])
        /\ claims' = claims \cup {[run |-> c.run, id |-> c.id,
                                   requester |-> p.requester, deadline |-> p.deadline]}
        /\ pc' = [pc EXCEPT ![t] = "run_mark"]
        /\ loc' = [loc EXCEPT ![t] = [c EXCEPT !.lease = p.lease, !.deadline = p.deadline]]

\* Variant: a running reservation can be claimed again.
ClaimRunning(t) == StartRun(t)

Claim(t) == pending[loc[t].id].phase # "running" /\ StartRun(t)

\* Under the `pending' lock.  Expiry is looked at before `running', so the
\* commit of an expired task takes the reservation away whoever runs it.
CommitClaim(t) ==
    LET i == loc[t].id
        mine == pending[i] # NoTask /\ pending[i].requester = loc[t].requester
    IN
    /\ pc[t] = "commit_claim"
    /\ \/ ~mine /\ Return(t) /\ UNCHANGED <<pending, claims>>
       \/ /\ mine /\ ~Unexpired(pending[i], clock)
          /\ SetPending(i, NoTask)
          /\ Return(t) /\ UNCHANGED claims
       \/ /\ mine /\ Unexpired(pending[i], clock) /\ pending[i].phase = "running"
          /\ Return(t) /\ UNCHANGED <<pending, claims>>
       \/ mine /\ Unexpired(pending[i], clock) /\ Claim(t)
    /\ UNCHANGED <<clock, completed, disk, calls, crashes, delivered, overran>>

\* Variant: the error leaves the handler before pending.remove.
AbortNow(t) == Return(t)

\* Any step of the run may fail; the handler then goes on to pending.remove.
Abort(t) == Goto(t, "run_release")

RunMark(t) ==
    /\ pc[t] = "run_mark"
    /\ \/ SetState(loc[t].id, "running") /\ Goto(t, "run_cache")
       \/ UNCHANGED dbase /\ Abort(t)
    /\ UNCHANGED <<clock, mem, ledger, calls, crashes, history, overran>>

Result(t) == [requester |-> loc[t].requester, deadline |-> loc[t].deadline,
              run |-> loc[t].run]

RunCache(t) ==
    /\ pc[t] = "run_cache"
    /\ \/ /\ completed' = [completed EXCEPT ![loc[t].id] = Result(t)]
          /\ Goto(t, "run_ledger")
       \/ UNCHANGED completed /\ Abort(t)
    /\ UNCHANGED <<clock, pending, disk, calls, crashes, history, overran>>

\* Variant: the error of append_ledger_event is dropped.
RunLedgerUnchecked(t) ==
    /\ pc[t] = "run_ledger"
    /\ \/ ledger' = ledger \cup {[id |-> loc[t].id, run |-> loc[t].run]}
       \/ UNCHANGED ledger
    /\ Goto(t, "run_persist")
    /\ UNCHANGED <<clock, mem, dbase, calls, crashes, history, overran>>

\* append_ledger_event: fails on I/O and when the wall clock has stepped back.
RunLedger(t) ==
    /\ pc[t] = "run_ledger"
    /\ \/ /\ ledger' = ledger \cup {[id |-> loc[t].id, run |-> loc[t].run]}
          /\ Goto(t, "run_persist")
       \/ UNCHANGED ledger /\ Abort(t)
    /\ UNCHANGED <<clock, mem, dbase, calls, crashes, history, overran>>

\* Variant: Metadata::task with "completed", leaving the json columns.
PersistState(t) == SetState(loc[t].id, "completed")

\* Metadata::completed_task: the state and the json columns in one statement.
Persist(t) ==
    /\ taskState' = [taskState EXCEPT ![loc[t].id] = "completed"]
    /\ taskResult' = [taskResult EXCEPT ![loc[t].id] = Result(t)]

\* metadata.completed_task, then the event row, whose failure loses the answer.
RunPersist(t) ==
    /\ pc[t] = "run_persist"
    /\ \/ /\ Persist(t)
          /\ Goto(t, "run_answer") \/ Abort(t)
       \/ UNCHANGED dbase /\ Abort(t)
    /\ UNCHANGED <<clock, mem, ledger, calls, crashes, history, overran>>

\* pending.remove(task_id), unconditionally, then the answer.
RunRelease(t) ==
    /\ pc[t] \in {"run_answer", "run_release"}
    /\ SetPending(loc[t].id, NoTask)
    /\ IF pc[t] = "run_answer"
         THEN Deliver(loc[t].run, loc[t].requester)
         ELSE UNCHANGED delivered
    /\ Return(t)
    /\ UNCHANGED <<clock, completed, disk, calls, crashes, claims, overran>>

-----------------------------------------------------------------------------
(* TaskCancel, the local capability() callers, time, crash and open *)

\* Variant: cancels a running task.
MayCancelRunning(p, r) == p # NoTask /\ p.requester = r

MayCancel(p, r) == p # NoTask /\ p.requester = r /\ p.phase # "running"

\* Only the requester, only while not running; otherwise nothing changes.
TaskCancel(i, r) ==
    /\ MayCancel(pending[i], r)
    /\ SetPending(i, NoTask)
    /\ UNCHANGED <<clock, completed, disk, pc, loc, calls, crashes, history, overran>>

LocalCapability ==
    /\ pending' = Pruned
    /\ UNCHANGED <<clock, completed, disk, pc, loc, calls, crashes, history, overran>>

Tick ==
    /\ clock < MaxTime
    /\ clock' = clock + 1
    /\ overran' = overran \cup {t \in Threads : Executing(t)
                                               /\ ~Unexpired(loc[t], clock + 1)}
    /\ UNCHANGED <<mem, disk, pc, loc, calls, crashes, history>>

\* The process dies and is opened again: pending starts empty, completed is
\* read back from the rows whose state is still 'completed'.
Recovered == [i \in TaskIds |->
                IF taskState[i] = "completed" THEN taskResult[i] ELSE NoTask]

CrashAndOpen ==
    /\ crashes < MaxCrashes
    /\ crashes' = crashes + 1
    /\ pending' = [i \in TaskIds |-> NoTask]
    /\ completed' = Recovered
    /\ pc' = [t \in Threads |-> "idle"]
    /\ loc' = [t \in Threads |-> NoCall]
    /\ overran' = {}
    /\ UNCHANGED <<clock, disk, calls, history>>

-----------------------------------------------------------------------------
ThreadStep(t) ==
    \/ OfferCapability(t) \/ OfferReserve(t) \/ OfferRecord(t)
    \/ CommitClaim(t)
    \/ RunMark(t) \/ RunCache(t) \/ RunLedger(t) \/ RunPersist(t)
    \/ RunRelease(t)

Receive(t) == \E i \in TaskIds, r \in Requesters :
    \/ CommitReceived(t, i, r)
    \/ \E d \in Deadlines, l \in Leases : OfferReceived(t, i, r, d, l)

Next ==
    \/ \E t \in Threads : Receive(t) \/ ThreadStep(t)
    \/ \E i \in TaskIds, r \in Requesters : TaskCancel(i, r) \/ Replay(i, r)
    \/ LocalCapability
    \/ Tick
    \/ CrashAndOpen

Spec == Init /\ [][Next]_vars

\* Handler threads are scheduled by the operating system and every execution is
\* cut off by its fuel budget, so a handler that has begun keeps taking steps.
\* Arrivals, time and crashes are the environment's: no fairness.
FairSpec == Spec /\ \A t \in Threads : WF_vars(ThreadStep(t))

-----------------------------------------------------------------------------
(* Properties *)

\* Every map and local has its type; an idle thread holds no call; a row of the
\* task table marked completed carries its result (what completed_tasks reads).
TypeOK ==
    /\ clock \in Nat /\ calls \in Nat /\ crashes \in Nat
    /\ pending \in [TaskIds -> PendingTask \cup {NoTask}]
    /\ completed \in [TaskIds -> CompletedTask \cup {NoTask}]
    /\ taskState \in [TaskIds -> {"absent", "accepted", "running", "completed"}]
    /\ taskResult \in [TaskIds -> CompletedTask \cup {NoTask}]
    /\ \A i \in TaskIds : taskState[i] = "completed" => taskResult[i] # NoTask
    /\ ledger \subseteq [id : TaskIds, run : Nat]
    /\ pc \in [Threads -> Steps]
    /\ loc \in [Threads -> Call \cup {NoCall}]
    /\ \A t \in Threads : pc[t] = "idle" <=> loc[t] = NoCall
    /\ claims \subseteq [run : Nat, id : TaskIds, requester : Requesters, deadline : Nat]
    /\ delivered \subseteq [run : Nat, to : Requesters]
    /\ overran \subseteq Threads

\* accept_offer decides on a capability snapshot taken before it locks
\* `pending': however offers interleave, there are never more reservations
\* than slots.
SlotBound == Cardinality(Reserved) <= MaxSlots

\* The reservation of the call that thread t executes.
Owns(t) ==
    LET p == pending[loc[t].id] IN
    /\ p # NoTask
    /\ p.phase = "running"
    /\ p.requester = loc[t].requester
    /\ p.lease = loc[t].lease
    /\ p.deadline = loc[t].deadline

\* As long as every execution ends within the lease and deadline it started
\* under, an executing thread owns the reservation it claimed, no two threads
\* execute one task id, and no more tasks execute than there are slots.
ExclusiveWithinLease ==
    overran = {} =>
        /\ \A t \in Threads : Executing(t) => Owns(t)
        /\ \A t, u \in Threads :
             Executing(t) /\ Executing(u) /\ loc[t].id = loc[u].id => t = u
        /\ Cardinality({t \in Threads : Executing(t)}) <= MaxSlots

\* execute appends the TaskCompleted event before it writes the completed row:
\* whatever fails or crashes in between, every result the database would
\* replay after a restart is in the ledger.
DurableIsLedgered ==
    \A i \in TaskIds :
        taskResult[i] # NoTask => [id |-> i, run |-> taskResult[i].run] \in ledger

\* Commit theft: a result goes only to the requester whose reservation was
\* executed, also when it is replayed from the cache or after a restart, and
\* when the id was meanwhile reserved by somebody else.
ResultsGoToOwner ==
    \A d \in delivered :
        \E c \in claims : c.run = d.run /\ c.requester = d.to

KeepsLiveReservations ==
    \A i \in TaskIds :
        /\ overran = {}
        /\ pending[i] # NoTask /\ pending[i].phase # "running"
        /\ Unexpired(pending[i], clock)
        /\ pending'[i] = NoTask
        => TaskCancel(i, pending[i].requester) \/ CrashAndOpen

\* A reservation that is not running and not expired is taken away only by its
\* own requester's cancellation or by a restart: not by the clean-up of another
\* call, nor by the end of another run of the same id (unless a run outlived its
\* lease).
LiveReservationKept == [][KeepsLiveReservations]_vars

\* A running reservation is released whatever fails in the run ("Failure releases
\* reserved capacity").
RunningIsReleased ==
    \A i \in TaskIds :
        (pending[i] # NoTask /\ pending[i].phase = "running")
            ~> (pending[i] = NoTask \/ pending[i].phase # "running")

\* Task ids that some thread executes.
Active == {loc[t].id : t \in {u \in Threads : Executing(u)}}

Contract == INSTANCE ExecutorContract
    WITH timely <- overran = {},
         held <- Reserved,
         active <- Active

\* Threads, locks, leases and crashes implement the reservation pool of
\* ExecutorContract: reserve under the bound, start once, give the slot back,
\* and drop only reservations that are not being executed.
ImplementsContract == Contract!ContractSpec

-----------------------------------------------------------------------------
(* What the documentation says and the code does not keep *)

\* README: "that reservation remains visible in capabilities while pending and
\* running" and "The current conservative concurrency policy is one task per
\* node": no more tasks execute at a time than there are slots.
ConcurrencyPolicy == Cardinality({t \in Threads : Executing(t)}) <= MaxSlots

\* README: "Task IDs are idempotent: retrying a completed task replays the cached
\* signed result instead of executing it twice": no execution of a task starts
\* while its result is in the cache.
CompletedNotExecutedAgain ==
    [][\A c \in claims' \ claims : completed[c.id] = NoTask]_vars

\* README: "At-least-once TaskId deduplication across restart": a restart forgets
\* no result that the database held as completed at any time.
CompletedSurvivesRestart ==
    [][\A i \in TaskIds :
          CrashAndOpen /\ taskResult[i] # NoTask => completed'[i] # NoTask]_vars
=============================================================================
