------------------------- MODULE TaskExecutorProofs -------------------------
(***************************************************************************)
(* Proofs about TaskExecutor, for every set of threads, task ids and       *)
(* requesters, every number of slots and all the bounds.                   *)
(***************************************************************************)
EXTENDS TaskExecutor, FiniteSetTheorems, TLAPS

-----------------------------------------------------------------------------
(* Types *)

\* Names of the groups of variables, expanded together.
USE DEF mem, dbase, disk, history

\* Init and every action preserve the types of the handlers' state.
THEOREM TypeCorrect == Spec => []TypeOK
<1>1. Init => TypeOK
  BY DEF Init, TypeOK, Steps
<1>2. TypeOK /\ [Next]_vars => TypeOK'
  <2> SUFFICES ASSUME TypeOK, [Next]_vars PROVE TypeOK'
    BY Zenon
  <2> USE ConstantsAssumption DEF TypeOK, Steps, OfferSteps, RunSteps
  <2>1. ASSUME NEW t \in Threads, NEW i \in TaskIds, NEW r \in Requesters,
               NEW d \in Deadlines, NEW l \in Leases, OfferReceived(t, i, r, d, l)
        PROVE TypeOK'
    BY <2>1 DEF OfferReceived, Call
  <2>2. ASSUME NEW t \in Threads, NEW i \in TaskIds, NEW r \in Requesters,
               CommitReceived(t, i, r)
        PROVE TypeOK'
    BY <2>2 DEF CommitReceived, Call
  <2>3. ASSUME NEW t \in Threads, OfferCapability(t) PROVE TypeOK'
    BY <2>3 DEF OfferCapability, Pruned, Call
  <2>4. ASSUME NEW t \in Threads, OfferReserve(t) PROVE TypeOK'
    <3>1. loc[t] \in Call
      BY <2>4, Zenon DEF OfferReserve
    <3>2. [requester |-> loc[t].requester, deadline |-> loc[t].deadline,
           lease |-> loc[t].lease, phase |-> "accepted"] \in PendingTask
      BY <3>1, Zenon DEF Call, PendingTask
    <3> QED
      BY <2>4, <3>1, <3>2 DEF OfferReserve, SetPending, Goto, Return, Call
  <2>5. ASSUME NEW t \in Threads, OfferRecord(t) PROVE TypeOK'
    <3>1. loc[t] \in Call
      BY <2>5, Zenon DEF OfferRecord
    <3> QED
      BY <2>5, <3>1, Zenon DEF OfferRecord, SetState, Return, Call
  <2>6. ASSUME NEW t \in Threads, CommitClaim(t) PROVE TypeOK'
    <3>1. loc[t] \in Call
      BY <2>6, Zenon DEF CommitClaim
    <3>2. CASE Claim(t) /\ pending[loc[t].id] # NoTask
      <4>1. pending[loc[t].id] \in PendingTask
        BY <3>1, <3>2, Zenon DEF Call
      <4>2. [pending[loc[t].id] EXCEPT !.phase = "running"] \in PendingTask
        BY <4>1, Zenon DEF PendingTask
      <4>3. [loc[t] EXCEPT !.lease = pending[loc[t].id].lease,
                           !.deadline = pending[loc[t].id].deadline] \in Call
        BY <3>1, <4>1, Zenon DEF Call, PendingTask
      <4>4. [run |-> loc[t].run, id |-> loc[t].id,
             requester |-> pending[loc[t].id].requester,
             deadline |-> pending[loc[t].id].deadline]
              \in [run : Nat, id : TaskIds, requester : Requesters, deadline : Nat]
        BY <3>1, <4>1, Zenon DEF Call, PendingTask
      <4> QED
        BY <2>6, <3>1, <3>2, <4>2, <4>3, <4>4, Zenon DEF CommitClaim, Claim, StartRun, SetPending
    <3>3. CASE /\ Return(t) /\ UNCHANGED claims
               /\ UNCHANGED pending \/ SetPending(loc[t].id, NoTask)
      <4>1. UNCHANGED <<clock, completed, disk, calls, crashes, delivered, overran>>
        BY <2>6, Zenon DEF CommitClaim
      <4>2. pending' \in [TaskIds -> PendingTask \cup {NoTask}]
        BY <3>3, Zenon DEF SetPending
      <4> QED
        BY <3>1, <3>3, <4>1, <4>2, Zenon DEF Return
    <3> QED
      BY <2>6, <3>2, <3>3, Zenon DEF CommitClaim
  <2>7. ASSUME NEW t \in Threads, RunMark(t) PROVE TypeOK'
    <3>1. loc[t] \in Call
      BY <2>7, Zenon DEF RunMark
    <3> QED
      BY <2>7, <3>1 DEF RunMark, SetState, Goto, Abort, Call
  <2>8. ASSUME NEW t \in Threads, RunCache(t) PROVE TypeOK'
    BY <2>8 DEF RunCache, Result, Goto, Abort, Call, CompletedTask
  <2>9. ASSUME NEW t \in Threads, RunLedger(t) PROVE TypeOK'
    BY <2>9 DEF RunLedger, Goto, Abort, Call
  <2>10. ASSUME NEW t \in Threads, RunPersist(t) PROVE TypeOK'
    <3>1. loc[t] \in Call
      BY <2>10, Zenon DEF RunPersist
    <3>2. Result(t) \in CompletedTask
      BY <3>1, Zenon DEF Result, Call, CompletedTask
    <3> QED
      BY <2>10, <3>1, <3>2 DEF RunPersist, Persist, Goto, Abort, Call
  <2>11. ASSUME NEW t \in Threads, RunRelease(t) PROVE TypeOK'
    BY <2>11 DEF RunRelease, SetPending, Deliver, Return, Call
  <2>12. ASSUME NEW i \in TaskIds, NEW r \in Requesters, TaskCancel(i, r) PROVE TypeOK'
    BY <2>12, Zenon DEF TaskCancel, SetPending
  <2>13. ASSUME NEW i \in TaskIds, NEW r \in Requesters, Replay(i, r) PROVE TypeOK'
    BY <2>13 DEF Replay, Deliver, CompletedTask
  <2>14. CASE LocalCapability
    BY <2>14, Zenon DEF LocalCapability, Pruned
  <2>15. CASE Tick
    BY <2>15 DEF Tick
  <2>16. CASE CrashAndOpen
    BY <2>16 DEF CrashAndOpen, Recovered
  <2>17. CASE UNCHANGED vars
    BY <2>17, Zenon DEF vars
  <2> QED
    BY <2>1, <2>2, <2>3, <2>4, <2>5, <2>6, <2>7, <2>8, <2>9, <2>10, <2>11, <2>12, <2>13, <2>14,
       <2>15, <2>16, <2>17, Zenon DEF Next, Receive, ThreadStep
<1> QED
  BY <1>1, <1>2, PTL DEF Spec

\* The part of the types that most steps rely on: which maps are functions.
Shapes ==
    /\ pending \in [TaskIds -> PendingTask \cup {NoTask}]
    /\ completed \in [TaskIds -> CompletedTask \cup {NoTask}]
    /\ taskResult \in [TaskIds -> CompletedTask \cup {NoTask}]
    /\ pc \in [Threads -> Steps]
    /\ loc \in [Threads -> Call \cup {NoCall}]

LEMMA TypesGiveShapes == TypeOK => Shapes
  BY Zenon DEF TypeOK, Shapes

\* A thread inside a handler has a call, which names a task.
LEMMA BusyHasCall ==
    ASSUME TypeOK, NEW t \in Threads, pc[t] # "idle"
    PROVE  loc[t] \in Call /\ loc[t].id \in TaskIds
  BY Zenon DEF TypeOK, Call

-----------------------------------------------------------------------------
(* The number of reservations *)

\* There are finitely many reservations, so they can be counted.
LEMMA ReservedFinite ==
    IsFiniteSet(Reserved) /\ Cardinality(Reserved) \in Nat
  BY ConstantsAssumption, FS_Subset, FS_CardinalityType, Zenon DEF Reserved

\* Only OfferReserve adds a reservation, one at a time and only while a slot is
\* free; every other step keeps or drops reservations.
LEMMA ReservedStep ==
    ASSUME TypeOK, [Next]_vars
    PROVE  \/ Reserved' \subseteq Reserved
           \/ \E i \in TaskIds : SlotFree /\ Reserved' = Reserved \cup {i}
<1> USE TypesGiveShapes DEF Shapes, Reserved
<1>1. ASSUME NEW t \in Threads, Receive(t) PROVE Reserved' \subseteq Reserved
  BY <1>1, Zenon DEF Receive, OfferReceived, CommitReceived
<1>2. ASSUME NEW t \in Threads, OfferCapability(t) PROVE Reserved' \subseteq Reserved
  BY <1>2, Zenon DEF OfferCapability, Pruned
<1>3. ASSUME NEW t \in Threads, OfferReserve(t)
      PROVE  \/ Reserved' \subseteq Reserved
             \/ \E i \in TaskIds : SlotFree /\ Reserved' = Reserved \cup {i}
  <2>1. CASE UNCHANGED pending
    BY <2>1, Zenon
  <2>2. CASE ~UNCHANGED pending
    <3>1. loc[t].id \in TaskIds
      BY <1>3, BusyHasCall, Zenon DEF OfferReserve
    <3>2. SlotFree
      BY <1>3, <2>2, Zenon DEF OfferReserve
    <3>3. pending'[loc[t].id] # NoTask
      BY <1>3, <2>2, <3>1, ConstantsAssumption DEF OfferReserve, SetPending, PendingTask, Call
    <3>4. \A j \in TaskIds : j # loc[t].id => pending'[j] = pending[j]
      BY <1>3, <2>2, <3>1, Zenon DEF OfferReserve, SetPending
    <3> QED
      BY <3>1, <3>2, <3>3, <3>4, Zenon
  <2> QED
    BY <2>1, <2>2, Zenon
<1>4. ASSUME NEW t \in Threads, OfferRecord(t) PROVE Reserved' \subseteq Reserved
  BY <1>4, Zenon DEF OfferRecord
<1>5. ASSUME NEW t \in Threads, CommitClaim(t) PROVE Reserved' \subseteq Reserved
  BY <1>5, Zenon DEF CommitClaim, Claim, StartRun, SetPending
<1>6. ASSUME NEW t \in Threads, RunMark(t) \/ RunCache(t) \/ RunLedger(t) \/ RunPersist(t)
      PROVE Reserved' \subseteq Reserved
  BY <1>6, Zenon DEF RunMark, RunCache, RunLedger, RunPersist
<1>7. ASSUME NEW t \in Threads, RunRelease(t) PROVE Reserved' \subseteq Reserved
  BY <1>7, Zenon DEF RunRelease, SetPending
<1>8. ASSUME NEW i \in TaskIds, NEW r \in Requesters, TaskCancel(i, r) \/ Replay(i, r)
      PROVE Reserved' \subseteq Reserved
  BY <1>8, Zenon DEF TaskCancel, Replay, SetPending
<1>9. CASE LocalCapability \/ Tick \/ CrashAndOpen
  BY <1>9, Zenon DEF LocalCapability, Pruned, Tick, CrashAndOpen
<1>10. CASE UNCHANGED vars
  BY <1>10, Zenon DEF vars
<1> HIDE TypesGiveShapes DEF Shapes, Reserved
<1> QED
  BY <1>1, <1>2, <1>3, <1>4, <1>5, <1>6, <1>7, <1>8, <1>9, <1>10, Zenon DEF Next, ThreadStep

\* The reservation bound is inductive given the types.
LEMMA SlotBoundStep ==
    ASSUME TypeOK, SlotBound, [Next]_vars
    PROVE  SlotBound'
<1>1. CASE Reserved' \subseteq Reserved
  <2>1. Cardinality(Reserved') <= Cardinality(Reserved)
    BY <1>1, ReservedFinite, FS_Subset, Zenon
  <2>2. Cardinality(Reserved') \in Nat
    BY <1>1, ReservedFinite, FS_Subset, FS_CardinalityType, Zenon
  <2> QED
    BY <2>1, <2>2, ReservedFinite, ConstantsAssumption DEF SlotBound
<1>2. ASSUME NEW i \in TaskIds, SlotFree, Reserved' = Reserved \cup {i} PROVE SlotBound'
  <2>1. Cardinality(Reserved \cup {i}) <= Cardinality(Reserved) + 1
    BY ReservedFinite, FS_AddElement
  <2>2. Cardinality(Reserved \cup {i}) \in Nat
    BY ReservedFinite, FS_AddElement, FS_CardinalityType, Zenon
  <2> QED
    BY <1>2, <2>1, <2>2, ReservedFinite, ConstantsAssumption DEF SlotBound, SlotFree
<1> QED
  BY <1>1, <1>2, ReservedStep, Zenon

\* However the handlers interleave, accept_offer never reserves more than
\* MAX_CONCURRENT_TASKS tasks.
THEOREM SlotsAreBounded == Spec => []SlotBound
<1>1. Init => SlotBound
  BY ConstantsAssumption, FS_EmptySet DEF Init, SlotBound, Reserved
<1>2. TypeOK /\ SlotBound /\ [Next]_vars => SlotBound'
  BY SlotBoundStep, Zenon
<1> QED
  BY <1>1, <1>2, TypeCorrect, PTL DEF Spec

-----------------------------------------------------------------------------
(* Exclusive execution within the lease *)

\* What holds as long as no run has outlived its lease: a run still owns the
\* reservation it claimed, that reservation is not expired (so no retried
\* commit takes it away), and runs are of different tasks.
Timely ==
    overran = {} =>
        /\ \A t \in Threads : Executing(t) => Owns(t) /\ Unexpired(loc[t], clock)
        /\ \A t, u \in Threads :
             Executing(t) /\ Executing(u) /\ loc[t].id = loc[u].id => t = u

\* Only a restart makes an executor timely again.
LEMMA OverranStep ==
    ASSUME [Next]_vars
    PROVE  overran' # {} \/ overran = {} \/ CrashAndOpen
<1>1. ASSUME NEW t \in Threads, Receive(t) PROVE overran' = overran
  BY <1>1, Zenon DEF Receive, OfferReceived, CommitReceived
<1>2. ASSUME NEW t \in Threads,
             OfferCapability(t) \/ OfferReserve(t) \/ OfferRecord(t) \/ CommitClaim(t)
      PROVE  overran' = overran
  BY <1>2, Zenon DEF OfferCapability, OfferReserve, OfferRecord, CommitClaim
<1>3. ASSUME NEW t \in Threads,
             RunMark(t) \/ RunCache(t) \/ RunLedger(t) \/ RunPersist(t) \/ RunRelease(t)
      PROVE  overran' = overran
  BY <1>3, Zenon DEF RunMark, RunCache, RunLedger, RunPersist, RunRelease
<1>4. ASSUME NEW i \in TaskIds, NEW r \in Requesters, TaskCancel(i, r) \/ Replay(i, r)
      PROVE  overran' = overran
  BY <1>4, Zenon DEF TaskCancel, Replay
<1>5. CASE LocalCapability \/ UNCHANGED vars
  BY <1>5, Zenon DEF LocalCapability, vars
<1>6. CASE Tick
  BY <1>6, Zenon DEF Tick
<1> QED
  BY <1>1, <1>2, <1>3, <1>4, <1>5, <1>6, Zenon DEF Next, ThreadStep

\* A step that starts no run and touches neither the clock nor the reservations
\* of the runs there are.
LEMMA TimelyKept ==
    ASSUME Timely, overran = {}, clock' = clock,
           \A t \in Threads : Executing(t)' => Executing(t) /\ loc'[t] = loc[t],
           \A t \in Threads : Executing(t)' => pending'[loc[t].id] = pending[loc[t].id]
    PROVE  Timely'
  BY DEF Timely, Owns, Unexpired

\* Timely is inductive given the types.
LEMMA TimelyInductive ==
    ASSUME TypeOK, Timely, [Next]_vars
    PROVE  Timely'
<1> SUFFICES ASSUME overran' = {} PROVE Timely'
  BY Zenon DEF Timely
<1>0. overran = {} \/ CrashAndOpen
  BY OverranStep, Zenon
<1>1. CASE CrashAndOpen
  BY <1>1, Zenon DEF CrashAndOpen, Timely, Executing, RunSteps
<1> SUFFICES ASSUME overran = {} PROVE Timely'
  BY <1>0, <1>1, Zenon
<1> USE TypesGiveShapes DEF Shapes, Executing, RunSteps
<1>a. \A u \in Threads : Executing(u) => loc[u] \in Call /\ loc[u].id \in TaskIds
  BY BusyHasCall, Zenon
<1>b. \A u \in Threads : Executing(u) => Owns(u) /\ Unexpired(loc[u], clock)
  BY Zenon DEF Timely
<1>c. \A u \in Threads : Executing(u) =>
          /\ pending[loc[u].id] # NoTask
          /\ pending[loc[u].id].phase = "running"
          /\ Unexpired(pending[loc[u].id], clock)
  BY <1>b, Zenon DEF Owns, Unexpired
<1>k. ASSUME clock' = clock,
             \A u \in Threads : Executing(u)' => Executing(u) /\ loc'[u] = loc[u],
             \A u \in Threads : Executing(u)' => pending'[loc[u].id] = pending[loc[u].id]
      PROVE  Timely'
  <2> HIDE TypesGiveShapes DEF Shapes, Executing, RunSteps
  <2> QED
    BY <1>k, TimelyKept, Zenon
<1>2. ASSUME NEW t \in Threads, Receive(t) PROVE Timely'
  <2>1. clock' = clock /\ pending' = pending
    BY <1>2, Zenon DEF Receive, OfferReceived, CommitReceived
  <2>2. \A u \in Threads : Executing(u)' => Executing(u) /\ loc'[u] = loc[u]
    BY <1>2 DEF Receive, OfferReceived, CommitReceived
  <2> QED
    BY <1>k, <2>1, <2>2, Zenon
<1>3. ASSUME NEW t \in Threads, OfferCapability(t) PROVE Timely'
  <2>1. \A u \in Threads : Executing(u)' => Executing(u) /\ loc'[u] = loc[u]
    BY <1>3, Zenon DEF OfferCapability
  <2>2. \A u \in Threads : Executing(u) => pending'[loc[u].id] = pending[loc[u].id]
    BY <1>3, <1>a, <1>c, Zenon DEF OfferCapability, Pruned
  <2>3. clock' = clock
    BY <1>3, Zenon DEF OfferCapability
  <2> QED
    BY <1>k, <2>1, <2>2, <2>3, Zenon
<1>4. ASSUME NEW t \in Threads, OfferReserve(t) PROVE Timely'
  <2>1. loc[t] \in Call /\ loc[t].id \in TaskIds
    BY <1>4, BusyHasCall, Zenon DEF OfferReserve
  <2>2. \A u \in Threads : Executing(u)' => Executing(u) /\ loc'[u] = loc[u]
    BY <1>4, Zenon DEF OfferReserve, Goto, Return
  <2>3. \A u \in Threads : Executing(u) => pending'[loc[u].id] = pending[loc[u].id]
    BY <1>4, <1>a, <1>c, <2>1, Zenon DEF OfferReserve, SetPending
  <2>4. clock' = clock
    BY <1>4, Zenon DEF OfferReserve
  <2> QED
    BY <1>k, <2>2, <2>3, <2>4, Zenon
<1>5. ASSUME NEW t \in Threads, OfferRecord(t) PROVE Timely'
  <2>1. clock' = clock /\ pending' = pending
    BY <1>5, Zenon DEF OfferRecord
  <2>2. \A u \in Threads : Executing(u)' => Executing(u) /\ loc'[u] = loc[u]
    BY <1>5, Zenon DEF OfferRecord, Return
  <2> QED
    BY <1>k, <2>1, <2>2, Zenon
<1>6. ASSUME NEW t \in Threads, CommitClaim(t) PROVE Timely'
  <2> DEFINE i == loc[t].id
  <2>0. clock' = clock
    BY <1>6, Zenon DEF CommitClaim
  <2>1. loc[t] \in Call /\ i \in TaskIds
    BY <1>6, BusyHasCall, Zenon DEF CommitClaim
  <2>2. CASE Return(t) /\ UNCHANGED pending
    <3>1. \A u \in Threads : Executing(u)' => Executing(u) /\ loc'[u] = loc[u]
      BY <2>2, Zenon DEF Return
    <3> QED
      BY <1>k, <2>0, <2>2, <3>1, Zenon
  <2>3. CASE Return(t) /\ SetPending(i, NoTask) /\ ~Unexpired(pending[i], clock)
    <3>1. \A u \in Threads : Executing(u) => loc[u].id # i
      BY <1>c, <2>3, Zenon
    <3>2. \A u \in Threads : Executing(u)' => Executing(u) /\ loc'[u] = loc[u]
      BY <2>3, Zenon DEF Return
    <3>3. \A u \in Threads : Executing(u) => pending'[loc[u].id] = pending[loc[u].id]
      BY <1>a, <2>1, <2>3, <3>1, Zenon DEF SetPending
    <3> QED
      BY <1>k, <2>0, <3>2, <3>3, Zenon
  <2>4. CASE /\ Claim(t) /\ pending[i] # NoTask /\ Unexpired(pending[i], clock)
             /\ pending[i].requester = loc[t].requester
    <3>1. \A u \in Threads : Executing(u) => loc[u].id # i
      BY <1>c, <2>4, Zenon DEF Claim
    <3>2. \A u \in Threads : u # t => loc'[u] = loc[u] /\ (Executing(u)' <=> Executing(u))
      BY <2>4, Zenon DEF Claim, StartRun
    <3>3. \A u \in Threads : u # t /\ Executing(u) => pending'[loc[u].id] = pending[loc[u].id]
      BY <1>a, <2>1, <2>4, <3>1, Zenon DEF Claim, StartRun, SetPending
    <3>4. pending[i] \in PendingTask
      BY <2>1, <2>4, Zenon
    <3>5. /\ loc'[t].id = i /\ loc'[t].requester = loc[t].requester
          /\ loc'[t].lease = pending[i].lease /\ loc'[t].deadline = pending[i].deadline
      BY <2>1, <2>4, Zenon DEF Claim, StartRun, Call
    <3>6. /\ pending'[i] # NoTask /\ pending'[i].phase = "running"
          /\ pending'[i].requester = pending[i].requester
          /\ pending'[i].lease = pending[i].lease
          /\ pending'[i].deadline = pending[i].deadline
      <4>1. pending'[i] = [pending[i] EXCEPT !.phase = "running"]
        BY <2>1, <2>4, Zenon DEF Claim, StartRun, SetPending
      <4>2. pending'[i] \in PendingTask
        BY <3>4, <4>1, Zenon DEF PendingTask
      <4> QED
        BY <3>4, <4>1, <4>2, ConstantsAssumption, Zenon DEF PendingTask
    <3>7. Executing(t)' => Owns(t)' /\ Unexpired(loc[t], clock)'
      BY <2>0, <2>4, <3>5, <3>6, Zenon DEF Owns, Unexpired
    <3>8. \A u \in Threads : u # t /\ Executing(u)' => Owns(u)' /\ Unexpired(loc[u], clock)'
      BY <1>b, <2>0, <3>2, <3>3 DEF Owns
    <3>9. \A u, v \in Threads :
              Executing(u)' /\ Executing(v)' /\ loc'[u].id = loc'[v].id => u = v
      <4> HIDE TypesGiveShapes DEF Shapes, Executing, RunSteps
      <4> QED
        BY <3>1, <3>2, <3>5, Zenon DEF Timely
    <3> HIDE TypesGiveShapes DEF Shapes, Executing, RunSteps
    <3> QED
      BY <3>7, <3>8, <3>9, Zenon DEF Timely
  <2> QED
    BY <1>6, <2>2, <2>3, <2>4, Zenon DEF CommitClaim
<1>7. ASSUME NEW t \in Threads, RunMark(t) \/ RunCache(t) \/ RunLedger(t) \/ RunPersist(t)
      PROVE Timely'
  <2>1. clock' = clock /\ pending' = pending /\ loc' = loc
    BY <1>7, Zenon DEF RunMark, RunCache, RunLedger, RunPersist, Goto, Abort
  <2>2. \A u \in Threads : Executing(u)' => Executing(u)
    BY <1>7, Zenon DEF RunMark, RunCache, RunLedger, RunPersist, Goto, Abort
  <2> QED
    BY <1>k, <2>1, <2>2, Zenon
<1>8. ASSUME NEW t \in Threads, RunRelease(t) PROVE Timely'
  <2>1. clock' = clock /\ Executing(t) /\ ~Executing(t)'
    BY <1>8, Zenon DEF RunRelease, Return
  <2>2. \A u \in Threads : Executing(u)' => u # t /\ Executing(u) /\ loc'[u] = loc[u]
    BY <1>8, Zenon DEF RunRelease, Return
  <2>3. \A u \in Threads : u # t /\ Executing(u) => loc[u].id # loc[t].id
    BY <2>1, Zenon DEF Timely
  <2>4. \A u \in Threads : Executing(u)' => pending'[loc[u].id] = pending[loc[u].id]
    BY <1>8, <1>a, <2>2, <2>3, Zenon DEF RunRelease, SetPending
  <2> QED
    BY <1>k, <2>1, <2>2, <2>4, Zenon
<1>9. ASSUME NEW i \in TaskIds, NEW r \in Requesters, TaskCancel(i, r) \/ Replay(i, r)
      PROVE Timely'
  <2>1. UNCHANGED <<clock, pc, loc>>
    BY <1>9, Zenon DEF TaskCancel, Replay
  <2>2. \A u \in Threads : Executing(u) => pending'[loc[u].id] = pending[loc[u].id]
    BY <1>9, <1>a, <1>c, Zenon DEF TaskCancel, MayCancel, Replay, SetPending
  <2> QED
    BY <1>k, <2>1, <2>2, Zenon
<1>10. CASE LocalCapability
  <2>1. UNCHANGED <<clock, pc, loc>>
    BY <1>10, Zenon DEF LocalCapability
  <2>2. \A u \in Threads : Executing(u) => pending'[loc[u].id] = pending[loc[u].id]
    BY <1>10, <1>a, <1>c, Zenon DEF LocalCapability, Pruned
  <2> QED
    BY <1>k, <2>1, <2>2, Zenon
<1>11. CASE Tick
  BY <1>11, Zenon DEF Tick, Timely, Owns
<1>12. CASE UNCHANGED vars
  BY <1>12, Zenon DEF vars, Timely, Owns
<1> HIDE TypesGiveShapes DEF Shapes, Executing, RunSteps
<1> QED
  BY <1>1, <1>2, <1>3, <1>4, <1>5, <1>6, <1>7, <1>8, <1>9, <1>10, <1>11, <1>12, Zenon DEF Next,
     ThreadStep

\* Timely is an invariant of the executor.
LEMMA TimelyInvariant == Spec => []Timely
<1>1. Init => Timely
  BY Zenon DEF Init, Timely, Executing, RunSteps
<1>2. TypeOK /\ Timely /\ [Next]_vars => Timely'
  BY TimelyInductive, Zenon
<1> QED
  BY <1>1, <1>2, TypeCorrect, PTL DEF Spec

\* Runs of different tasks, each with a reservation of its own: no more runs
\* than reservations.
LEMMA RunsHoldReservations ==
    ASSUME TypeOK, SlotBound, Timely
    PROVE  ExclusiveWithinLease
<1> SUFFICES ASSUME overran = {} PROVE ExclusiveWithinLease
  BY Zenon DEF ExclusiveWithinLease
<1> DEFINE E == {t \in Threads : Executing(t)}
           f == [t \in E |-> loc[t].id]
<1>1. \A t \in E : loc[t].id \in Reserved
  BY Zenon DEF Timely, Owns, Reserved, TypeOK, Executing, RunSteps, Call
<1>2. \A t, u \in E : loc[t].id = loc[u].id => t = u
  BY Zenon DEF Timely
<1>3. f \in Injection(E, Reserved)
  <2>1. f \in [E -> Reserved]
    BY <1>1, Zenon
  <2>2. \A a, b \in DOMAIN f : f[a] = f[b] => a = b
    BY <1>2, Zenon
  <2> QED
    BY <2>1, <2>2, Zenon DEF Injection, IsInjective
<1>4. Cardinality(E) <= Cardinality(Reserved)
  BY <1>3, ReservedFinite, FS_Injection, Zenon
<1>5. Cardinality(E) \in Nat
  BY <1>3, ReservedFinite, FS_Injection, FS_CardinalityType, Zenon
<1>6. Cardinality(E) <= MaxSlots
  BY <1>4, <1>5, ReservedFinite, ConstantsAssumption DEF SlotBound
<1> QED
  BY <1>6, Zenon DEF ExclusiveWithinLease, Timely

\* As long as no run outlives its lease, at most MAX_CONCURRENT_TASKS tasks are
\* executed at a time, no task twice at once, each under its own reservation.
THEOREM ExclusiveExecution == Spec => []ExclusiveWithinLease
<1>1. TypeOK /\ SlotBound /\ Timely => ExclusiveWithinLease
  BY RunsHoldReservations, Zenon
<1> QED
  BY <1>1, TypeCorrect, SlotsAreBounded, TimelyInvariant, PTL

-----------------------------------------------------------------------------
(* The ledger is written before the database *)

\* A run about to write its row has its event in the ledger.
Durable ==
    /\ DurableIsLedgered
    /\ \A t \in Threads :
         pc[t] = "run_persist" => [id |-> loc[t].id, run |-> loc[t].run] \in ledger

\* Every result that open() can read back from the database is a TaskCompleted
\* event of the ledger, at every instant of every crash and failure.
THEOREM DurableResultsAreLedgered == Spec => []DurableIsLedgered
<1>1. Init => Durable
  BY Zenon DEF Init, Durable, DurableIsLedgered
<1>2. TypeOK /\ Durable /\ [Next]_vars => Durable'
  <2> SUFFICES ASSUME TypeOK, Durable, [Next]_vars PROVE Durable'
    BY Zenon
  <2> USE TypesGiveShapes DEF Shapes, Durable, DurableIsLedgered
  <2>1. ASSUME NEW t \in Threads, Receive(t) PROVE Durable'
    BY <2>1 DEF Receive, OfferReceived, CommitReceived
  <2>2. ASSUME NEW t \in Threads, OfferCapability(t) PROVE Durable'
    BY <2>2, Zenon DEF OfferCapability
  <2>3. ASSUME NEW t \in Threads, OfferReserve(t) PROVE Durable'
    BY <2>3, Zenon DEF OfferReserve, Goto, Return
  <2>4. ASSUME NEW t \in Threads, OfferRecord(t) PROVE Durable'
    BY <2>4, Zenon DEF OfferRecord, SetState, Return
  <2>5. ASSUME NEW t \in Threads, CommitClaim(t) PROVE Durable'
    BY <2>5, Zenon DEF CommitClaim, Claim, StartRun, Return
  <2>6. ASSUME NEW t \in Threads, RunMark(t) \/ RunCache(t) PROVE Durable'
    BY <2>6, Zenon DEF RunMark, RunCache, SetState, Goto, Abort
  <2>7. ASSUME NEW t \in Threads, RunLedger(t) PROVE Durable'
    BY <2>7, Zenon DEF RunLedger, Goto, Abort
  <2>8. ASSUME NEW t \in Threads, RunPersist(t) PROVE Durable'
    <3>1. loc[t] \in Call
      BY <2>8, BusyHasCall, Zenon DEF RunPersist
    <3>2. ledger' = ledger /\ loc' = loc
      BY <2>8, Zenon DEF RunPersist, Goto, Abort
    <3>3. \A u \in Threads : pc'[u] = "run_persist" => pc[u] = "run_persist"
      BY <2>8, Zenon DEF RunPersist, Goto, Abort
    <3>4. \A i \in TaskIds :
            \/ taskResult'[i] = taskResult[i]
            \/ i = loc[t].id /\ taskResult'[i] = Result(t)
      <4>1. taskResult' = taskResult \/ taskResult' = [taskResult EXCEPT ![loc[t].id] = Result(t)]
        BY <2>8, Zenon DEF RunPersist, Persist
      <4> QED
        BY <4>1, Zenon
    <3>5. Result(t).run = loc[t].run /\ [id |-> loc[t].id, run |-> loc[t].run] \in ledger
      BY <2>8, Zenon DEF RunPersist, Result
    <3> QED
      BY <3>2, <3>3, <3>4, <3>5, Zenon
  <2>9. ASSUME NEW t \in Threads, RunRelease(t) PROVE Durable'
    BY <2>9, Zenon DEF RunRelease, Return
  <2>10. ASSUME NEW i \in TaskIds, NEW r \in Requesters, TaskCancel(i, r) \/ Replay(i, r)
         PROVE Durable'
    BY <2>10, Zenon DEF TaskCancel, Replay
  <2>11. CASE LocalCapability \/ Tick \/ CrashAndOpen \/ UNCHANGED vars
    BY <2>11, Zenon DEF LocalCapability, Tick, CrashAndOpen, vars
  <2> HIDE TypesGiveShapes DEF Shapes, Durable, DurableIsLedgered
  <2> QED
    BY <2>1, <2>2, <2>3, <2>4, <2>5, <2>6, <2>7, <2>8, <2>9, <2>10, <2>11, Zenon DEF Next,
       ThreadStep
<1>3. Durable => DurableIsLedgered
  BY Zenon DEF Durable
<1> QED
  BY <1>1, <1>2, <1>3, TypeCorrect, PTL DEF Spec

-----------------------------------------------------------------------------
(* Results go to the requester whose reservation was executed *)

\* The executions started so far, each with the requester it was started for.
Started == {[run |-> c.run, to |-> c.requester] : c \in claims}

\* Every copy of a result (being computed, cached, stored, sent) carries the
\* requester that its execution was started for.
Owned ==
    /\ \A t \in Threads :
         Executing(t) => [run |-> loc[t].run, to |-> loc[t].requester] \in Started
    /\ \A i \in TaskIds : completed[i] # NoTask =>
         [run |-> completed[i].run, to |-> completed[i].requester] \in Started
    /\ \A i \in TaskIds : taskResult[i] # NoTask =>
         [run |-> taskResult[i].run, to |-> taskResult[i].requester] \in Started
    /\ delivered \subseteq Started

\* A step that makes no new copy of a result and forgets no execution.
LEMMA OwnedKept ==
    ASSUME Owned, UNCHANGED <<completed, taskResult, delivered, claims>>,
           \A t \in Threads : Executing(t)' => Executing(t) /\ loc'[t] = loc[t]
    PROVE  Owned'
<1>1. Started' = Started
  BY Zenon DEF Started
<1> QED
  BY <1>1, Zenon DEF Owned

\* An execution is claimed by its thread: what it computes is owned from then on.
LEMMA OwnedClaim ==
    ASSUME TypeOK, Owned, NEW t \in Threads, CommitClaim(t), Claim(t),
           pending[loc[t].id].requester = loc[t].requester
    PROVE  Owned'
<1> DEFINE c == [run |-> loc[t].run, id |-> loc[t].id,
                 requester |-> pending[loc[t].id].requester,
                 deadline |-> pending[loc[t].id].deadline]
<1>1. UNCHANGED <<completed, taskResult, delivered>>
  BY Zenon DEF CommitClaim
<1>2. claims' = claims \cup {c}
  BY Zenon DEF Claim, StartRun
<1>3. Started \subseteq Started' /\ [run |-> loc[t].run, to |-> loc[t].requester] \in Started'
  <2>1. c \in claims' /\ c.run = loc[t].run /\ c.requester = loc[t].requester
    BY <1>2, Zenon
  <2> HIDE DEF c
  <2>2. [run |-> c.run, to |-> c.requester] \in Started' /\ Started \subseteq Started'
    BY <1>2, <2>1, Zenon DEF Started
  <2> QED
    BY <2>1, <2>2, Zenon
<1>4. loc[t] \in Call
  BY BusyHasCall, Zenon DEF CommitClaim
<1>5. loc'[t].run = loc[t].run /\ loc'[t].requester = loc[t].requester
  BY <1>4, TypesGiveShapes, Zenon DEF Claim, StartRun, Call, Shapes
<1>6. \A u \in Threads : u # t => loc'[u] = loc[u] /\ pc'[u] = pc[u]
  BY TypesGiveShapes, Zenon DEF Claim, StartRun, Shapes
<1>7. \A u \in Threads :
          Executing(u)' => [run |-> loc'[u].run, to |-> loc'[u].requester] \in Started'
  BY <1>3, <1>5, <1>6, Zenon DEF Owned, Executing
<1> HIDE DEF c
<1> QED
  BY <1>1, <1>3, <1>7, Zenon DEF Owned

\* No other node can steal a commit: a result is only ever sent to the requester
\* that reserved the execution which produced it.
THEOREM ResultsAreOwned == Spec => []ResultsGoToOwner
<1>1. Init => Owned
  BY Zenon DEF Init, Owned, Executing, RunSteps
<1>2. TypeOK /\ Owned /\ [Next]_vars => Owned'
  <2> SUFFICES ASSUME TypeOK, Owned, [Next]_vars PROVE Owned'
    BY Zenon
  <2> USE TypesGiveShapes DEF Shapes, Executing, RunSteps
  <2>k. ASSUME UNCHANGED <<completed, taskResult, delivered, claims>>,
               \A u \in Threads : Executing(u)' => Executing(u) /\ loc'[u] = loc[u]
        PROVE  Owned'
    <3> HIDE TypesGiveShapes DEF Shapes, Executing, RunSteps
    <3> QED
      BY <2>k, OwnedKept, Zenon
  <2>s. ASSUME claims' = claims PROVE Started' = Started
    BY <2>s, Zenon DEF Started
  <2>1. ASSUME NEW t \in Threads, Receive(t) PROVE Owned'
    <3>1. /\ pc'[t] \in {"offer_capability", "commit_claim"}
          /\ \A u \in Threads : u # t => pc'[u] = pc[u] /\ loc'[u] = loc[u]
      BY <2>1, Zenon DEF Receive, OfferReceived, CommitReceived
    <3>2. UNCHANGED <<completed, taskResult, delivered, claims>>
      BY <2>1, Zenon DEF Receive, OfferReceived, CommitReceived
    <3> QED
      BY <2>k, <3>1, <3>2, Zenon
  <2>2. ASSUME NEW t \in Threads, OfferCapability(t) PROVE Owned'
    <3>1. \A u \in Threads : Executing(u)' => Executing(u) /\ loc'[u] = loc[u]
      BY <2>2, Zenon DEF OfferCapability
    <3>2. UNCHANGED <<completed, taskResult, delivered, claims>>
      BY <2>2, Zenon DEF OfferCapability
    <3> QED
      BY <2>k, <3>1, <3>2, Zenon
  <2>3. ASSUME NEW t \in Threads, OfferReserve(t) PROVE Owned'
    <3>1. \A u \in Threads : Executing(u)' => Executing(u) /\ loc'[u] = loc[u]
      BY <2>3, Zenon DEF OfferReserve, Goto, Return
    <3>2. UNCHANGED <<completed, taskResult, delivered, claims>>
      BY <2>3, Zenon DEF OfferReserve
    <3> QED
      BY <2>k, <3>1, <3>2, Zenon
  <2>4. ASSUME NEW t \in Threads, OfferRecord(t) PROVE Owned'
    <3>1. \A u \in Threads : Executing(u)' => Executing(u) /\ loc'[u] = loc[u]
      BY <2>4, Zenon DEF OfferRecord, Return
    <3>2. UNCHANGED <<completed, taskResult, delivered, claims>>
      BY <2>4, Zenon DEF OfferRecord, SetState
    <3> QED
      BY <2>k, <3>1, <3>2, Zenon
  <2>5. ASSUME NEW t \in Threads, CommitClaim(t) PROVE Owned'
    <3>1. UNCHANGED <<completed, taskResult, delivered>>
      BY <2>5, Zenon DEF CommitClaim
    <3>2. CASE Return(t) /\ UNCHANGED claims
      <4>1. \A u \in Threads : Executing(u)' => Executing(u) /\ loc'[u] = loc[u]
        BY <3>2, Zenon DEF Return
      <4> QED
        BY <2>k, <3>1, <3>2, <4>1, Zenon
    <3>3. CASE Claim(t) /\ pending[loc[t].id].requester = loc[t].requester
      BY <2>5, <3>3, OwnedClaim, Zenon
    <3> QED
      BY <2>5, <3>2, <3>3, Zenon DEF CommitClaim
  <2>6. ASSUME NEW t \in Threads, RunMark(t) \/ RunLedger(t) PROVE Owned'
    <3>1. \A u \in Threads : Executing(u)' => Executing(u) /\ loc'[u] = loc[u]
      BY <2>6, Zenon DEF RunMark, RunLedger, Goto, Abort
    <3>2. UNCHANGED <<completed, taskResult, delivered, claims>>
      BY <2>6, Zenon DEF RunMark, RunLedger, SetState
    <3> QED
      BY <2>k, <3>1, <3>2, Zenon
  <2>7. ASSUME NEW t \in Threads, RunCache(t) PROVE Owned'
    <3>1. /\ UNCHANGED <<taskResult, claims, delivered, loc>>
          /\ Executing(t) /\ \A u \in Threads : Executing(u)' => Executing(u)
      BY <2>7, Zenon DEF RunCache, Goto, Abort
    <3>2. \A i \in TaskIds : completed'[i] = completed[i] \/ completed'[i] = Result(t)
      BY <2>7, Zenon DEF RunCache
    <3>3. [run |-> Result(t).run, to |-> Result(t).requester] \in Started
      BY <3>1, Zenon DEF Result, Owned
    <3> HIDE TypesGiveShapes DEF Shapes, Executing, RunSteps
    <3> QED
      BY <2>s, <3>1, <3>2, <3>3, Zenon DEF Owned
  <2>8. ASSUME NEW t \in Threads, RunPersist(t) PROVE Owned'
    <3>1. /\ UNCHANGED <<completed, claims, delivered, loc>>
          /\ Executing(t) /\ \A u \in Threads : Executing(u)' => Executing(u)
      BY <2>8, Zenon DEF RunPersist, Goto, Abort
    <3>2. \A i \in TaskIds : taskResult'[i] = taskResult[i] \/ taskResult'[i] = Result(t)
      BY <2>8, Zenon DEF RunPersist, Persist
    <3>3. [run |-> Result(t).run, to |-> Result(t).requester] \in Started
      BY <3>1, Zenon DEF Result, Owned
    <3> HIDE TypesGiveShapes DEF Shapes, Executing, RunSteps
    <3> QED
      BY <2>s, <3>1, <3>2, <3>3, Zenon DEF Owned
  <2>9. ASSUME NEW t \in Threads, RunRelease(t) PROVE Owned'
    <3>1. /\ UNCHANGED <<completed, taskResult, claims>>
          /\ delivered' \subseteq
               delivered \cup {[run |-> loc[t].run, to |-> loc[t].requester]}
      BY <2>9, Zenon DEF RunRelease, Deliver
    <3>2. /\ Executing(t)
          /\ \A u \in Threads : Executing(u)' => Executing(u) /\ loc'[u] = loc[u]
      BY <2>9, Zenon DEF RunRelease, Return
    <3> HIDE TypesGiveShapes DEF Shapes, Executing, RunSteps
    <3>3. delivered' \subseteq Started
      BY <3>1, <3>2, Zenon DEF Owned
    <3> QED
      BY <2>s, <3>1, <3>2, <3>3, Zenon DEF Owned
  <2>10. ASSUME NEW i \in TaskIds, NEW r \in Requesters, TaskCancel(i, r) PROVE Owned'
    BY <2>k, <2>10, Zenon DEF TaskCancel
  <2>11. ASSUME NEW i \in TaskIds, NEW r \in Requesters, Replay(i, r) PROVE Owned'
    <3>1. /\ UNCHANGED <<completed, taskResult, claims, pc, loc>>
          /\ completed[i] # NoTask /\ completed[i].requester = r
          /\ delivered' = delivered \cup {[run |-> completed[i].run, to |-> r]}
      BY <2>11, Zenon DEF Replay, Deliver
    <3>2. delivered' \subseteq Started
      BY <3>1, Zenon DEF Owned
    <3> QED
      BY <2>s, <3>1, <3>2, Zenon DEF Owned
  <2>12. CASE LocalCapability \/ Tick \/ UNCHANGED vars
    <3>1. UNCHANGED <<completed, taskResult, delivered, claims, pc, loc>>
      BY <2>12, Zenon DEF LocalCapability, Tick, vars
    <3> QED
      BY <2>k, <3>1, Zenon
  <2>13. CASE CrashAndOpen
    <3>1. /\ UNCHANGED <<taskResult, claims, delivered>>
          /\ \A u \in Threads : ~Executing(u)'
      BY <2>13, Zenon DEF CrashAndOpen
    <3>2. \A i \in TaskIds : completed'[i] # NoTask => completed'[i] = taskResult[i]
      BY <2>13, Zenon DEF CrashAndOpen, Recovered
    <3> HIDE TypesGiveShapes DEF Shapes, Executing, RunSteps
    <3> QED
      BY <2>s, <3>1, <3>2, Zenon DEF Owned
  <2> HIDE TypesGiveShapes DEF Shapes, Executing, RunSteps
  <2> QED
    BY <2>1, <2>2, <2>3, <2>4, <2>5, <2>6, <2>7, <2>8, <2>9, <2>10, <2>11, <2>12, <2>13, Zenon DEF
       Next, ThreadStep
<1>3. Owned => ResultsGoToOwner
  <2> SUFFICES ASSUME Owned, NEW d \in delivered
               PROVE  \E c \in claims : c.run = d.run /\ c.requester = d.to
    BY Zenon DEF ResultsGoToOwner
  <2>1. PICK c \in claims : d = [run |-> c.run, to |-> c.requester]
    BY Zenon DEF Owned, Started
  <2> QED
    BY <2>1, Zenon
<1> QED
  BY <1>1, <1>2, <1>3, TypeCorrect, PTL DEF Spec

-----------------------------------------------------------------------------
(* Live reservations are kept *)

\* An accepted offer can be relied on until its lease ends: no step of any other
\* call takes the reservation away, as long as no run has outlived its lease.
THEOREM ReservationsAreKept == Spec => LiveReservationKept
<1>1. TypeOK /\ Timely /\ [Next]_vars => [KeepsLiveReservations]_vars
  <2> SUFFICES ASSUME TypeOK, Timely, Next, NEW i \in TaskIds, overran = {},
                      pending[i] # NoTask, pending[i].phase # "running",
                      Unexpired(pending[i], clock), pending'[i] = NoTask
               PROVE  TaskCancel(i, pending[i].requester) \/ CrashAndOpen
    BY Zenon DEF KeepsLiveReservations
  <2> USE TypesGiveShapes DEF Shapes
  <2>1. ASSUME NEW t \in Threads, Receive(t) PROVE FALSE
    BY <2>1, Zenon DEF Receive, OfferReceived, CommitReceived
  <2>2. ASSUME NEW t \in Threads, OfferCapability(t) PROVE FALSE
    BY <2>2, Zenon DEF OfferCapability, Pruned
  <2>3. ASSUME NEW t \in Threads, OfferReserve(t) PROVE FALSE
    BY <2>3, Zenon DEF OfferReserve, SetPending, Call
  <2>4. ASSUME NEW t \in Threads, OfferRecord(t) PROVE FALSE
    BY <2>4, Zenon DEF OfferRecord
  <2>5. ASSUME NEW t \in Threads, CommitClaim(t) PROVE FALSE
    <3>1. loc[t].id \in TaskIds
      BY <2>5, BusyHasCall, Zenon DEF CommitClaim
    <3>2. CASE UNCHANGED pending
      BY <3>2, Zenon
    <3>3. CASE SetPending(loc[t].id, NoTask) /\ ~Unexpired(pending[loc[t].id], clock)
      BY <3>1, <3>3, Zenon DEF SetPending
    <3>4. CASE Claim(t) /\ pending[loc[t].id] # NoTask
      <4>1. [pending[loc[t].id] EXCEPT !.phase = "running"] \in PendingTask
        BY <3>1, <3>4 DEF PendingTask
      <4> QED
        BY <3>1, <3>4, <4>1, ConstantsAssumption, Zenon DEF Claim, StartRun, SetPending
    <3> QED
      BY <2>5, <3>2, <3>3, <3>4, Zenon DEF CommitClaim
  <2>6. ASSUME NEW t \in Threads, RunMark(t) \/ RunCache(t) \/ RunLedger(t) \/ RunPersist(t)
        PROVE FALSE
    BY <2>6, Zenon DEF RunMark, RunCache, RunLedger, RunPersist
  <2>7. ASSUME NEW t \in Threads, RunRelease(t) PROVE FALSE
    BY <2>7, Zenon DEF RunRelease, SetPending, Timely, Owns, Executing, RunSteps, Call
  <2>8. ASSUME NEW j \in TaskIds, NEW r \in Requesters, TaskCancel(j, r)
        PROVE  TaskCancel(i, pending[i].requester)
    BY <2>8, Zenon DEF TaskCancel, MayCancel, SetPending
  <2>9. ASSUME NEW j \in TaskIds, NEW r \in Requesters, Replay(j, r) PROVE FALSE
    BY <2>9, Zenon DEF Replay
  <2>10. CASE LocalCapability
    BY <2>10, Zenon DEF LocalCapability, Pruned
  <2>11. CASE Tick
    BY <2>11, Zenon DEF Tick
  <2> QED
    BY <2>1, <2>2, <2>3, <2>4, <2>5, <2>6, <2>7, <2>8, <2>9, <2>10, <2>11, Zenon DEF Next,
       ThreadStep
<1> QED
  BY <1>1, TypeCorrect, TimelyInvariant, PTL DEF Spec, LiveReservationKept

-----------------------------------------------------------------------------
(* The executor implements ExecutorContract *)

\* While runs are timely, an active task has a running, unexpired reservation.
LEMMA ActiveIsRunning ==
    ASSUME TypeOK, Timely, overran = {}, NEW i \in Active
    PROVE  /\ i \in Reserved
           /\ pending[i].phase = "running"
           /\ Unexpired(pending[i], clock)
  BY BusyHasCall DEF Timely, Owns, Active, Reserved, Unexpired, Executing, RunSteps, Call

\* A step that leaves the runs alone keeps the set of active tasks.
LEMMA SameRunsSameActive ==
    ASSUME TypeOK,
           \A t \in Threads : Executing(t)' <=> Executing(t),
           \A t \in Threads : Executing(t) => loc'[t].id = loc[t].id
    PROVE  Active' = Active
  BY Zenon DEF Active

\* Every step of the executor is a step of the contract or leaves it unchanged.
LEMMA ContractStep ==
    ASSUME TypeOK, SlotBound, Timely, [Next]_vars
    PROVE  [Contract!ContractNext]_(Contract!cvars)
<1> USE TypesGiveShapes DEF Shapes
<1> DEFINE Goal == [Contract!ContractNext]_(Contract!cvars)
<1>a. ASSUME overran' # {} PROVE Goal
  BY <1>a, Zenon DEF Contract!ContractNext, Contract!Overrun
<1>b. CASE CrashAndOpen
  <2>1. Reserved' = {} /\ Active' = {} /\ overran' = {}
    BY <1>b, Zenon DEF CrashAndOpen, Reserved, Active, Executing, RunSteps
  <2> QED
    BY <2>1, Zenon DEF Contract!ContractNext, Contract!TimelyStep, Contract!Restart
<1>c. overran' # {} \/ overran = {} \/ CrashAndOpen
  BY OverranStep, Zenon
<1> SUFFICES ASSUME overran = {}, overran' = {} PROVE Goal
  BY <1>a, <1>b, <1>c, Zenon
<1>d. ASSUME Reserved' = Reserved, Active' = Active PROVE Goal
  BY <1>d, Zenon DEF Contract!cvars
<1>e. ASSUME Active' = Active, Reserved' \subseteq Reserved,
             \A i \in Active : i \in Reserved'
      PROVE  Goal
  <2> DEFINE S == Reserved \ Reserved'
  <2>1. S \in SUBSET TaskIds /\ S \subseteq Reserved \ Active /\ Reserved' = Reserved \ S
    BY <1>e, Zenon DEF Reserved
  <2> QED
    BY <1>e, <2>1, Zenon DEF Contract!ContractNext, Contract!TimelyStep, Contract!Lapse
<1>1. ASSUME NEW t \in Threads, Receive(t) PROVE Goal
  <2>1. Active' = Active
    BY <1>1, SameRunsSameActive, Zenon DEF Receive, OfferReceived, CommitReceived, Executing,
       RunSteps
  <2> QED
    BY <1>1, <1>d, <2>1, Zenon DEF Receive, OfferReceived, CommitReceived, Reserved
<1>2. ASSUME NEW t \in Threads, OfferCapability(t) PROVE Goal
  <2>1. Active' = Active
    BY <1>2, SameRunsSameActive, Zenon DEF OfferCapability, Executing, RunSteps
  <2>2. Reserved' \subseteq Reserved
    BY <1>2, Zenon DEF OfferCapability, Pruned, Reserved
  <2>3. \A i \in Active : i \in Reserved'
    BY <1>2, ActiveIsRunning, Zenon DEF OfferCapability, Pruned, Reserved
  <2> QED
    BY <1>e, <2>1, <2>2, <2>3, Zenon
<1>3. ASSUME NEW t \in Threads, OfferReserve(t) PROVE Goal
  <2>1. Active' = Active
    BY <1>3, SameRunsSameActive, Zenon DEF OfferReserve, Goto, Return, Executing, RunSteps
  <2>2. CASE UNCHANGED pending
    BY <1>d, <2>1, <2>2, Zenon DEF Reserved
  <2>3. CASE ~UNCHANGED pending
    <3> DEFINE i == loc[t].id
    <3>1. i \in TaskIds
      BY <1>3, BusyHasCall, Zenon DEF OfferReserve
    <3>2. SlotFree /\ i \notin Reserved
      BY <1>3, <2>3, Zenon DEF OfferReserve, Reserved
    <3>3. pending'[i] # NoTask
      <4> DEFINE p == [requester |-> loc[t].requester, deadline |-> loc[t].deadline,
                       lease |-> loc[t].lease, phase |-> "accepted"]
      <4>1. pending' = [pending EXCEPT ![i] = p]
        BY <1>3, <2>3, Zenon DEF OfferReserve, SetPending
      <4>2. loc[t] \in Call
        BY <1>3, BusyHasCall, Zenon DEF OfferReserve
      <4>3. p \in PendingTask
        BY <4>2, Zenon DEF Call, PendingTask
      <4> HIDE DEF p
      <4> QED
        BY <3>1, <4>1, <4>3, ConstantsAssumption, Zenon
    <3>4. \A j \in TaskIds : j # i => pending'[j] = pending[j]
      BY <1>3, <2>3, <3>1, Zenon DEF OfferReserve, SetPending
    <3>5. Reserved' = Reserved \cup {i}
      BY <3>1, <3>3, <3>4, Zenon DEF Reserved
    <3>6. Contract!Cardinality(Reserved) = Cardinality(Reserved)
      BY Zenon DEF Contract!Cardinality, Cardinality
    <3> QED
      BY <2>1, <3>1, <3>2, <3>5, <3>6, Zenon DEF SlotFree, Contract!ContractNext,
         Contract!TimelyStep, Contract!Reserve
  <2> QED
    BY <2>2, <2>3, Zenon
<1>4. ASSUME NEW t \in Threads, OfferRecord(t) PROVE Goal
  <2>1. Active' = Active
    BY <1>4, SameRunsSameActive, Zenon DEF OfferRecord, Return, Executing, RunSteps
  <2> QED
    BY <1>4, <1>d, <2>1, Zenon DEF OfferRecord, Reserved
<1>5. ASSUME NEW t \in Threads, CommitClaim(t) PROVE Goal
  <2> DEFINE i == loc[t].id
  <2>1. loc[t] \in Call /\ i \in TaskIds
    BY <1>5, BusyHasCall, Zenon DEF CommitClaim
  <2>2. ASSUME Return(t) PROVE Active' = Active
    BY <1>5, <2>2, SameRunsSameActive, Zenon DEF CommitClaim, Return, Executing, RunSteps
  <2>3. CASE Return(t) /\ UNCHANGED pending
    BY <1>d, <2>2, <2>3, Zenon DEF Reserved
  <2>4. CASE Return(t) /\ SetPending(i, NoTask) /\ ~Unexpired(pending[i], clock)
    <3>1. Reserved' \subseteq Reserved
      BY <2>1, <2>4, Zenon DEF SetPending, Reserved
    <3>2. \A j \in Active : j \in Reserved'
      BY <2>1, <2>4, ActiveIsRunning, Zenon DEF SetPending, Reserved
    <3> QED
      BY <1>e, <2>2, <2>4, <3>1, <3>2, Zenon
  <2>5. CASE Claim(t) /\ pending[i] # NoTask
    <3>1. i \in Reserved \ Active
      BY <2>1, <2>5, ActiveIsRunning, Zenon DEF Claim, Reserved
    <3>2. [pending[i] EXCEPT !.phase = "running"] \in PendingTask
      BY <2>1, <2>5 DEF PendingTask
    <3>3. Reserved' = Reserved
      BY <2>1, <2>5, <3>2, ConstantsAssumption, Zenon DEF Claim, StartRun, SetPending, Reserved
    <3>4. /\ \A u \in Threads : u # t => loc'[u] = loc[u] /\ (Executing(u)' <=> Executing(u))
          /\ Executing(t)' /\ ~Executing(t) /\ loc'[t].id = i
      BY <1>5, <2>1, <2>5, Zenon DEF CommitClaim, Claim, StartRun, Call, Executing, RunSteps
    <3>5. Active' = Active \cup {i}
      BY <3>4, Zenon DEF Active
    <3> QED
      BY <2>1, <3>1, <3>3, <3>5, Zenon DEF Contract!ContractNext, Contract!TimelyStep,
         Contract!Start
  <2> QED
    BY <1>5, <2>3, <2>4, <2>5, Zenon DEF CommitClaim
<1>6. ASSUME NEW t \in Threads, RunMark(t) \/ RunCache(t) \/ RunLedger(t) \/ RunPersist(t)
      PROVE Goal
  <2>1. Active' = Active
    BY <1>6, SameRunsSameActive, Zenon DEF RunMark, RunCache, RunLedger, RunPersist, Goto, Abort,
       Executing, RunSteps
  <2> QED
    BY <1>6, <1>d, <2>1, Zenon DEF RunMark, RunCache, RunLedger, RunPersist, Reserved
<1>7. ASSUME NEW t \in Threads, RunRelease(t) PROVE Goal
  <2> DEFINE i == loc[t].id
  <2>1. i \in TaskIds /\ i \in Active
    BY <1>7, BusyHasCall, Zenon DEF RunRelease, Active, Executing, RunSteps
  <2>2. Reserved' = Reserved \ {i}
    BY <1>7, <2>1, Zenon DEF RunRelease, SetPending, Reserved
  <2>3. \A u \in Threads : u # t => loc'[u] = loc[u] /\ (Executing(u)' <=> Executing(u))
    BY <1>7, Zenon DEF RunRelease, Return, Executing
  <2>4. Executing(t) /\ ~Executing(t)'
    BY <1>7, Zenon DEF RunRelease, Return, Executing, RunSteps
  <2>5. \A u \in Threads : u # t /\ Executing(u) => loc[u].id # i
    BY <2>4, Zenon DEF Timely
  <2>6. Active' = Active \ {i}
    BY <2>3, <2>4, <2>5, Zenon DEF Active
  <2> QED
    BY <2>1, <2>2, <2>6, Zenon DEF Contract!ContractNext, Contract!TimelyStep, Contract!Finish
<1>8. ASSUME NEW i \in TaskIds, NEW r \in Requesters, TaskCancel(i, r) PROVE Goal
  <2>1. Active' = Active
    BY <1>8, Zenon DEF TaskCancel, Active, Executing
  <2>2. Reserved' \subseteq Reserved
    BY <1>8, Zenon DEF TaskCancel, SetPending, Reserved
  <2>3. \A j \in Active : j \in Reserved'
    BY <1>8, ActiveIsRunning, Zenon DEF TaskCancel, MayCancel, SetPending, Reserved
  <2> QED
    BY <1>e, <2>1, <2>2, <2>3, Zenon
<1>9. ASSUME NEW i \in TaskIds, NEW r \in Requesters, Replay(i, r) PROVE Goal
  <2>1. UNCHANGED <<pending, pc, loc>>
    BY <1>9, Zenon DEF Replay, mem
  <2>2. Reserved' = Reserved
    BY <2>1, Zenon DEF Reserved
  <2>3. Active' = Active
    BY <2>1, Zenon DEF Active, Executing
  <2> QED
    BY <1>d, <2>2, <2>3, Zenon
<1>10. CASE LocalCapability
  <2>1. Active' = Active
    BY <1>10, Zenon DEF LocalCapability, Active, Executing
  <2>2. Reserved' \subseteq Reserved
    BY <1>10, Zenon DEF LocalCapability, Pruned, Reserved
  <2>3. \A j \in Active : j \in Reserved'
    BY <1>10, ActiveIsRunning, Zenon DEF LocalCapability, Pruned, Reserved
  <2> QED
    BY <1>e, <2>1, <2>2, <2>3, Zenon
<1>11. CASE Tick \/ UNCHANGED vars
  <2>1. UNCHANGED <<pending, pc, loc>>
    BY <1>11, Zenon DEF Tick, mem, vars
  <2>2. Reserved' = Reserved
    BY <2>1, Zenon DEF Reserved
  <2>3. Active' = Active
    BY <2>1, Zenon DEF Active, Executing
  <2> QED
    BY <1>d, <2>2, <2>3, Zenon
<1> QED
  BY <1>b, <1>1, <1>2, <1>3, <1>4, <1>5, <1>6, <1>7, <1>8, <1>9, <1>10, <1>11, Zenon DEF Next,
     ThreadStep

\* The handlers, with all their interleavings, failures and crashes, implement
\* the abstract reservation pool.
THEOREM ExecutorImplementsContract == Spec => ImplementsContract
<1>1. Init => Contract!ContractInit
  BY DEF Init, Contract!ContractInit, Reserved, Active, Executing, RunSteps
<1>2. TypeOK /\ SlotBound /\ Timely /\ [Next]_vars
        => [Contract!ContractNext]_(Contract!cvars)
  BY ContractStep, Zenon
<1> QED
  BY <1>1, <1>2, TypeCorrect, SlotsAreBounded, TimelyInvariant, PTL DEF Spec, ImplementsContract,
     Contract!ContractSpec
=============================================================================
