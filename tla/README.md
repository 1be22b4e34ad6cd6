# Peerless: TLA+ models and proofs

This directory models the concurrent and distributed parts of the Peerless node
(`src/crates/*`) in TLA+. TLC checks the models on small instances, and TLAPS
proves the central properties for every value of the constants. `PROJECT.json`
lists the components, runs, mutants, the map from definitions to source lines,
the hazards and the theorems.

Run from this directory, for example:

    tlc -workers 2 -config executor.cfg MCTaskExecutor
    tlapm StateDocsProofs.tla

## The system

A `PeerlessNode` owns an identity, a content store, a metadata database, a ledger,
state documents and two transports. Requests reach it as signed envelopes.

| Part | Source (`src/crates/`) | Modelled in |
|---|---|---|
| task executor | `peerless-node` (`accept_offer`, `execute`, `handle`, `capability`, `open`) | `TaskExecutor`, `ExecutorContract` |
| metadata database | `peerless-node/src/metadata.rs` | task rows in `TaskExecutor`, reputation in `Requester` |
| request admission, uploads | `peerless-node` (`handle`, `consume_request_budget`, `transfer_content_via`) | `Intake` |
| membership, revocation | `peerless-node` (`*_invitation`, `apply_revocations`, `enforce_membership`, `open`) | `Admission` |
| ledger, consensus | `peerless-ledger` | `Ledger`, `Admission` |
| requester, placement | `peerless-node` (`execute_*`), `peerless-compute` (`Scheduler`, `verify_outputs`) | `Requester`, `Placement` |
| replication | `peerless-node` (`replicate_p2p`, `repair_replication_p2p`, `fetch_p2p`) | `Requester` |
| state documents | `peerless-state`, `peerless-node` (`publish_state`, `merge_state_*`) | `StateDocs`, `DocumentStore` |
| content store, files, identity | `peerless-storage`, `peerless-identity` | `AtomicFiles`, `StateDocs` |
| p2p transport | `peerless-network/src/p2p.rs`, `peerless-node` (`serve_p2p*`) | `P2pNode` |
| onion circuit | `peerless-onion-protocol` | `OnionCircuit`, `OnionSession`, `CellChannel` |
| anonymous credentials | `peerless-anonymous-auth` | `AnonymousAuth` |
| RPC transport, wire protocol | `peerless-network/src/lib.rs`, `peerless-protocol`, `peerless-core` | threads and parameters of actions |
| WASM sandbox | `peerless-compute/src/wasm.rs` | an outcome of `RunCache` |
| command line, browser | `peerless-cli`, `peerless-browser` | not modelled |

How they interact: the requester places a task, uploads its content, and sends
`TaskOffer` and `TaskCommit` to an executor over one of the transports. The executor
reads content from the store, appends a `TaskCompleted` event to its ledger and a row
to its database, and answers with a signed result. Admission guards every request.
Revocations arrive as ledger blocks; ledger blocks and document snapshots arrive as
gossip. Onion circuits and anonymous credentials are libraries beside the node.

## Modules

In all of them one action is one region under a lock, one SQL statement, one file
operation or one message. What the code reads in one region and uses in a later one
is read and used in different actions.

### TaskExecutor, ExecutorContract

| Variable | Code |
|---|---|
| `pending` | `Inner.pending`: reservations with requester, deadline, lease, running or not |
| `completed` | `Inner.completed`: the cache of signed results |
| `taskState`, `taskResult` | table `tasks`: the state column, and the three json columns |
| `ledger` | `TaskCompleted` events of the local chain |
| `clock` | `now()` |
| `pc`, `loc` | the position and the locals of a handler thread |
| `claims`, `delivered`, `overran` | history, read only by properties |

A `Thread` is whatever runs a handler: a connection thread of the TCP server, the
event loop of a P2P listener, or an application thread inside `execute_local`. The
handler is cut where the code is: `OfferReceived` (lookup in `completed`),
`OfferCapability` (the capability snapshot), `OfferReserve` (the `pending` lock),
`OfferRecord` (the row); `CommitReceived`, `CommitClaim`, `RunMark`, `RunCache`,
`RunLedger`, `RunPersist`, `RunRelease`. Every fallible step may fail. `CrashAndOpen`
stops all threads, empties `pending` and restores `completed` from the rows still
marked completed.

A task is its id and deadline. A signed result is the number of the call that
produced it. Free memory, CPU and storage are a free choice in `OfferCapability`. An
action reads the clock once, where the code may read it twice within a few
instructions. Calls that only answer and change nothing are stuttering steps.

`ExecutorContract` is what a requester may rely on: a bounded pool of reservations,
started at most once each, whose slots are given back. It holds as long as no run
outlives its lease. The mapping is `held <- Reserved`, `active <- Active`,
`timely <- overran = {}`.

### Intake

The node's side of uploads and its client. `Receive` is `consume_request_budget` and the
permission check; `HandleStart`, `HandleChunk`, `HandleComplete`, `HandleContent` are the
four content messages of `handle`; `Put` writes the store. `Begin`, `Answer` and `Timeout` are
`transfer_content_via`. A request whose client gave up stays on the wire and may be
handled later, beside the next transfer. `Stray` sends messages that no modelled client
would send, `Revoke` and `Tick` change the policy and the clock (in both directions), and
`Restart` empties the session table. The bytes of a chunk are "right", "other" or
"damaged"; sizes are in bytes.

### Ledger, Admission

`Ledger` holds the pure parts as operators: Merkle root and proof, `next_block`, the
checks of `append` and `open`, quorum and BFT finality. `Admission` composes it with the
node: `Propose` (operators collect approvals, faulty validators approve twice),
`AppendCall`, `AppendLocal`, `Deliver`, `Drain` and `Merge` (gossip), `Mark` and `Prune`
(the two critical sections of `apply_revocations`), `Check`, `Register`, `Install`,
`AdmitIssuer`, `enforce_membership`, `Crash` and `Open`. A Merkle tree is the sequence of its
levels, as the loop of `merkle_root` makes them; a proof takes one sibling of every level.
The revoked set of a chain is computed event by event and block by block. A hash is the thing hashed, and
signatures cannot be forged. Storing a file and changing the map that mirrors it happen
under one lock, so a crash between the two equals a crash after them.

### Placement, Requester

`Placement` is `Scheduler` (score, capacity, tie-breaks, weighted-fair choice) and
`verify_outputs`; scores are integers in units of a tenth. `Requester` runs
`execute_best`, `execute_verified_p2p`, `execute_sharded_bytes_p2p`, `replicate_p2p`,
`repair_replication_p2p` and `fetch_p2p`. A remote execution is an offer, a commit and an
output, each of which may fail; a commit may fail after the peer has run the task.
Peers lose replicas at any time. `Faulty` peers return other outputs or pass on records
of others.

### AtomicFiles, StateDocs, DocumentStore

`AtomicFiles` is the sequence of system calls of `atomic_replace`, `atomic_create`,
`FileCas::put` and `load_or_generate`: write and sync a temporary file, give it its name,
sync the directory (the first two only). Each may fail. `previous` holds the directory
entries that a power loss may bring back, and a file that was not synced comes back
torn. `StateDocs` puts documents on top: handles that several threads open, change, save,
merge, publish and import. An Automerge document is the set of its changes, together
with the "values" maps it began with, of which the greatest is read.

`DocumentStore` promises that what was stored is never lost and that only stored updates
are acknowledged. The mapping is `stored <- ` the updates in every entry that could
survive a power loss now.

### P2pNode

Callers send commands to the loop that owns the swarm and wait a while. `Take` handles a
command, `Progress` and `Complete` are libp2p's events, `Handle` and `Handled` bracket a request
handler that blocks the loop. `Start` and `Stop` are `serve_p2p*` and its end; the peer cache
is loaded at start and written by `SaveCache`. An address is whether it is a circuit,
through which relay, and its last peer.

### OnionCircuit, OnionSession, CellChannel

`OnionCircuit` is the forward direction: `Seal` is `CircuitSender::seal`; `OpenLayer` is
`open_layer` on a genuine cell, with `Check` and `Commit` of `ReplayWindow`; `Refuse` is
`open_layer` on anything that does not authenticate. A cell stays on its link once sent,
so a link may lose, repeat and reorder. A bitmap is the set of distances whose bit is
set, within the width of the word. `OnionSession` adds the setup of keys (`Start`, `Accept`,
`FinishSetup`, with retries and duplicates), the reverse direction, in which every relay
numbers its own layer (`SealTerminal`, `Wrap`, `Receive`), fragmentation and the
`Reassembler` (`Push`); `upcoming` is the fragment the exit sends next. Keys are the transcript they derive from. `CellChannel` is a channel
that may lose and reorder cells but neither invents nor repeats one, and is silent once
the keys have expired.

### AnonymousAuth

`challenge`, `issue` and `prune` of the issuer, `add_descriptor` and `redeem` of the verifier,
in their critical sections. A call carries the time its caller read before it began, as
in the code; the clock of the nonce store is read later. Key ids are truncated, so two
keys may share one.

## Runs

| Run | Instance | Shows |
|---|---|---|
| `executor` | 2 threads, 2 task ids, 2 requesters, 1 slot, 4 calls, 1 crash | `SlotBound`, `ExclusiveWithinLease`, `DurableIsLedgered`, `ResultsGoToOwner`, `LiveReservationKept`, refinement of `ExecutorContract` |
| `executor_live` | 2 threads, 2 task ids, fair threads | `RunningIsReleased`: whatever fails, a run gives its reservation back |
| `executor_slots` | 5 calls, a lease that passes | violation of `ConcurrencyPolicy` |
| `executor_rerun` | 3 threads, one task id | violation of `CompletedNotExecutedAgain` |
| `executor_restart` | 2 threads, one task id, a crash | violation of `CompletedSurvivesRestart` |
| `intake` | 2 signers, contents of 1 and 2 chunks, 2 sessions, 3 transfers, 1 fault | `BudgetExact`, `UploadsBounded`, `DoneIsStored`, `UndisturbedSucceeds` |
| `admission` | 2 nodes, 4 validators of which 1 faulty, 2 blocks, 5 calls and faults | `Agreement`, `RevocationEnforced`, `ReopenRestores`, `AuditsVerify` |
| `requester` | 3 peers of which 1 faulty, up to 2 calls at a time, 4 shards, 2 losses | `VerifiedSound`, `ShardsInOrder`, `RepairRestores`, `WeightedFair`, `CallsEnd` |
| `documents` | 3 threads at 2 nodes, 2 updates, 3 saves or creations, 1 fault | `SavedIsVisible`, `CreatedOnce`, refinement of `DocumentStore` |
| `anonymous` | 2 threads, epochs of 2 seconds, 2 key ids, 6 calls | `QuotaHolds`, `KeysLive`, `OneUse` |
| `p2p` | 2 callers, 4 addresses, 2 starts, a cache of 1 entry | `RelayOnly`, `StartsFromCache`, `CallsReturn` |
| `circuit` | 3 hops, window 4, jump 2, 8 cells; setup and reverse direction with 1 and 2 hops | `WindowExact`, `AtMostOnce`, `OrderIndependent`, refinement of `CellChannel`; `SetupAgrees`, `ReverseOnce`, `Reassembled` |

The comment above each property in its module says what it states. The ones that are
least obvious:

- `ExclusiveWithinLease`: as long as no run has outlived its lease, an executing thread
  owns the reservation it claimed, and no task id executes twice at a time.
- `UndisturbedSucceeds`: a transfer fails only for a reason of its own; uploads of other
  signers, of the same content too, never disturb it.
- `RevocationEnforced`: between calls, a node's revoked set is the one its ledger says and
  no revoked member is in its policy. The property names the exceptions the code has
  (see below), and so shows that there are no others.
- `ReopenRestores`: a stopped node whose certificates are valid and whose chain is of one
  network opens again and admits all whom it granted membership.
- `CreatedOnce`: everybody who was given a key, block or content was given the one on disk.
- `OneUse`: one call at most of those that redeem a token reserved it before the token's
  epoch ended.
- `Reassembled`: a message has a slot exactly while some of its fragments have arrived.

### Bounds

The constants `Max...` marked "bound" in the modules limit the instances; nothing else
does. They are the least at which the interleavings of interest exist.

- `executor`: two threads and ids let a snapshot, a cache lookup and a removal go stale;
  four calls are two full exchanges; one crash may fall between any two steps. A lease
  or deadline beyond `MaxTime` never passes; a shorter one passes during a run.
- `intake`: the two sessions and the in-flight limit can be filled by one signer while
  another transfers; the third transfer runs beside a late request of the first.
- `admission`: four validators are the least with `f = 1`. Two blocks allow a fork and a
  successor. The event lists have one and three events, so that an odd level is padded.
- `requester`: four shards over three peers take two waves; a quorum of two out of three
  tolerates the faulty peer; two losses can fall before and after a check.
- `documents`: two threads share a node and a third exchanges snapshots with it; three
  calls let a save overlap another and an import follow.
- `anonymous`: `MaxTime` is in the second epoch, so that calls straddle its beginning. Two
  key ids make collisions happen.
- `p2p`: a cache of one entry is exceeded by the second address. Two starts are needed
  for what the first left in the cache.
- `circuit`: eight cells are twice the window, so that cells fall out behind it and jump
  beyond the limit ahead of it; the code has 128 and 64.

Threads and requesters of equal standing are interchangeable, so `executor`, `documents`,
`anonymous` and the violation runs use symmetry; runs with liveness do not.
`intake`, `admission`, `documents`, `anonymous`, `p2p`, `requester` and `circuit` do not check
deadlock, because their behaviours rightly stop when all calls have been made. The
executor runs check it, but it says little there, since `LocalCapability` is always
enabled: that no thread gets stuck is what `RunningIsReleased` shows.

Some runs divide the work among behaviours that share no state, chosen by `Init`:
`circuit` (forward cells, setup, reverse direction; the last begins with keys agreed),
`documents` (documents, or files created once), `anonymous` (issuer with or without
public prunes, or verifier), `requester` (the scheduler alone, or which operations are
called together) and `p2p` (which calls the clients make). Operations in different
groups are not interleaved with each other.

Time in `TaskExecutor`, `OnionCircuit` and `AnonymousAuth` only moves forward, so nothing
is said there about a wall clock that is set back. In `Intake` and `Admission` it moves
both ways.

### Fairness

- `TaskExecutor`: weak fairness of each thread's own steps. The operating system schedules
  threads, and the fuel limit ends every execution.
- `Requester`: weak fairness of each call's steps. Every request ends, by its answer or by
  the timeout of `P2pRpc::request`.
- `P2pNode`: weak fairness of the loop taking commands, of the handler that blocks it, of
  libp2p completing requests and queries (both have timeouts there), and of callers
  returning (`recv_timeout`).

Arrivals, time, crashes and failures get no fairness.

## Proofs

Every theorem holds for all values of the constants, the bounds included, that satisfy
the named `ASSUME`s of the modules; TLC evaluates these in the run of each module.

| Module | Theorem | Property |
|---|---|---|
| `TaskExecutorProofs` | `TypeCorrect`, `SlotsAreBounded`, `ExclusiveExecution`, `DurableResultsAreLedgered`, `ResultsAreOwned`, `ReservationsAreKept` | the safety properties of `executor` |
| | `ExecutorImplementsContract` | `ImplementsContract` |
| `OnionCircuitProofs` | `TypeCorrect`, `WindowsAreExact`, `OpenedAtMostOnce`, `WindowsIgnoreOrder` | the properties of `OnionCircuit` |
| | `CircuitImplementsChannel` | `ImplementsChannel` |
| | `SetupsAlwaysAgree`, `ReverseAtMostOnce`, `MessagesReassemble` | `SetupAgrees`, `ReverseOnce`, `Reassembled` |
| | `SessionKeepsCircuit` | `SessionSpec => Spec`: the results above hold in a session |
| `IntakeProofs` | `IntakeTyped`, `OkMeansStored`, `FailsForAReason` | `TypeOK`, `DoneIsStored`, `UndisturbedSucceeds` |
| | `BudgetIsExact`, `TableIsBounded` | `BudgetExact`, `UploadsBounded` |
| `AdmissionProofs` | `LedgersAgree` | `Agreement`, for exactly 3f+1 validators |
| | `AuditsAlwaysVerify`, `ReopensRestore`, `RevocationsEnforced` | `AuditsVerify`, `ReopenRestores`, `RevocationEnforced` |
| `RequesterProofs` | `PlacementIsFair` | `WeightedFair` |
| | `VerifiedOutputs`, `ShardsAreInOrder`, `RepairsRestore` | `VerifiedSound`, `ShardsInOrder`, `RepairRestores` |
| `StateDocsProofs` | `FilesAreWhole`, `OneKeyOneBlock`, `AcknowledgedIsVisible` | `TypeOK`, `CreatedOnce`, `SavedIsVisible` |
| | `DocumentsImplementStore` | `ImplementsStore` |
| `AnonymousAuthProofs` | `TokensAreOneUse`, `QuotaIsKept`, `CurrentKeysLive` | `OneUse`, `QuotaHolds`, `KeysLive` |
| `P2pNodeProofs` | `PrivateUsesRelays`, `StartsAreRefusedInPrivateOnly` | `RelayOnly`, `StartsFromCache` |

### Assumptions

Beside types and positive sizes, the constants are assumed to satisfy what the code or
the meaning of the constants guarantees: `Cardinality(Validators) >= 3f+1` (checked by
`BftConsensus::new`) with at most `f` faulty ones; `Minimum <= Target` and both positive (checked
by the replication policy); ranks of peers are distinct, as PeerIds are; a list of hosts
names no peer twice (otherwise `replicate_p2p` counts one twice, see below); a key was
generated for one scope; the events a node appends itself concern no membership; `None`,
`NoCert` and their like are none of the values they are distinguished from. `LedgersAgree`
has the hypothesis that the validators are exactly 3f+1.

### Arguments

- *TaskExecutor.* `ExclusiveWithinLease` is not inductive. Each executing thread owns its
  reservation, with the same requester, lease and deadline, and that reservation cannot
  expire before the thread is recorded in `overran`. So `CommitClaim`, which removes
  expired reservations, cannot take one away from a timely run.
- *OnionCircuit.* `WindowExact` is inductive with the types; the step is the arithmetic of
  the shifted bitmap. The refinement also needs that what is on any link was put on the
  first one by the sender.
- *OnionSession.* `SessionInv` follows a fragment back to the exit. The exit gives every
  fragment a number of its own, in the order of messages and indices (`ExitInv`); a cell
  on a link has one layer for each relay behind it, innermost the exit's number, and
  room for all of them (`CellsInv`); what arrived was opened under a number the window
  of the exit's keys knows (`ArrivedInv`); what the reassembler took had arrived
  (`TakenInv`). A relay wraps a duplicate under a fresh number of its own, so its window
  says nothing about duplicates: the number that stops the second copy is the exit's.
- *Intake.* A client waits for the answer to a message of its present transfer, no copy of
  it is elsewhere, older messages precede it, and the node's session holds what the
  client has already sent, unless the transfer met with a fault. Without all four a late
  request of an earlier transfer could answer or undo the present one. The limits are
  about sums, so the laws of sums over finite sets come first (one entry raised, added,
  removed; entries bounded one by one). A session has one
  place for each chunk of what it announced, so it buffers less than one chunk more; and
  a genuine chunk on the wire, hence one in a session, lies within its content
  (`TableInv`).
- *Admission, agreement.* A finalised block carries a quorum of approvals, a correct
  validator approves one proposal of a height, gossip carries finalised blocks only, and
  a mesh block of a chain is a finalised block in its place. Two quorums of 2f+1 out of
  3f+1 share a correct validator (`SharedCorrect`), hence agreement.
- *Admission, audits.* Levels of a tree halve, rounding up, so they reach one node; on every
  level the verifier has computed the node at its cursor, because the padded level holds
  it beside its sibling. Induction over the levels (`ProofVerifies`) gives the root.
- *Admission, reopening and revocation.* `AdmissionInv` says what `append` has checked of every
  block (`Linked`), that an invitation is on file before a membership is issued or a
  policy exists (`FilesOk`), and that only running nodes have calls (`CallsOk`). As long as no
  two appends overlap, one `apply_revocations` at most is under way: before it marks, the
  ledger is ahead of the set by exactly its events; before it prunes, the policy is
  behind the set; a registration under way is of a member who is not revoked, or whose
  revocation overtook it (`RevocationOk`). That a block's events change the set of a
  chain as its last step is `BlockRevokes`.
- *Placement.* `WeightedFair` is inductive with the type of the assignments, because the candidate
  chosen has the least ratio of assignments to capacity.
- *Requester.* `CallsOk` follows each call: executions under way belong to a busy call, and a
  record that answered a commit is its executor's own; a verified call has one record
  per executor; in a sharded call, all slots up to the end of the wave have ended or are
  under way, and what was collected is in order; in a replication every host is asked
  or still to be asked. Calls share only the set of what ran, which grows.
- *StateDocs.* The invariant follows a file operation through its stages. Until the file
  is named, a document being saved contains the one on disk, which nobody else can
  change because of the lock. Afterwards the file on disk is the job's. Once the directory
  is synced no older entry is left. What is stored can then only grow.
- *AnonymousAuth.* A reservation made in time lasts an epoch's length from a moment not
  before the token's epoch began, so it outlives that epoch. Until then only the call
  that made it can release it. For the quota, tokens given and calls counted but not yet
  signed together stay within the counter while it exists, and a counter is forgotten only
  when the keys of its epoch are removed, after which no call of that epoch can sign
  (`QuotaInv`). For the keys, challenges prune one at a time, so no id is free for a new
  key between the two removals of an expired scope (`SerialInv`).
- *P2pNode.* Every address given to the swarm in relay-private mode has passed the check,
  and `save` refuses what `load` would refuse.

Recursion and induction: the recursive functions (levels of a Merkle tree, revoked sets,
sums) are defined by `CHOOSE` in the semantics of TLA+. Each is shown to exist and to satisfy its
equation before it is used, by induction in the form of a least element of a set of
numbers (`Least`, `InductTo`, `Recursion`), as the library's induction rules take an operator
that the provers here cannot instantiate. Most leaves name Zenon, which proves them faster
than the SMT solver does.

Only model-checked: the liveness properties `RunningIsReleased`, `CallsEnd` and `CallsReturn`, which
need fairness and `ENABLED`, out of the prover's reach. All invariants, the action property
and the three refinements that the passing runs check are proved.

## Where code and documentation differ

1. `executor_slots`. `execute` looks at expiry before it looks at `running`. A second
   commit after the lease has passed removes the reservation of a task that is still
   executing. A new offer is then accepted and run beside it, while the README states
   one task per node and a reservation that stays visible while running.
2. `executor_rerun`. Lookup in `completed` and action on `pending` are under different
   locks. Calls that looked before the result was cached reserve and run the task
   again, while the README says a retry replays the result.
3. `executor_restart`. `accept_offer` writes its row after it has released the lock. The
   late `accepted` row replaces the `completed` one and a restart forgets the result,
   while the README lists deduplication across restart.

## Behaviour worth knowing

Met while modelling. Where one of these bears on a property above, the property names it
as an exception; no run of its own is about them.

- Membership. `open` fails when the node's own invitation or any issued membership has
  expired. `install_invitation` replaces the policy, which drops issued members until
  the next restart and admits the node and the issuer even if they are revoked. Two overlapping appends may apply their
  revocations in the wrong order. A registration that passed its check before a
  revocation is not undone by it.
- Ledger. A block's hash covers its signatures, so one proposal can be finalised as two
  blocks. A failed block ends `merge_ledger_gossip` and the rest of the batch is lost, and
  so are the messages of the other topic. A chain with local and mesh blocks is accepted
  but cannot be opened again. With more than 3f+1 members, two quorums of 2f+1 need not
  share a correct one.
- Requester. The timeout texts of the transport never contain "timeout", so timeouts count
  as failures in the reputation. `TaskCancel` is never sent. `replicate_p2p` counts a peer
  twice that is given twice.
- Documents and files. Handles opened before the first save begin maps of their own, and an
  acknowledged update in the one that is not read is hidden. `publish_state` publishes the
  document as it was before `save` merged it. `FileCas::put` and `load_or_generate` do not
  sync the directory, so a power loss may undo them.
- Credentials. A call that the clock overtakes at the end of an epoch may redeem a token
  whose nonce has been forgotten. A prune that overlaps a challenge can remove a new key
  with the same truncated id. A second `add_descriptor` of a scope returns before the first
  has stored the key.
- Onion. A full fragment encodes to 955 bytes, while two and three hops carry 886 and 817: it
  never passes, and its message keeps a reassembly slot. Relays accept only sequence 0
  as the first of the reverse direction.
- P2P. The peer table does not merge equal entries. A peer that is in the cache and is added
  again, for example by an invitation, is listed and then saved twice, and restarts make the
  list longer until `save_peer_cache` refuses it; the loops of the command line then end.
  A relay-private start with a non-empty cache fails, as no relay is configured yet.

## Not modelled, and why

- Cryptography (signatures, AEAD, key agreement, blind RSA), Automerge, libp2p and Wasmtime
  are external: only their effect on the code that calls them is modelled. So the WASM
  sandbox is an outcome, and envelopes are their signer and message.
- Framing, sockets, argument parsing, printing and the browser wrappers are pure I/O.
- Events and peers rows and the connection statistics are read only to be displayed.
- `LanDiscovery` only finds addresses, and `CircuitRelay` counts events of a relay that
  libp2p runs. The gossip buffer of `P2pRpc`, a vector without a limit, is `queue` of
  `Admission` and not part of `P2pNode`; `MaxQueue` is a bound of the model.
- `get`, `contains` and `stats` of the content store only read.
