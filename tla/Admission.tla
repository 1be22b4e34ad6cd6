----------------------------- MODULE Admission ------------------------------
(***************************************************************************)
(* Who a node admits: invitations, issued memberships, the policy, and the *)
(* revocations it takes from its ledger; blocks proposed, finalised,       *)
(* gossiped and appended; crash and PeerlessNode::open.                    *)
(*                                                                         *)
(* Calls of one node run in threads of their own, lock by lock.  A block   *)
(* file is created before the block is pushed, and a membership file       *)
(* replaced before the map is changed, in one critical section each: a     *)
(* crash between the two is the crash after them, so each is one step, and *)
(* the lists in memory are the ones on disk while the node runs.           *)
(***************************************************************************)
EXTENDS Ledger

CONSTANTS Nodes,        \* nodes that run this code
          Ids,          \* all NodeIds: the nodes and other members
          Invitations,  \* the invitations that can be issued
          Byzantine,    \* validators that may approve two proposals of one height
          Senders,      \* the members that gossip blocks
          EventLists,   \* contents of proposed blocks
          OwnEvents,    \* contents of a block of append_ledger_event
          ApprovalSets, \* the approvals collected for a proposal
          NoPolicy, NoCert,
          MaxIssued,    \* MAX_ISSUED_MEMBERSHIPS
          MaxBlocks,    \* bound: blocks finalised
          MaxQueue,     \* bound: gossip messages waiting
          MaxTime,      \* bound: largest clock value
          MaxEvents     \* bound: calls, deliveries, crashes, clock moves

ASSUME AdmissionAssumption ==
    /\ Nodes \cup Senders \subseteq Ids
    /\ \A evs \in EventLists : evs \in Seq(Range(evs))
    /\ OwnEvents \in Seq({e \in Range(OwnEvents) : e.kind \notin {"revoked", "joined"}})
    /\ Byzantine \subseteq Validators /\ Cardinality(Byzantine) <= MaxFaults
    /\ NoCert \notin Invitations
    /\ ApprovalSets \subseteq SUBSET Validators
    /\ MaxIssued \in Nat

VARIABLES
    clock,
    blocks,       \* finalised blocks, somewhere in the network
    approvals,    \* <<validator, proposal>> signed so far
    chain,        \* chain[n]: the ledger of n
    up,           \* up[n]: n is running
    policy,       \* Inner.membership
    revoked,      \* Inner.revoked_members
    invitation,   \* the file membership-invitation.json
    issued,       \* the file issued-memberships.json, per member
    registering,  \* registrations past the revocation check
    installing,   \* installations that still have to admit the issuer
    applying,     \* apply_revocations calls under way
    queue, batch, \* gossip not yet drained; drained and not yet merged
    granted,      \* history: members whose issue_invitation returned Ok
    crossed,      \* history: an append overlapped an apply_revocations
    raced,        \* history: admissions that a revocation overtook
    events        \* calls and faults so far

disk == <<chain, invitation, issued>>
memory == <<policy, revoked>>
calls == <<registering, installing, applying, batch>>
history == <<granted, crossed, raced>>
network == <<blocks, approvals, queue>>
vars == <<clock, up, disk, memory, calls, history, network, events>>

Event == events < MaxEvents /\ events' = events + 1

-----------------------------------------------------------------------------
(* Policy *)

Live(access) == access.expires > clock

Has(n, id) == policy[n] # NoPolicy /\ id \in DOMAIN policy[n].permissions

\* MemberAccess::allows
Allows(n, id, right) ==
    /\ Has(n, id)
    /\ Live(policy[n].permissions[id])
    /\ policy[n].permissions[id].rights \cap {"*", right} # {}

has_membership(n) == Has(n, n) /\ Live(policy[n].permissions[n])

Access(rights, cert) == [rights |-> rights, expires |-> cert.expires]

\* permissions with the access of one member put in its place.
With(permissions, id, access) ==
    [i \in DOMAIN permissions \cup {id} |-> IF i = id THEN access ELSE permissions[i]]

Without(permissions, ids) == [i \in DOMAIN permissions \ ids |-> permissions[i]]

-----------------------------------------------------------------------------
(* Revocations *)

\* One event: the filter of append_ledger_block, the loop of apply_revocations.
Changed(set, e) ==
    IF e.kind = "revoked" THEN set \cup {e.member}
    ELSE IF e.kind = "joined" THEN set \ {e.member} ELSE set

\* The revoked set after every one of a list of events.
Revocations(set, evs) ==
    LET after[k \in 0..Len(evs)] == IF k = 0 THEN set ELSE Changed(after[k - 1], evs[k])
    IN  after

Revoke(set, evs) == Revocations(set, evs)[Len(evs)]

\* The same for the events of every block of a chain.
ChainRevocations(c) ==
    LET after[k \in 0..Len(c)] == IF k = 0 THEN {} ELSE Revoke(after[k - 1], c[k].events)
    IN  after

LedgerRevoked(c) == ChainRevocations(c)[Len(c)]

\* The registrations under way for members that become revoked.
Overtaken(n, now) ==
    {r.cert.member : r \in {q \in registering : q.node = n}} \cap (now \ revoked[n])

\* apply_revocations: the set first, under its lock ...
Mark(a) ==
    LET now == Revoke(revoked[a.node], a.events) IN
    /\ a \in applying /\ a.stage = "mark"
    /\ revoked' = [revoked EXCEPT ![a.node] = now]
    /\ applying' = (applying \ {a}) \cup {[a EXCEPT !.stage = "prune", !.snapshot = now]}
    /\ raced' = [raced EXCEPT ![a.node] = @ \cup Overtaken(a.node, now)]
    /\ UNCHANGED <<clock, up, disk, policy, registering, installing, batch, granted, crossed,
                   network, events>>

\* ... then the policy, under its own lock, by a copy of the set.
Prune(a) ==
    /\ a \in applying /\ a.stage = "prune"
    /\ applying' = applying \ {a}
    /\ policy' = IF policy[a.node] = NoPolicy THEN policy
                 ELSE [policy EXCEPT ![a.node].permissions = Without(@, a.snapshot)]
    /\ UNCHANGED <<clock, up, disk, revoked, registering, installing, batch, history, network, events>>

-----------------------------------------------------------------------------
(* Blocks *)

\* next_block, and finalize with the approvals collected.  A correct validator
\* approves one proposal for a height; the code leaves that to the operators.
Propose(n, evs, approving) ==
    LET b == next_block(chain[n], evs, clock, Mesh, approving \cap Validators) IN
    /\ Event /\ up[n] /\ Cardinality(blocks) < MaxBlocks
    /\ BftFinalizes(approving, Len(chain[n]))
    /\ \A v \in b.signers \ Byzantine, a \in approvals :
         a[1] = v /\ a[2][2] = b.height => a[2] = Proposal(b)
    /\ blocks' = blocks \cup {b}
    /\ approvals' = approvals \cup {<<v, Proposal(b)>> : v \in b.signers}
    /\ UNCHANGED <<clock, up, disk, memory, calls, history, queue>>

\* The part of append_ledger_block up to the release of the ledger lock; `thread'
\* is the caller, who goes on with apply_revocations.
AppendTo(n, b, thread) ==
    /\ chain' = [chain EXCEPT ![n] = Append(@, b)]
    /\ applying' = applying \cup
         {[node |-> n, thread |-> thread, height |-> b.height, events |-> b.events,
           stage |-> "mark", snapshot |-> {}]}
    /\ crossed' = IF \E a \in applying : a.node = n THEN crossed \cup {n} ELSE crossed

\* append_ledger_block called by the application.
AppendCall(n, b) ==
    /\ Event /\ up[n]
    /\ b \in blocks
    /\ Links(chain[n], b) /\ BftVerifies(b)
    /\ AppendTo(n, b, "call")
    /\ UNCHANGED <<clock, up, invitation, issued, memory, registering, installing, batch,
                   granted, raced, network>>

\* append_ledger_event: a block of the node's own, on the same chain.
AppendLocal(n) ==
    LET b == next_block(chain[n], OwnEvents, clock, Local, {n}) IN
    /\ Event /\ up[n]
    /\ Links(chain[n], b) /\ LocalVerifies(b, n)
    /\ chain' = [chain EXCEPT ![n] = Append(@, b)]
    /\ UNCHANGED <<clock, up, invitation, issued, memory, calls, history, network>>

\* Gossip brings a block to n, from any sender, in any order and any number of times.
Deliver(n, message) ==
    /\ Event /\ up[n]
    /\ Len(queue[n]) < MaxQueue
    /\ queue' = [queue EXCEPT ![n] = Append(@, message)]
    /\ UNCHANGED <<clock, up, disk, memory, calls, history, blocks, approvals>>

Merging(n) == batch[n] # <<>> \/ \E a \in applying : a.node = n /\ a.thread = "merge"

\* merge_ledger_gossip takes all messages, also those of the other topic;
\* merge_state_gossip takes all and drops the blocks.
Drain(n, topic) ==
    /\ up[n] /\ ~Merging(n) /\ queue[n] # <<>>
    /\ queue' = [queue EXCEPT ![n] = <<>>]
    /\ batch' = IF topic = "ledger" THEN [batch EXCEPT ![n] = queue[n]] ELSE batch
    /\ UNCHANGED <<clock, up, disk, memory, registering, installing, applying, history,
                   blocks, approvals, events>>

\* The messages merge_ledger_gossip does not pass over: blocks from permitted senders.
Considers(n, m) == m.topic = "ledger" /\ (policy[n] = NoPolicy \/ Allows(n, m.sender, "ledger"))

\* One message of the batch; a block that cannot be appended ends the call, and the
\* rest of the batch is lost.
Merge(n) ==
    LET m == Head(batch[n]) IN
    /\ batch[n] # <<>>
    /\ ~\E a \in applying : a.node = n /\ a.thread = "merge"
    /\ \/ /\ ~Considers(n, m)
          /\ batch' = [batch EXCEPT ![n] = Tail(@)]
          /\ UNCHANGED <<chain, applying, crossed>>
       \/ /\ Considers(n, m)
          /\ IF Links(chain[n], m.block) /\ BftVerifies(m.block)
               THEN AppendTo(n, m.block, "merge") /\ batch' = [batch EXCEPT ![n] = Tail(@)]
               ELSE batch' = [batch EXCEPT ![n] = <<>>] /\ UNCHANGED <<chain, applying, crossed>>
    /\ UNCHANGED <<clock, up, invitation, issued, memory, registering, installing, granted, raced,
                   network, events>>

-----------------------------------------------------------------------------
(* Invitations *)

\* Invitation::verify_for and Membership::verify; signatures are genuine.
ValidFor(cert, n) == cert.member = n /\ cert.issued <= clock /\ Live(cert)

\* issue_invitation by a member of the network; others only get the certificate.
Issues(n, cert) == has_membership(n) /\ cert.issuer = n /\ cert.issued = clock

\* register_issued_membership up to the release of the revoked set.
Check(n, cert) ==
    /\ Event /\ up[n]
    /\ Issues(n, cert)
    /\ cert.member \notin revoked[n] /\ Live(cert)
    /\ registering' = registering \cup {[node |-> n, cert |-> cert]}
    /\ UNCHANGED <<clock, up, disk, memory, installing, applying, batch, history, network>>

\* Room in the list of issued memberships, or the member's place is taken over.
Listed(list, cert) == cert.member \in DOMAIN list \/ Cardinality(DOMAIN list) < MaxIssued

\* The rest of register_issued_membership, under the locks of the list and the policy.
Register(r) ==
    LET n == r.node IN
    /\ r \in registering
    /\ registering' = registering \ {r}
    /\ IF Listed(issued[n], r.cert) /\ policy[n] # NoPolicy /\ policy[n].network = r.cert.network
         THEN /\ issued' = [issued EXCEPT ![n] = With(@, r.cert.member, r.cert)]
              /\ policy' = [policy EXCEPT ![n].permissions =
                              With(@, r.cert.member, Access(r.cert.rights, r.cert))]
              /\ granted' = [granted EXCEPT ![n] = @ \cup {r.cert.member}]
         ELSE UNCHANGED <<issued, policy, granted>>
    /\ UNCHANGED <<clock, up, chain, invitation, revoked, installing, applying, batch,
                   crossed, raced, network, events>>

\* The policy of one certificate, whatever there was before.
enforce_membership(cert) ==
    [network |-> cert.network,
     permissions |-> [i \in {cert.member} |-> Access(cert.rights, cert)]]

\* install_invitation: the file, then enforce_membership, which replaces the policy.
Install(n, cert) ==
    /\ Event /\ up[n]
    /\ ValidFor(cert, n)
    /\ invitation' = [invitation EXCEPT ![n] = cert]
    /\ policy' = [policy EXCEPT ![n] = enforce_membership(cert)]
    /\ installing' = installing \cup {[node |-> n, cert |-> cert]}
    /\ raced' = [raced EXCEPT ![n] = @ \cup {n}]
    /\ UNCHANGED <<clock, up, chain, issued, revoked, registering, applying, batch, granted,
                   crossed, network>>

\* The end of activate_invitation: the issuer may do everything; the policy "was just
\* installed", so the code expects one.
AdmitIssuer(i) ==
    /\ i \in installing
    /\ policy[i.node] # NoPolicy
    /\ installing' = installing \ {i}
    /\ policy' = [policy EXCEPT ![i.node].permissions =
                     With(@, i.cert.issuer, Access({"*"}, i.cert))]
    /\ raced' = [raced EXCEPT ![i.node] = @ \cup {i.cert.issuer}]
    /\ UNCHANGED <<clock, up, disk, revoked, registering, applying, batch, granted, crossed,
                   network, events>>

-----------------------------------------------------------------------------
(* Crash and open *)

\* What open makes of the two files: the invitation's policy, then the issued
\* memberships one by one.
Restored(n) ==
    LET cert == invitation[n]
        own == With(enforce_membership(cert).permissions, cert.issuer, Access({"*"}, cert))
        Given(i) == Access(issued[n][i].rights, issued[n][i])
    IN  [i \in DOMAIN own \cup DOMAIN issued[n] |->
            IF i \in DOMAIN issued[n] THEN Given(i) ELSE own[i]]

\* open succeeds only if the chain, the invitation and every issued membership pass.
Opens(n) ==
    /\ Reopenable(chain[n])
    /\ invitation[n] # NoCert => ValidFor(invitation[n], n)
    /\ \A i \in DOMAIN issued[n] : /\ Live(issued[n][i])
                                   /\ invitation[n] # NoCert
                                   /\ issued[n][i].network = invitation[n].network

\* Variant: open does not replay the ledger.
OpenedUnrefreshed(n) ==
    /\ revoked' = [revoked EXCEPT ![n] = {}]
    /\ policy' = [policy EXCEPT ![n] =
          IF invitation[n] = NoCert THEN NoPolicy
          ELSE [network |-> invitation[n].network, permissions |-> Restored(n)]]

\* refresh_revocations_from_ledger comes last.
Opened(n) ==
    /\ revoked' = [revoked EXCEPT ![n] = LedgerRevoked(chain[n])]
    /\ policy' = [policy EXCEPT ![n] =
          IF invitation[n] = NoCert THEN NoPolicy
          ELSE [network |-> invitation[n].network,
                permissions |-> Without(Restored(n), LedgerRevoked(chain[n]))]]

Crash(n) ==
    /\ Event /\ up[n]
    /\ up' = [up EXCEPT ![n] = FALSE]
    /\ registering' = {r \in registering : r.node # n}
    /\ installing' = {i \in installing : i.node # n}
    /\ applying' = {a \in applying : a.node # n}
    /\ batch' = [batch EXCEPT ![n] = <<>>]
    /\ queue' = [queue EXCEPT ![n] = <<>>]
    /\ crossed' = crossed \ {n}
    /\ raced' = [raced EXCEPT ![n] = {}]
    /\ UNCHANGED <<clock, disk, memory, granted, blocks, approvals>>

Open(n) ==
    /\ ~up[n] /\ Opens(n)
    /\ up' = [up EXCEPT ![n] = TRUE]
    /\ Opened(n)
    /\ UNCHANGED <<clock, disk, calls, history, network, events>>

Tick ==
    /\ Event
    /\ clock' \in (0..MaxTime) \ {clock}
    /\ UNCHANGED <<up, disk, memory, calls, history, network>>

-----------------------------------------------------------------------------

Messages == {[topic |-> "ledger", block |-> b, sender |-> s] : b \in blocks, s \in Senders}
            \cup {[topic |-> "state"]}

\* Nodes just opened, with the invitation they installed earlier, if any.
Init ==
    /\ clock = 0 /\ blocks = {} /\ approvals = {} /\ events = 0
    /\ invitation \in [Nodes -> Invitations \cup {NoCert}]
    /\ \A n \in Nodes : invitation[n] # NoCert => ValidFor(invitation[n], n)
    /\ chain = [n \in Nodes |-> <<>>]
    /\ up = [n \in Nodes |-> TRUE]
    /\ issued = [n \in Nodes |-> [i \in {} |-> NoCert]]
    /\ revoked = [n \in Nodes |-> {}]
    /\ policy = [n \in Nodes |->
          IF invitation[n] = NoCert THEN NoPolicy
          ELSE [network |-> invitation[n].network, permissions |-> Restored(n)]]
    /\ registering = {} /\ installing = {} /\ applying = {}
    /\ queue = [n \in Nodes |-> <<>>] /\ batch = queue
    /\ granted = [n \in Nodes |-> {}] /\ crossed = {} /\ raced = granted

Next ==
    \/ \E n \in Nodes :
         \/ \E evs \in EventLists, s \in ApprovalSets : Propose(n, evs, s)
         \/ AppendLocal(n)
         \/ \E b \in blocks : AppendCall(n, b)
         \/ \E m \in Messages : Deliver(n, m)
         \/ Drain(n, "ledger") \/ Drain(n, "state") \/ Merge(n)
         \/ \E cert \in Invitations : Check(n, cert) \/ Install(n, cert)
         \/ Crash(n) \/ Open(n)
    \/ \E a \in applying : Mark(a) \/ Prune(a)
    \/ \E r \in registering : Register(r)
    \/ \E i \in installing : AdmitIssuer(i)
    \/ Tick

Spec == Init /\ [][Next]_vars

-----------------------------------------------------------------------------
(* Properties *)

\* README, ledger: finality by "`3f+1' membership, `2f+1' signatures".  Whatever is
\* proposed, approved, lost, repeated or reordered, two nodes never hold different
\* finalised proposals at one height, if at most f validators approve two.
Agreement ==
    \A n, m \in Nodes : \A h \in DOMAIN chain[n] \cap DOMAIN chain[m] :
        chain[n][h].network = Mesh /\ chain[m][h].network = Mesh
            => Proposal(chain[n][h]) = Proposal(chain[m][h])

\* SECURITY.md: "A node applies a finalized revocation immediately, persists it in
\* the ledger, and enforces it after restart."  Between the calls, a running node's
\* revoked set is the one its ledger says, and no revoked member is in its policy,
\* with three exceptions: two appends overlapped, a registration had passed its
\* check before the revocation, or an invitation was installed since.
RevocationEnforced ==
    \A n \in Nodes :
        up[n] /\ (\A a \in applying : a.node # n) /\ n \notin crossed
            => /\ revoked[n] = LedgerRevoked(chain[n])
               /\ \A i \in revoked[n] \ raced[n] : ~Has(n, i)

\* A stopped node whose certificates have not expired, whose chain has blocks of
\* one network and who did not move to another network can be opened again, and
\* then admits every member it issued an invitation to and that is not revoked.
ReopenRestores ==
    \A n \in Nodes :
        /\ ~up[n]
        /\ \A b, c \in Range(chain[n]) : b.network = c.network
        /\ \A cert \in Range(issued[n]) \cup ({invitation[n]} \ {NoCert}) :
             /\ cert.issued <= clock /\ Live(cert)
             /\ invitation[n] # NoCert => cert.network = invitation[n].network
        => /\ Opens(n)
           /\ granted[n] \subseteq DOMAIN issued[n]

\* README: "Inclusion proofs verify one event without the whole block."  The proof
\* LedgerApi::proof hands out verifies for every event of every block, at every
\* length of the event list.
AuditsVerify ==
    \A b \in blocks : \A i \in DOMAIN b.events :
        VerifiesTo(merkle_proof(Leaves(b.events), i - 1), i - 1, <<b.events[i]>>, b.root)
=============================================================================
