-------------------------- MODULE AdmissionProofs ---------------------------
(***************************************************************************)
(* Agreement of the ledgers, inclusion proofs, reopening and revocation,   *)
(* for every number of nodes, validators, members, events and blocks.      *)
(*                                                                         *)
(* Agreement is not inductive: a step appends a block to one chain without *)
(* looking at the others.  AgreementInv says where blocks come from: a     *)
(* finalised block carries a quorum of approvals, a correct validator      *)
(* approves one proposal of a height, gossip carries finalised blocks      *)
(* only, and a mesh block of a chain is a finalised block in its place.    *)
(*                                                                         *)
(* The other three rest on AdmissionInv: what append has checked of every  *)
(* block, which files come before which, and by how much the revoked set   *)
(* lags behind the ledger and the policy behind the set while an           *)
(* apply_revocations is under way.  The lemmas before it say what the      *)
(* recursive functions of Ledger and Admission compute: a level of a       *)
(* Merkle tree, a verified path, the revoked set of a chain.               *)
(***************************************************************************)
EXTENDS Admission, FiniteSetTheorems, WellFoundedInduction, TLAPS

Finalised ==
    \A b \in blocks :
        /\ b.network = Mesh
        /\ b.signers \subseteq Validators /\ Cardinality(b.signers) >= Quorum
        /\ \A v \in b.signers : <<v, Proposal(b)>> \in approvals

ApprovedOnce ==
    \A a, c \in approvals :
        a[1] = c[1] /\ a[1] \notin Byzantine /\ a[2][2] = c[2][2] => a[2] = c[2]

\* A chain of finalised blocks and blocks of the node's own, each in its place.
Placed(s) ==
    /\ s \in Seq(Range(s))
    /\ \A h \in 1..Len(s) : s[h].height = h - 1 /\ (s[h].network = Mesh => s[h] \in blocks)

Chains == chain = [n \in Nodes |-> chain[n]] /\ \A n \in Nodes : Placed(chain[n])

Gossip == queue \in [Nodes -> Seq(Messages)] /\ batch \in [Nodes -> Seq(Messages)]

AgreementInv == Finalised /\ ApprovedOnce /\ Chains /\ Gossip

-----------------------------------------------------------------------------

\* Two quorums of 2f+1 among 3f+1 validators share one that is not faulty:
\* the reason for the quorum BftConsensus::new computes.
LEMMA SharedCorrect ==
    ASSUME Cardinality(Validators) = 3 * MaxFaults + 1,
           NEW A, A \subseteq Validators, Cardinality(A) >= Quorum,
           NEW B, B \subseteq Validators, Cardinality(B) >= Quorum
    PROVE  \E v \in A \cap B : v \notin Byzantine
<1>1. IsFiniteSet(Validators) /\ MaxFaults \in Nat
  BY LedgerAssumption, Zenon
<1>2. IsFiniteSet(A) /\ IsFiniteSet(B) /\ IsFiniteSet(Byzantine)
  BY <1>1, FS_Subset, AdmissionAssumption, Zenon
<1>3. /\ IsFiniteSet(A \cup B) /\ IsFiniteSet(A \cap B)
      /\ Cardinality(A \cup B) = Cardinality(A) + Cardinality(B) - Cardinality(A \cap B)
  BY <1>2, FS_Union, FS_Subset, Zenon
<1>4. A \cup B \subseteq Validators
  BY Zenon
<1>5. Cardinality(A \cup B) <= 3 * MaxFaults + 1
  BY <1>1, <1>4, FS_Subset, Zenon
<1>6. /\ Cardinality(A) \in Nat /\ Cardinality(B) \in Nat /\ Cardinality(A \cap B) \in Nat
      /\ Cardinality(Byzantine) \in Nat
  BY <1>2, <1>3, FS_CardinalityType, Zenon
<1>7. Cardinality(A \cap B) > Cardinality(Byzantine)
  BY <1>1, <1>3, <1>5, <1>6, AdmissionAssumption DEF Quorum
<1>8. ~(A \cap B \subseteq Byzantine)
  <2>1. SUFFICES ASSUME A \cap B \subseteq Byzantine PROVE FALSE
    BY Zenon
  <2>2. Cardinality(A \cap B) <= Cardinality(Byzantine)
    BY <1>2, <2>1, FS_Subset, Zenon
  <2> QED
    BY <1>6, <1>7, <2>2
<1> QED
  BY <1>8, Zenon

\* The invariant implies Agreement.
LEMMA InvariantAgrees ==
    ASSUME Cardinality(Validators) = 3 * MaxFaults + 1, AgreementInv
    PROVE  Agreement
<1>1. SUFFICES ASSUME NEW n \in Nodes, NEW m \in Nodes,
                      NEW h \in DOMAIN chain[n] \cap DOMAIN chain[m],
                      chain[n][h].network = Mesh, chain[m][h].network = Mesh
               PROVE  Proposal(chain[n][h]) = Proposal(chain[m][h])
  BY Zenon DEF Agreement
<1> DEFINE b == chain[n][h]
           c == chain[m][h]
<1>2. /\ h \in 1..Len(chain[n]) /\ h \in 1..Len(chain[m])
  BY <1>1 DEF AgreementInv, Chains, Placed
<1>3. b \in blocks /\ c \in blocks /\ b.height = c.height
  BY <1>1, <1>2, Zenon DEF AgreementInv, Chains, Placed
<1> HIDE DEF b, c
<1>4. PICK v \in b.signers \cap c.signers : v \notin Byzantine
  <2>1. /\ b.signers \subseteq Validators /\ Cardinality(b.signers) >= Quorum
        /\ c.signers \subseteq Validators /\ Cardinality(c.signers) >= Quorum
    BY <1>3, Zenon DEF AgreementInv, Finalised
  <2> QED
    BY <2>1, SharedCorrect, Zenon
<1>5. <<v, Proposal(b)>> \in approvals /\ <<v, Proposal(c)>> \in approvals
  BY <1>3, <1>4, Zenon DEF AgreementInv, Finalised
<1>6. Proposal(b)[2] = Proposal(c)[2]
  BY <1>3, Zenon DEF Proposal
<1>7. Proposal(b) = Proposal(c)
  BY <1>4, <1>5, <1>6, Zenon DEF AgreementInv, ApprovedOnce
<1> QED
  BY <1>7, Zenon DEF b, c

-----------------------------------------------------------------------------

\* What Ledger::append adds to a chain comes in its place.
LEMMA Appended ==
    ASSUME NEW s, Placed(s), NEW b, b.height = Len(s), b.network = Mesh => b \in blocks
    PROVE  Placed(Append(s, b))
<1> DEFINE T == Range(s) \cup {b}
           t == Append(s, b)
<1>1. s \in Seq(T) /\ b \in T /\ Len(s) \in Nat
  BY DEF Placed
<1>2. t \in Seq(T) /\ Len(t) = Len(s) + 1
  BY <1>1
<1>3. t[Len(t)] = b /\ \A h \in 1..Len(s) : t[h] = s[h]
  BY <1>1, <1>2
<1> HIDE DEF t, T
<1>4. t \in Seq(Range(t))
  <2>1. t = [h \in 1..Len(t) |-> t[h]] /\ \A h \in 1..Len(t) : t[h] \in Range(t)
    BY <1>2 DEF Range
  <2>2. t \in [1..Len(t) -> Range(t)] /\ Len(t) \in Nat
    BY <2>1, <1>1, <1>2
  <2> QED
    BY <2>2
<1>5. \A h \in 1..Len(t) : t[h].height = h - 1 /\ (t[h].network = Mesh => t[h] \in blocks)
  <2>1. TAKE h \in 1..Len(t)
  <2>2. CASE h = Len(t)
    BY <1>1, <1>2, <1>3, <2>2
  <2>3. CASE h # Len(t)
    <3>1. h \in 1..Len(s)
      BY <1>1, <1>2, <2>3
    <3> QED
      BY <1>3, <3>1, Zenon DEF Placed
  <2> QED
    BY <2>2, <2>3, Zenon
<1> QED
  BY <1>4, <1>5, Zenon DEF Placed, t

\* The chains of all nodes after the ledger of one grew.
LEMMA ChainGrows ==
    ASSUME Chains, UNCHANGED blocks, NEW n \in Nodes, NEW b, b.height = Len(chain[n]),
           b.network = Mesh => b \in blocks,
           chain' = [chain EXCEPT ![n] = Append(@, b)]
    PROVE  Chains'
<1>1. Placed(Append(chain[n], b))
  BY Appended, Zenon DEF Chains
<1>2. /\ chain' = [m \in Nodes |-> chain'[m]]
      /\ \A m \in Nodes : chain'[m] = IF m = n THEN Append(chain[n], b) ELSE chain[m]
  BY Zenon DEF Chains
<1>3. \A m \in Nodes : Placed(chain'[m])
  BY <1>1, <1>2, Zenon DEF Chains
<1>4. \A s : Placed(s) => Placed(s)'
  BY Zenon DEF Placed
<1> QED
  BY <1>2, <1>3, Zenon DEF Chains, Placed

\* A new message, and messages taken away, leave gossip about finalised blocks.
LEMMA MessagesOfBlocks ==
    ASSUME NEW m \in Messages, m.topic = "ledger"
    PROVE  m.block \in blocks
  BY DEF Messages

\* The first state.
LEMMA StartsAgreed == Init => AgreementInv
<1> SUFFICES ASSUME Init PROVE AgreementInv
  BY Zenon
<1>1. Finalised /\ ApprovedOnce
  BY Zenon DEF Init, Finalised, ApprovedOnce
<1>2. Chains
  BY DEF Init, Chains, Placed, Range
<1>3. Gossip
  BY DEF Init, Gossip
<1> QED
  BY <1>1, <1>2, <1>3, Zenon DEF AgreementInv

-----------------------------------------------------------------------------

\* A proposal finalised: the approvals it collects contradict none given before.
LEMMA ProposeKeeps ==
    ASSUME AgreementInv, NEW n \in Nodes, NEW evs \in EventLists, NEW s \in ApprovalSets,
           Propose(n, evs, s)
    PROVE  AgreementInv'
<1> DEFINE b == next_block(chain[n], evs, clock, Mesh, s \cap Validators)
<1>1. b.network = Mesh /\ b.signers = s \cap Validators
  BY Zenon DEF next_block
<1>2. /\ \A v \in b.signers \ Byzantine, a \in approvals :
           a[1] = v /\ a[2][2] = b.height => a[2] = Proposal(b)
      /\ blocks' = blocks \cup {b}
      /\ approvals' = approvals \cup {<<v, Proposal(b)>> : v \in b.signers}
      /\ UNCHANGED <<chain, queue, batch>>
      /\ Cardinality(s \cap Validators) >= Quorum
  BY Zenon DEF Propose, disk, calls, BftFinalizes, QuorumFinalizes
<1> HIDE DEF b
<1>3. Proposal(b)[2] = b.height
  BY Zenon DEF Proposal
<1>4. Finalised'
  <2>1. SUFFICES ASSUME NEW c \in blocks'
                 PROVE  /\ c.network = Mesh
                        /\ c.signers \subseteq Validators /\ Cardinality(c.signers) >= Quorum
                        /\ \A v \in c.signers : <<v, Proposal(c)>> \in approvals'
    BY Zenon DEF Finalised, Proposal
  <2>2. CASE c = b
    BY <1>1, <1>2, <2>2, Zenon
  <2>3. CASE c \in blocks
    BY <1>2, <2>3, Zenon DEF AgreementInv, Finalised
  <2> QED
    BY <1>2, <2>2, <2>3, Zenon
<1>5. ApprovedOnce'
  <2>1. SUFFICES ASSUME NEW a \in approvals', NEW c \in approvals', a[1] = c[1],
                        a[1] \notin Byzantine, a[2][2] = c[2][2]
                 PROVE  a[2] = c[2]
    BY Zenon DEF ApprovedOnce
  <2>2. \A d \in approvals' : d \in approvals
                              \/ (d[1] \in b.signers /\ d[2] = Proposal(b))
    BY <1>2
  <2>3. \A d \in approvals : d[1] \in b.signers \ Byzantine /\ d[2][2] = Proposal(b)[2]
                              => d[2] = Proposal(b)
    BY <1>2, <1>3, Zenon
  <2> QED
    BY <2>1, <2>2, <2>3 DEF AgreementInv, ApprovedOnce
<1>6. Chains'
  <2>1. \A t : Placed(t) => Placed(t)'
    BY <1>2, Zenon DEF Placed
  <2> QED
    BY <1>2, <2>1, Zenon DEF AgreementInv, Chains
<1>7. Gossip'
  <2>1. Messages \subseteq Messages'
    BY <1>2 DEF Messages
  <2>2. Seq(Messages) \subseteq Seq(Messages')
    BY <2>1
  <2> QED
    BY <1>2, <2>2, Zenon DEF AgreementInv, Gossip
<1> QED
  BY <1>4, <1>5, <1>6, <1>7, Zenon DEF AgreementInv

\* The ledger of one node grows by a block that fits, and gossip shrinks or stays.
LEMMA GrowthKeeps ==
    ASSUME AgreementInv, NEW n \in Nodes, NEW b, b.height = Len(chain[n]),
           b.network = Mesh => b \in blocks,
           chain' = [chain EXCEPT ![n] = Append(@, b)],
           UNCHANGED <<blocks, approvals>>, Gossip'
    PROVE  AgreementInv'
<1>1. Finalised' /\ ApprovedOnce'
  BY Zenon DEF AgreementInv, Finalised, ApprovedOnce, Proposal
<1>2. Chains'
  BY ChainGrows, Zenon DEF AgreementInv
<1> QED
  BY <1>1, <1>2, Zenon DEF AgreementInv

\* Only gossip changes.
LEMMA GossipKeeps ==
    ASSUME AgreementInv, UNCHANGED <<blocks, approvals, chain>>, Gossip'
    PROVE  AgreementInv'
<1>1. Finalised' /\ ApprovedOnce'
  BY Zenon DEF AgreementInv, Finalised, ApprovedOnce, Proposal
<1>2. Chains'
  BY Zenon DEF AgreementInv, Chains, Placed
<1> QED
  BY <1>1, <1>2, Zenon DEF AgreementInv

\* Gossip is unchanged where blocks, queues and batches are.
LEMMA GossipUnchanged ==
    ASSUME Gossip, UNCHANGED <<blocks, queue, batch>> PROVE Gossip'
  BY DEF Gossip, Messages

\* merge_ledger_gossip appends only blocks that were finalised.
LEMMA MergeKeeps ==
    ASSUME AgreementInv, NEW n \in Nodes, Merge(n)
    PROVE  AgreementInv'
<1> DEFINE m == Head(batch[n])
<1>1. /\ batch \in [Nodes -> Seq(Messages)] /\ batch[n] # <<>>
      /\ UNCHANGED <<queue, blocks, approvals>>
  BY Zenon DEF AgreementInv, Gossip, Merge, network
<1>2. m \in Messages /\ Tail(batch[n]) \in Seq(Messages)
  BY <1>1
<1>3. PICK t \in Seq(Messages) : batch' = [batch EXCEPT ![n] = t]
  <2>1. \/ batch' = [batch EXCEPT ![n] = Tail(batch[n])]
        \/ batch' = [batch EXCEPT ![n] = <<>>]
    BY Zenon DEF Merge
  <2>2. <<>> \in Seq(Messages)
    OBVIOUS
  <2> QED
    BY <1>2, <2>1, <2>2, Zenon
<1>4. batch' \in [Nodes -> Seq(Messages)]
  BY <1>1, <1>3, Zenon
<1>5. Gossip'
  <2>1. Messages' = Messages
    BY <1>1 DEF Messages
  <2> QED
    BY <1>1, <1>4, <2>1, Zenon DEF AgreementInv, Gossip
<1>6. \/ UNCHANGED chain
      \/ Considers(n, m) /\ Links(chain[n], m.block) /\ AppendTo(n, m.block, "merge")
  BY Zenon DEF Merge
<1>7. CASE UNCHANGED chain
  BY <1>1, <1>5, <1>7, GossipKeeps, Zenon
<1>8. CASE Considers(n, m) /\ Links(chain[n], m.block) /\ AppendTo(n, m.block, "merge")
  <2> HIDE DEF m
  <2>1. m.block \in blocks
    BY <1>2, <1>8, MessagesOfBlocks, Zenon DEF Considers
  <2>2. m.block.height = Len(chain[n])
    BY <1>8, Zenon DEF Links
  <2>3. chain' = [chain EXCEPT ![n] = Append(@, m.block)]
    BY <1>8, Zenon DEF AppendTo
  <2> QED
    BY <1>1, <1>5, <2>1, <2>2, <2>3, GrowthKeeps, Zenon
<1> QED
  BY <1>6, <1>7, <1>8, Zenon

-----------------------------------------------------------------------------

\* Every step keeps the invariant.
LEMMA StepsKeepAgreement == AgreementInv /\ [Next]_vars => AgreementInv'
<1> SUFFICES ASSUME AgreementInv, [Next]_vars PROVE AgreementInv'
  BY Zenon
<1> DEFINE Same == UNCHANGED <<blocks, approvals, chain, queue, batch>>
<1>1. ASSUME NEW n \in Nodes, NEW evs \in EventLists, NEW s \in ApprovalSets, Propose(n, evs, s)
      PROVE  AgreementInv'
  BY <1>1, ProposeKeeps, Zenon
<1>2. ASSUME NEW n \in Nodes, AppendLocal(n) PROVE AgreementInv'
  <2> DEFINE b == next_block(chain[n], OwnEvents, clock, Local, {n})
  <2>1. b.height = Len(chain[n]) /\ b.network = Local
    BY Zenon DEF next_block
  <2>2. /\ chain' = [chain EXCEPT ![n] = Append(@, b)]
        /\ UNCHANGED <<blocks, approvals, queue, batch>>
    BY <1>2, Zenon DEF AppendLocal, network, calls
  <2>3. Gossip'
    BY <2>2, GossipUnchanged, Zenon DEF AgreementInv
  <2> HIDE DEF b
  <2> QED
    BY <2>1, <2>2, <2>3, GrowthKeeps, LedgerAssumption, Zenon
<1>3. ASSUME NEW n \in Nodes, NEW b \in blocks, AppendCall(n, b) PROVE AgreementInv'
  <2>1. /\ chain' = [chain EXCEPT ![n] = Append(@, b)] /\ b.height = Len(chain[n])
        /\ UNCHANGED <<blocks, approvals, queue, batch>>
    BY <1>3, Zenon DEF AppendCall, AppendTo, Links, network
  <2>2. Gossip'
    BY <2>1, GossipUnchanged, Zenon DEF AgreementInv
  <2> QED
    BY <2>1, <2>2, GrowthKeeps, Zenon
<1>4. ASSUME NEW n \in Nodes, NEW m \in Messages, Deliver(n, m) PROVE AgreementInv'
  <2>1. /\ queue' = [queue EXCEPT ![n] = Append(@, m)]
        /\ UNCHANGED <<blocks, approvals, chain, batch>>
    BY <1>4, Zenon DEF Deliver, disk, calls
  <2>2. Messages' = Messages
    BY <2>1 DEF Messages
  <2>3. Gossip'
    BY <2>1, <2>2 DEF AgreementInv, Gossip
  <2> QED
    BY <2>1, <2>3, GossipKeeps, Zenon
<1>5. ASSUME NEW n \in Nodes, NEW topic, Drain(n, topic) PROVE AgreementInv'
  <2>1. /\ queue' = [queue EXCEPT ![n] = <<>>]
        /\ batch' = [batch EXCEPT ![n] = queue[n]] \/ batch' = batch
        /\ UNCHANGED <<blocks, approvals, chain>>
    BY <1>5, Zenon DEF Drain, disk
  <2>2. Messages' = Messages
    BY <2>1 DEF Messages
  <2>3. queue \in [Nodes -> Seq(Messages)] /\ batch \in [Nodes -> Seq(Messages)]
    BY Zenon DEF AgreementInv, Gossip
  <2>4. queue' \in [Nodes -> Seq(Messages)]
    BY <2>1, <2>3
  <2>5. batch' \in [Nodes -> Seq(Messages)]
    <3>1. queue[n] \in Seq(Messages)
      BY <2>3, Zenon
    <3> QED
      BY <2>1, <2>3, <3>1, Zenon
  <2>6. Gossip'
    BY <2>2, <2>4, <2>5, Zenon DEF Gossip
  <2> QED
    BY <2>1, <2>6, GossipKeeps, Zenon
<1>6. ASSUME NEW n \in Nodes, Merge(n) PROVE AgreementInv'
  BY <1>6, MergeKeeps, Zenon
<1>7. ASSUME NEW n \in Nodes, Crash(n) PROVE AgreementInv'
  <2>1. /\ queue' = [queue EXCEPT ![n] = <<>>] /\ batch' = [batch EXCEPT ![n] = <<>>]
        /\ UNCHANGED <<blocks, approvals, chain>>
    BY <1>7, Zenon DEF Crash, disk
  <2>2. Messages' = Messages
    BY <2>1 DEF Messages
  <2>3. Gossip'
    BY <2>1, <2>2 DEF AgreementInv, Gossip
  <2> QED
    BY <2>1, <2>3, GossipKeeps, Zenon
<1>8. ASSUME NEW n \in Nodes, NEW cert \in Invitations, Check(n, cert) \/ Install(n, cert)
      PROVE  Same
  BY <1>8, Zenon DEF Check, Install, disk, network
<1>9. ASSUME NEW n \in Nodes, Open(n) PROVE Same
  BY <1>9, Zenon DEF Open, disk, network, calls
<1>10. ASSUME NEW a \in applying, Mark(a) \/ Prune(a) PROVE Same
  BY <1>10, Zenon DEF Mark, Prune, disk, network
<1>11. ASSUME NEW r \in registering, Register(r) PROVE Same
  BY <1>11, Zenon DEF Register, network
<1>12. ASSUME NEW i \in installing, AdmitIssuer(i) PROVE Same
  BY <1>12, Zenon DEF AdmitIssuer, disk, network
<1>13. CASE Tick \/ UNCHANGED vars
  <2>1. Same
    BY <1>13, Zenon DEF Tick, vars, disk, network, calls
  <2> QED
    BY <2>1, GossipUnchanged, GossipKeeps, Zenon DEF AgreementInv
<1>14. ASSUME Same PROVE AgreementInv'
  BY <1>14, GossipUnchanged, GossipKeeps, Zenon DEF AgreementInv
<1> HIDE DEF Same
<1> QED
  BY <1>1, <1>2, <1>3, <1>4, <1>5, <1>6, <1>7, <1>8, <1>9, <1>10, <1>11, <1>12, <1>13, <1>14,
     Zenon DEF Next

\* Agreement of BftConsensus: if there are exactly 3f+1 validators and at most f of
\* them approve two proposals of one height, no two nodes ever hold different
\* finalised proposals at one height, whatever is gossiped, lost, repeated,
\* reordered, merged, appended locally, crashed or reopened.
THEOREM LedgersAgree ==
    ASSUME Cardinality(Validators) = 3 * MaxFaults + 1
    PROVE  Spec => []Agreement
<1>1. AgreementInv => Agreement
  BY InvariantAgrees, Zenon
<1> QED
  BY StartsAgreed, StepsKeepAgreement, <1>1, PTL DEF Spec

-----------------------------------------------------------------------------
(* Merkle trees: the proof of an event verifies, for event lists of any length *)

\* A set of numbers that is not empty has a least one.
LEMMA Least ==
  ASSUME NEW T, T \subseteq Nat, T # {}
  PROVE  \E x \in T : \A y \in T : x <= y
<1> DEFINE R == {ss \in Nat \X Nat : ss[1] < ss[2]}
<1>1. IsWellFoundedOn(R, Nat)
  BY NatLessThanWellFounded, Zenon DEF OpToRel
<1>2. PICK x \in T : \A y \in T : ~ (<<y, x>> \in R)
  <2> HIDE DEF R
  <2> QED
    BY <1>1, WFMin, Zenon
<1>3. \A y \in T : ~(y < x)
  BY <1>2, Zenon
<1> QED
  BY <1>3

\* Induction up to a bound, for a set of numbers.
LEMMA InductTo ==
  ASSUME NEW d \in Nat, NEW T, 0 \in T, \A k \in 0..(d - 1) : k \in T => k + 1 \in T
  PROVE  0..d \subseteq T
<1> SUFFICES ASSUME (0..d) \ T # {} PROVE FALSE
  BY Zenon
<1>1. PICK x \in (0..d) \ T : \A y \in (0..d) \ T : x <= y
  <2>1. \A y \in 0..d : y \in Nat
    OBVIOUS
  <2>2. (0..d) \ T \subseteq Nat
    BY <2>1, Zenon
  <2> QED
    BY <2>2, Least, Zenon
<1>2. x # 0 /\ x - 1 \in 0..(d - 1) /\ (x - 1) + 1 = x /\ ~(x <= x - 1) /\ x - 1 \in 0..d
  BY <1>1
<1>3. x - 1 \in T
  BY <1>1, <1>2, Zenon
<1> QED
  BY <1>1, <1>2, <1>3, Zenon

Recurs(g, base, F, d) == g[0] = base /\ \A k \in 1..d : g[k] = F[<<g[k - 1], k>>]

\* A recursive function over 0..d whose values stay in a set.
LEMMA Recursion ==
  ASSUME NEW d \in Nat, NEW V, NEW base \in V, NEW F \in [V \X (1..d) -> V]
  PROVE  \E g \in [0..d -> V] : Recurs(g, base, F, d)
<1> DEFINE T == {m \in 0..d : \E g \in [0..d -> V] :
                                g[0] = base /\ \A k \in 1..m : g[k] = F[<<g[k - 1], k>>]}
<1>1. 0 \in T
  <2>1. 0 \in 0..d /\ 1..0 = {}
    OBVIOUS
  <2>2. [k \in 0..d |-> base] \in [0..d -> V] /\ [k \in 0..d |-> base][0] = base
    BY <2>1, Zenon
  <2> QED
    BY <2>1, <2>2, Zenon
<1>2. ASSUME NEW m \in 0..(d - 1), m \in T PROVE m + 1 \in T
  <2>1. PICK g \in [0..d -> V] : g[0] = base /\ \A k \in 1..m : g[k] = F[<<g[k - 1], k>>]
    BY <1>2, Zenon
  <2>2. /\ m \in 0..d /\ m + 1 \in 1..d /\ m + 1 \in 0..d /\ 0 # m + 1 /\ 0 \in 0..d
        /\ (m + 1) - 1 = m /\ m # m + 1
        /\ \A k \in 1..(m + 1) : k # m + 1 => /\ k \in 1..m /\ k \in 0..d /\ k - 1 \in 0..d
                                              /\ k - 1 # m + 1
    OBVIOUS
  <2>3. PICK v \in V : v = F[<<g[m], m + 1>>]
    BY <2>1, <2>2, Zenon
  <2>4. PICK h : h = [g EXCEPT ![m + 1] = v]
    BY Zenon
  <2>5. h \in [0..d -> V] /\ h[m + 1] = v /\ \A k \in 0..d : k # m + 1 => h[k] = g[k]
    BY <2>1, <2>2, <2>3, <2>4, Zenon
  <2>6. h[0] = base /\ \A k \in 1..(m + 1) : h[k] = F[<<h[k - 1], k>>]
    <3>1. ASSUME NEW k \in 1..(m + 1) PROVE h[k] = F[<<h[k - 1], k>>]
      <4>1. CASE k = m + 1
        <5>1. h[k - 1] = g[m] /\ h[k] = v
          BY <2>2, <2>5, <4>1, Zenon
        <5> QED
          BY <2>3, <4>1, <5>1, Zenon
      <4>2. CASE k # m + 1
        BY <2>1, <2>2, <2>5, <4>2, Zenon
      <4> QED
        BY <4>1, <4>2, Zenon
    <3> QED
      BY <2>1, <2>2, <2>5, <3>1, Zenon
  <2> QED
    BY <2>2, <2>5, <2>6, Zenon
<1>3. d \in 0..d
  OBVIOUS
<1> HIDE DEF T
<1>4. d \in T
  BY <1>1, <1>2, <1>3, InductTo, Zenon
<1> QED
  BY <1>4, Zenon DEF T, Recurs

\* A list of l nodes.
Row(s, l) == l \in Nat /\ s = [i \in 1..l |-> s[i]]

LEMMA RowLength ==
    ASSUME NEW s, NEW l, Row(s, l)
    PROVE  s \in Seq(Range(s)) /\ Len(s) = l /\ DOMAIN s = 1..l
<1>1. DOMAIN s = 1..l /\ \A i \in 1..l : s[i] \in Range(s)
  BY Zenon DEF Row, Range
<1>2. s \in [1..l -> Range(s)] /\ l \in Nat
  BY <1>1, Zenon DEF Row
<1>3. s \in Seq(Range(s))
  BY <1>2
<1> QED
  BY <1>1, <1>2, <1>3

LEMMA SeqIsRow == ASSUME NEW S, NEW s \in Seq(S) PROVE Row(s, Len(s))
  BY DEF Row

\* Padding makes the number of nodes even and repeats the last one at most.
LEMMA PaddedRow ==
    ASSUME NEW s, NEW l \in Nat \ {0}, Row(s, l)
    PROVE  /\ Row(Padded(s), l + (l % 2))
           /\ \A i \in 1..l : Padded(s)[i] = s[i]
<1>1. s \in Seq(Range(s)) /\ Len(s) = l /\ DOMAIN s = 1..l
  BY RowLength, Zenon
<1>2. CASE l % 2 = 1
  <2>1. PICK v, t : v = s[l] /\ t = Append(s, v)
    BY Zenon
  <2>2. v \in Range(s) /\ t \in Seq(Range(s)) /\ Len(t) = l + 1 /\ \A i \in 1..l : t[i] = s[i]
    <3>1. l \in 1..l
      OBVIOUS
    <3>2. v \in Range(s)
      BY <1>1, <2>1, <3>1, Zenon DEF Range
    <3> QED
      BY <1>1, <2>1, <3>2
  <2>3. Padded(s) = t
    BY <1>1, <1>2, <2>1, Zenon DEF Padded
  <2> QED
    BY <1>2, <2>2, <2>3, SeqIsRow, Zenon
<1>3. CASE l % 2 # 1
  <2>1. l + (l % 2) = l
    BY <1>3
  <2> QED
    BY <1>1, <1>3, <2>1, Zenon DEF Padded
<1> QED
  BY <1>2, <1>3, Zenon

\* The row above has half as many nodes, rounded up.
LEMMA ParentsRow ==
    ASSUME NEW s, NEW l \in Nat \ {0}, Row(s, l)
    PROVE  /\ Row(Parents(s), (l + (l % 2)) \div 2)
           /\ \A i \in 1..((l + (l % 2)) \div 2) :
                Parents(s)[i] = <<Padded(s)[2 * i - 1], Padded(s)[2 * i]>>
<1>1. Len(Padded(s)) = l + (l % 2)
  BY PaddedRow, RowLength, Zenon
<1>2. (l + (l % 2)) \div 2 \in Nat
  OBVIOUS
<1>3. Parents(s) = [i \in 1..((l + (l % 2)) \div 2) |-> <<Padded(s)[2 * i - 1], Padded(s)[2 * i]>>]
  BY <1>1, Zenon DEF Parents
<1> QED
  BY <1>2, <1>3, Zenon DEF Row

\* One round of MerkleProof::verify computes the parent of the node it is at.
LEMMA VerifyStep ==
    ASSUME NEW s, NEW l \in Nat \ {0}, Row(s, l), NEW c \in 0..(l - 1)
    PROVE  LET sibling == Padded(s)[Sibling(c) + 1] IN
           /\ c \div 2 \in 0..(((l + (l % 2)) \div 2) - 1)
           /\ Parents(s)[(c \div 2) + 1] =
                IF c % 2 = 0 THEN <<s[c + 1], sibling>> ELSE <<sibling, s[c + 1]>>
<1>1. /\ c \div 2 \in 0..(((l + (l % 2)) \div 2) - 1)
      /\ (c \div 2) + 1 \in 1..((l + (l % 2)) \div 2) /\ c + 1 \in 1..l
      /\ c % 2 = 0 => 2 * ((c \div 2) + 1) - 1 = c + 1 /\ 2 * ((c \div 2) + 1) = (c + 1) + 1
      /\ c % 2 # 0 => 2 * ((c \div 2) + 1) - 1 = (c - 1) + 1 /\ 2 * ((c \div 2) + 1) = c + 1
  OBVIOUS
<1>2. Padded(s)[c + 1] = s[c + 1]
  BY <1>1, PaddedRow, Zenon
<1>3. Parents(s)[(c \div 2) + 1] =
        <<Padded(s)[2 * ((c \div 2) + 1) - 1], Padded(s)[2 * ((c \div 2) + 1)]>>
  BY <1>1, ParentsRow, Zenon
<1> QED
  BY <1>1, <1>2, <1>3, Zenon DEF Sibling

\* What Levels and Verified are chosen for.
IsLevels(g, leaves, n) == g = [k \in 0..n |-> IF k = 0 THEN leaves ELSE Parents(g[k - 1])]
IsVerified(g, siblings, cursor, leaf, n) ==
    g = [k \in 0..n |-> IF k = 0 THEN leaf
                         ELSE IF cursor[k - 1] % 2 = 0 THEN <<g[k - 1], siblings[k]>>
                                                      ELSE <<siblings[k], g[k - 1]>>]

\* What the loop of merkle_root computes: a row for every round.
LEMMA LevelsExist ==
    ASSUME NEW leaves, NEW n \in Nat
    PROVE  \E g : IsLevels(g, leaves, n)
<1> DEFINE Up(g, k) == IF k = 0 THEN leaves ELSE Parents(g[k - 1])
           T == {m \in 0..n : \E g : DOMAIN g = 0..n /\ \A k \in 0..m : g[k] = Up(g, k)}
<1>1. 0 \in T
  <2>1. 0 \in 0..n /\ 0..0 = {0}
    OBVIOUS
  <2>2. DOMAIN [k \in 0..n |-> leaves] = 0..n /\ [k \in 0..n |-> leaves][0] = leaves
    BY <2>1, Zenon
  <2> QED
    BY <2>1, <2>2, Zenon
<1>2. ASSUME NEW m \in 0..(n - 1), m \in T PROVE m + 1 \in T
  <2>1. PICK g : DOMAIN g = 0..n /\ \A k \in 0..m : g[k] = Up(g, k)
    BY <1>2, Zenon
  <2>2. /\ m \in 0..m /\ m + 1 \in 0..n /\ (m + 1) - 1 = m /\ m + 1 # 0 /\ m \in 0..n
        /\ m # m + 1
        /\ \A k \in 0..(m + 1) : k # m + 1 => k \in 0..m /\ k \in 0..n
        /\ \A k \in 0..m : k # 0 => k - 1 \in 0..n /\ k - 1 # m + 1
    OBVIOUS
  <2>3. PICK v, h : v = Parents(g[m]) /\ h = [k \in 0..n |-> IF k = m + 1 THEN v ELSE g[k]]
    BY Zenon
  <2>4. DOMAIN h = 0..n /\ h[m + 1] = v /\ \A k \in 0..n : k # m + 1 => h[k] = g[k]
    BY <2>2, <2>3, Zenon
  <2>5. ASSUME NEW k \in 0..(m + 1) PROVE h[k] = Up(h, k)
    <3>1. CASE k = m + 1
      BY <2>2, <2>3, <2>4, <3>1, Zenon
    <3>2. CASE k # m + 1
      BY <2>1, <2>2, <2>4, <3>2, Zenon
    <3> QED
      BY <3>1, <3>2, Zenon
  <2> HIDE DEF Up
  <2> QED
    BY <2>2, <2>4, <2>5, Zenon
<1>3. n \in 0..n
  OBVIOUS
<1>4. n \in T
  <2> HIDE DEF T
  <2> QED
    BY <1>1, <1>2, <1>3, InductTo, Zenon
<1>5. PICK g : DOMAIN g = 0..n /\ \A k \in 0..n : g[k] = Up(g, k)
  BY <1>4, Zenon
<1>6. PICK h : h = [k \in 0..n |-> g[k]]
  BY Zenon
<1>7. ASSUME NEW k \in 0..n PROVE h[k] = Up(h, k)
  <2>1. k # 0 => k - 1 \in 0..n
    OBVIOUS
  <2> QED
    BY <1>5, <1>6, <2>1, Zenon
<1>8. h = [k \in 0..n |-> Up(h, k)]
  BY <1>6, <1>7, Zenon
<1> QED
  BY <1>8, Zenon DEF IsLevels

LEMMA LevelsAre ==
    ASSUME NEW leaves, NEW n, Row(leaves, n)
    PROVE  /\ Levels(leaves)[0] = leaves
           /\ \A k \in 1..n : Levels(leaves)[k] = Parents(Levels(leaves)[k - 1])
<1>1. n \in Nat /\ Len(leaves) = n
  BY RowLength, Zenon DEF Row
<1>2. Levels(leaves) = CHOOSE g : IsLevels(g, leaves, n)
  BY <1>1, Zenon DEF Levels, IsLevels
<1>3. PICK g : g = Levels(leaves) /\ IsLevels(g, leaves, n)
  BY <1>1, <1>2, LevelsExist, Zenon
<1>4. 0 \in 0..n /\ \A k \in 1..n : k \in 0..n /\ k # 0
  BY <1>1
<1> QED
  BY <1>3, <1>4, Zenon DEF IsLevels

\* Every row is shorter than the one below, until there is one node; so the loop ends.
LEMMA LevelsShrink ==
    ASSUME NEW leaves, NEW n \in Nat \ {0}, Row(leaves, n)
    PROVE  \A k \in 0..n : \E l \in Nat \ {0} : Row(Levels(leaves)[k], l) /\ (l = 1 \/ l + k <= n)
<1> DEFINE L(k) == Levels(leaves)[k]
           T == {k \in 0..n : \E l \in Nat \ {0} : Row(L(k), l) /\ (l = 1 \/ l + k <= n)}
<1>1. 0 \in T
  <2>1. 0 \in 0..n /\ n + 0 <= n
    OBVIOUS
  <2> QED
    BY <2>1, LevelsAre, Zenon
<1>2. ASSUME NEW k \in 0..(n - 1), k \in T PROVE k + 1 \in T
  <2>1. PICK l \in Nat \ {0} : Row(L(k), l) /\ (l = 1 \/ l + k <= n)
    BY <1>2, Zenon
  <2>2. k + 1 \in 1..n /\ k + 1 \in 0..n /\ (k + 1) - 1 = k
    OBVIOUS
  <2>3. L(k + 1) = Parents(L(k))
    <3>1. L(k + 1) = Parents(L((k + 1) - 1))
      BY <2>2, LevelsAre, Zenon
    <3> QED
      BY <2>2, <3>1, Zenon
  <2> HIDE DEF L
  <2>4. PICK u : u = (l + (l % 2)) \div 2
    BY Zenon
  <2>5. u \in Nat \ {0} /\ (u = 1 \/ u + (k + 1) <= n)
    <3>1. (l = 1 => u = 1) /\ (l # 1 => u <= l - 1) /\ u \in Nat \ {0}
      BY <2>4
    <3> QED
      BY <2>1, <3>1
  <2>6. Row(Parents(L(k)), u)
    BY <2>1, <2>4, ParentsRow, Zenon
  <2> QED
    BY <2>2, <2>3, <2>5, <2>6, Zenon
<1> HIDE DEF T
<1>3. 0..n \subseteq T
  BY <1>1, <1>2, InductTo, Zenon
<1> QED
  BY <1>3, Zenon DEF T

LEMMA DepthIs ==
    ASSUME NEW leaves, NEW n \in Nat \ {0}, Row(leaves, n)
    PROVE  Depth(leaves) \in 0..n /\ Row(Levels(leaves)[Depth(leaves)], 1)
<1> DEFINE L(k) == Levels(leaves)[k]
           T == {k \in 0..n : Len(L(k)) = 1}
<1>1. \A k \in 0..n : \E l \in Nat \ {0} : Row(L(k), l) /\ Len(L(k)) = l /\ (l = 1 \/ l + k <= n)
  BY LevelsShrink, RowLength, Zenon
<1> HIDE DEF L
<1>2. n \in T
  <2>1. n \in 0..n /\ \A l \in Nat \ {0} : l = 1 \/ l + n <= n => l = 1
    OBVIOUS
  <2> QED
    BY <1>1, <2>1, Zenon
<1>3. PICK d \in T : \A k \in T : d <= k
  <2>1. T \subseteq Nat
    OBVIOUS
  <2> QED
    BY <1>2, <2>1, Least, Zenon
<1>4. \A j \in 0..d : Len(L(j)) = 1 <=> j = d
  <2>1. \A j \in 0..d : j \in 0..n /\ (d <= j => j = d)
    OBVIOUS
  <2> QED
    BY <1>3, <2>1, Zenon
<1>5. Len(leaves) = n
  BY RowLength, Zenon
<1>6. Depth(leaves) \in 0..n /\ \A j \in 0..Depth(leaves) : Len(L(j)) = 1 <=> j = Depth(leaves)
  BY <1>3, <1>4, <1>5, Zenon DEF Depth, L
<1>7. PICK e : e = Depth(leaves)
  BY Zenon
<1>8. e \in 0..e
  BY <1>6, <1>7
<1>9. e \in 0..n /\ Len(L(e)) = 1
  BY <1>6, <1>7, <1>8, Zenon
<1> QED
  BY <1>1, <1>7, <1>9, Zenon DEF L

\* The cursor of merkle_proof and of verify.
LEMMA CursorsAre ==
    ASSUME NEW index \in Nat, NEW d \in Nat
    PROVE  /\ Cursors(index, d)[0] = index
           /\ \A k \in 1..d : Cursors(index, d)[k] = Cursors(index, d)[k - 1] \div 2
<1> DEFINE Is(g) == g = [k \in 0..d |-> IF k = 0 THEN index ELSE g[k - 1] \div 2]
<1>1. Cursors(index, d) = CHOOSE g : Is(g)
  BY Zenon DEF Cursors
<1>2. PICK F : F = [p \in Nat \X (1..d) |-> p[1] \div 2]
  BY Zenon
<1>3. \A p \in Nat \X (1..d) : p[1] \div 2 \in Nat
  OBVIOUS
<1>4. F \in [Nat \X (1..d) -> Nat]
  BY <1>2, <1>3, Zenon
<1>5. PICK g \in [0..d -> Nat] : Recurs(g, index, F, d)
  BY <1>4, Recursion, Zenon
<1>6. 0 \in 0..d /\ \A k \in 0..d : k # 0 => k \in 1..d /\ k - 1 \in 0..d
  OBVIOUS
<1>7. \A k \in 1..d : k \in 0..d /\ k # 0
  OBVIOUS
<1>8. ASSUME NEW k \in 0..d PROVE g[k] = IF k = 0 THEN index ELSE g[k - 1] \div 2
  <2>1. CASE k = 0
    BY <1>5, <2>1, Zenon DEF Recurs
  <2>2. CASE k # 0
    <3>1. <<g[k - 1], k>> \in Nat \X (1..d)
      BY <1>5, <1>6, <2>2, Zenon
    <3>2. F[<<g[k - 1], k>>] = g[k - 1] \div 2
      BY <1>2, <3>1, Zenon
    <3> QED
      BY <1>5, <1>6, <2>2, <3>2, Zenon DEF Recurs
  <2> QED
    BY <2>1, <2>2, Zenon
<1>9. Is(g)
  BY <1>5, <1>8, Zenon
<1>10. Is(Cursors(index, d))
  <2> HIDE DEF Is
  <2> QED
    BY <1>1, <1>9, Zenon
<1>11. PICK h : h = Cursors(index, d)
  BY Zenon
<1> QED
  BY <1>6, <1>7, <1>10, <1>11, Zenon

\* On every row the cursor is at a node of the row.
LEMMA CursorOnRow ==
    ASSUME NEW leaves, NEW n \in Nat \ {0}, Row(leaves, n), NEW index \in 0..(n - 1), NEW d \in 0..n
    PROVE  \A k \in 0..d : \E l \in Nat \ {0} :
             Row(Levels(leaves)[k], l) /\ Cursors(index, d)[k] \in 0..(l - 1)
<1> DEFINE L(k) == Levels(leaves)[k]
           c(k) == Cursors(index, d)[k]
           T == {k \in 0..d : \E l \in Nat \ {0} : Row(L(k), l) /\ c(k) \in 0..(l - 1)}
<1>0. /\ index \in Nat /\ d \in Nat
      /\ \A k \in 0..(d - 1) : /\ k + 1 \in 1..d /\ (k + 1) - 1 = k /\ k + 1 \in 0..d
                               /\ k + 1 \in 1..n
  OBVIOUS
<1>1. L(0) = leaves /\ \A k \in 1..n : L(k) = Parents(L(k - 1))
  BY LevelsAre, Zenon
<1>2. c(0) = index /\ \A k \in 1..d : c(k) = c(k - 1) \div 2
  BY <1>0, CursorsAre, Zenon
<1> HIDE DEF L, c
<1>3. 0 \in T
  <2>1. 0 \in 0..d
    OBVIOUS
  <2> QED
    BY <1>1, <1>2, <2>1, Zenon
<1>4. ASSUME NEW k \in 0..(d - 1), k \in T PROVE k + 1 \in T
  <2>1. PICK l \in Nat \ {0} : Row(L(k), l) /\ c(k) \in 0..(l - 1)
    BY <1>4, Zenon
  <2>2. L(k + 1) = Parents(L((k + 1) - 1)) /\ c(k + 1) = c((k + 1) - 1) \div 2
    BY <1>0, <1>1, <1>2, Zenon
  <2>3. L(k + 1) = Parents(L(k)) /\ c(k + 1) = c(k) \div 2
    BY <1>0, <2>2, Zenon
  <2>4. PICK u : u = (l + (l % 2)) \div 2
    BY Zenon
  <2>5. u \in Nat \ {0}
    BY <2>4
  <2>6. Row(L(k + 1), u) /\ c(k + 1) \in 0..(u - 1)
    BY <2>1, <2>3, <2>4, ParentsRow, VerifyStep, Zenon
  <2> QED
    BY <1>0, <2>5, <2>6, Zenon
<1> HIDE DEF T
<1>5. 0..d \subseteq T
  BY <1>0, <1>3, <1>4, InductTo, Zenon
<1> QED
  BY <1>5, Zenon DEF T, L, c

\* MerkleProof::verify follows merkle_root up the tree: after k siblings it has the
\* node of row k that lies above the leaf.
LEMMA ProofVerifies ==
    ASSUME NEW leaves, NEW n \in Nat \ {0}, Row(leaves, n), NEW index \in 0..(n - 1)
    PROVE  VerifiesTo(merkle_proof(leaves, index), index, leaves[index + 1], merkle_root(leaves))
<1> DEFINE L(k) == Levels(leaves)[k]
<1>1. PICK d, siblings, cursor, leaf : /\ d = Depth(leaves) /\ siblings = merkle_proof(leaves, index)
                                       /\ cursor = Cursors(index, d) /\ leaf = leaves[index + 1]
  BY Zenon
<1>2. d \in 0..n /\ d \in Nat /\ index \in Nat /\ Row(L(d), 1)
  <2>1. d \in 0..n /\ Row(L(d), 1)
    BY <1>1, DepthIs, Zenon
  <2> QED
    BY <2>1
<1>3. siblings = [k \in 1..d |-> Padded(L(k - 1))[Sibling(cursor[k - 1]) + 1]]
  BY <1>1, Zenon DEF merkle_proof
<1>4. Row(siblings, d)
  BY <1>2, <1>3, Zenon DEF Row
<1>5. Len(siblings) = d
  BY <1>4, RowLength, Zenon
<1>6. L(0) = leaves /\ \A k \in 1..n : L(k) = Parents(L(k - 1))
  BY LevelsAre, Zenon
<1>7. cursor[0] = index /\ \A k \in 1..d : cursor[k] = cursor[k - 1] \div 2
  <2>1. /\ Cursors(index, d)[0] = index
        /\ \A k \in 1..d : Cursors(index, d)[k] = Cursors(index, d)[k - 1] \div 2
    BY <1>2, CursorsAre, Zenon
  <2> QED
    BY <1>1, <2>1, Zenon
<1>8. \A k \in 0..d : \E l \in Nat \ {0} : Row(L(k), l) /\ cursor[k] \in 0..(l - 1)
  BY <1>1, <1>2, CursorOnRow, Zenon
<1>9. leaves # <<>>
  <2>1. Len(leaves) = n
    BY RowLength, Zenon
  <2> QED
    BY <2>1, Zenon
<1>10. merkle_root(leaves) = L(d)[1]
  BY <1>1, <1>9, Zenon DEF merkle_root
<1> HIDE DEF L
<1> DEFINE node(k) == L(k)[cursor[k] + 1]
<1>11. ASSUME NEW k \in 1..d
       PROVE  node(k) = IF cursor[k - 1] % 2 = 0 THEN <<node(k - 1), siblings[k]>>
                                                ELSE <<siblings[k], node(k - 1)>>
  <2>1. k - 1 \in 0..d /\ k \in 1..n
    BY <1>2
  <2>2. PICK l \in Nat \ {0} : Row(L(k - 1), l) /\ cursor[k - 1] \in 0..(l - 1)
    BY <1>8, <2>1, Zenon
  <2>3. L(k) = Parents(L(k - 1)) /\ cursor[k] = cursor[k - 1] \div 2
    BY <1>6, <1>7, <2>1, Zenon
  <2>4. siblings[k] = Padded(L(k - 1))[Sibling(cursor[k - 1]) + 1]
    BY <1>3, Zenon
  <2>5. PICK s, c : s = L(k - 1) /\ c = cursor[k - 1]
    BY Zenon
  <2>6. Parents(s)[(c \div 2) + 1] =
          IF c % 2 = 0 THEN <<s[c + 1], Padded(s)[Sibling(c) + 1]>>
                       ELSE <<Padded(s)[Sibling(c) + 1], s[c + 1]>>
    BY <2>2, <2>5, VerifyStep, Zenon
  <2> QED
    BY <2>3, <2>4, <2>5, <2>6, Zenon
<1>12. \A k \in 0..d : k # 0 => k \in 1..d /\ k - 1 \in 0..d
  BY <1>2
<1>13. node(0) = leaf
  BY <1>1, <1>6, <1>7, Zenon
<1> HIDE DEF node
<1>14. IsVerified([k \in 0..d |-> node(k)], siblings, cursor, leaf, d)
  <2>1. PICK h : h = [k \in 0..d |-> node(k)]
    BY Zenon
  <2>2. ASSUME NEW k \in 0..d
        PROVE  h[k] = IF k = 0 THEN leaf
                      ELSE IF cursor[k - 1] % 2 = 0 THEN <<h[k - 1], siblings[k]>>
                                                   ELSE <<siblings[k], h[k - 1]>>
    <3>1. h[k] = node(k) /\ (k # 0 => h[k - 1] = node(k - 1))
      BY <1>12, <2>1, Zenon
    <3> QED
      BY <1>11, <1>12, <1>13, <3>1, Zenon
  <2> QED
    BY <2>1, <2>2, Zenon DEF IsVerified
<1>15. Verified(siblings, index, leaf) = CHOOSE g : IsVerified(g, siblings, cursor, leaf, d)
  <2>1. Verified(siblings, index, leaf) =
          CHOOSE g : IsVerified(g, siblings, Cursors(index, Len(siblings)), leaf, Len(siblings))
    BY Zenon DEF Verified, IsVerified
  <2> QED
    BY <1>1, <1>5, <2>1, Zenon
<1>16. PICK g : g = Verified(siblings, index, leaf) /\ IsVerified(g, siblings, cursor, leaf, d)
  BY <1>14, <1>15, Zenon
<1> DEFINE T == {k \in 0..d : g[k] = node(k)}
<1>17. 0 \in T /\ d \in 0..d
  <2>1. 0 \in 0..d /\ d \in 0..d
    BY <1>2
  <2> QED
    BY <1>13, <1>16, <2>1, Zenon DEF IsVerified
<1>18. ASSUME NEW k \in 0..(d - 1), k \in T PROVE k + 1 \in T
  <2>1. PICK j : j = k + 1
    BY Zenon
  <2>2. j \in 1..d /\ j \in 0..d /\ j # 0 /\ j - 1 = k
    BY <1>2, <2>1
  <2>3. g[j] = IF cursor[j - 1] % 2 = 0 THEN <<g[j - 1], siblings[j]>> ELSE <<siblings[j], g[j - 1]>>
    BY <1>16, <2>2, Zenon DEF IsVerified
  <2>4. g[j - 1] = node(j - 1)
    BY <1>18, <2>2, Zenon
  <2> QED
    BY <1>11, <2>1, <2>2, <2>3, <2>4, Zenon
<1>19. g[d] = node(d)
  <2> HIDE DEF T
  <2>1. d \in T
    BY <1>2, <1>17, <1>18, InductTo, Zenon
  <2> QED
    BY <2>1, Zenon DEF T
<1>20. node(d) = L(d)[1]
  <2>1. PICK l \in Nat \ {0} : Row(L(d), l) /\ cursor[d] \in 0..(l - 1)
    BY <1>8, <1>17, Zenon
  <2>2. l = 1
    <3>1. Len(L(d)) = 1 /\ Len(L(d)) = l
      BY <1>2, <2>1, RowLength, Zenon
    <3> QED
      BY <3>1, Zenon
  <2>3. cursor[d] + 1 = 1
    BY <2>1, <2>2
  <2> QED
    BY <2>3, Zenon DEF node
<1> QED
  BY <1>1, <1>5, <1>10, <1>16, <1>19, <1>20, Zenon DEF VerifiesTo

-----------------------------------------------------------------------------
(* Audits, reopening and revocation *)

\* Finalised blocks carry the root of their events.
BlocksOk == \A b \in blocks : b.events \in EventLists /\ b.root = merkle_root(Leaves(b.events))

\* What Ledger::append has checked of every block of a chain.
Linked(s) ==
    /\ s \in Seq(Range(s))
    /\ \A h \in 1..Len(s) :
         /\ s[h].height = h - 1
         /\ s[h].previous = IF h = 1 THEN NoBlock ELSE s[h - 1]
         /\ s[h].root = merkle_root(Leaves(s[h].events))
         /\ h > 1 => s[h].timestamp >= s[h - 1].timestamp
         /\ s[h].events \in Seq(Range(s[h].events))

\* The files: an invitation is the node's own, and comes before all that is issued.
FilesOk(n) ==
    /\ Linked(chain[n])
    /\ invitation[n] # NoCert => invitation[n].member = n
    /\ DOMAIN issued[n] # {} \/ (up[n] /\ policy[n] # NoPolicy) => invitation[n] # NoCert
    /\ granted[n] \subseteq DOMAIN issued[n]

\* Every call under way is one of a running node.
CallsOk ==
    /\ \A a \in applying :
         /\ a = [node |-> a.node, thread |-> a.thread, height |-> a.height, events |-> a.events,
                 stage |-> a.stage, snapshot |-> a.snapshot]
         /\ a.node \in Nodes /\ up[a.node] /\ a.stage \in {"mark", "prune"}
    /\ \A r \in registering \cup installing : r.node \in Nodes /\ up[r.node]

\* Only a running node has gossip in hand.
BatchOk == \A n \in Nodes : batch[n] # <<>> => up[n]

Clean(n) == \A i \in revoked[n] \ raced[n] : ~Has(n, i)

\* A node whose appends do not overlap: at most one apply_revocations is under way; until
\* it has marked, the set lags behind the ledger by its events, and until it has pruned,
\* the policy lags behind the set.
RevocationOk(n) ==
    /\ \A a, c \in applying : a.node = n /\ c.node = n => a = c
    /\ \A r \in registering : r.node = n => r.cert.member \notin revoked[n] \ raced[n]
    /\ (\A a \in applying : a.node # n) => revoked[n] = LedgerRevoked(chain[n]) /\ Clean(n)
    /\ \A a \in applying : a.node = n /\ a.stage = "mark" =>
         LedgerRevoked(chain[n]) = Revoke(revoked[n], a.events) /\ Clean(n)
    /\ \A a \in applying : a.node = n /\ a.stage = "prune" =>
         LedgerRevoked(chain[n]) = revoked[n] /\ a.snapshot = revoked[n]

PolicyOk(n) ==
    policy[n] # NoPolicy =>
        policy[n] = [network |-> policy[n].network, permissions |-> policy[n].permissions]

Shaped ==
    /\ up = [n \in Nodes |-> up[n]] /\ policy = [n \in Nodes |-> policy[n]]
    /\ revoked = [n \in Nodes |-> revoked[n]] /\ raced = [n \in Nodes |-> raced[n]]
    /\ invitation = [n \in Nodes |-> invitation[n]] /\ issued = [n \in Nodes |-> issued[n]]
    /\ granted = [n \in Nodes |-> granted[n]] /\ chain = [n \in Nodes |-> chain[n]]

NodeOk(n) == FilesOk(n) /\ PolicyOk(n) /\ (up[n] /\ n \notin crossed => RevocationOk(n))

AdmissionInv ==
    /\ AgreementInv /\ BlocksOk /\ Shaped /\ CallsOk /\ BatchOk
    /\ \A n \in Nodes : NodeOk(n)

-----------------------------------------------------------------------------
(* What a list of events makes of a set of revoked members *)

Events(evs) == evs \in Seq(Range(evs))

MembersOf(evs) == {e.member : e \in Range(evs)}

IsRevocations(g, set, evs, n) ==
    g = [k \in 0..n |-> IF k = 0 THEN set ELSE Changed(g[k - 1], evs[k])]

\* The set after every event, and that events concern their members only.
LEMMA RevocationsAre ==
    ASSUME NEW set, NEW evs, Events(evs)
    PROVE  Len(evs) \in Nat /\ IsRevocations(Revocations(set, evs), set, evs, Len(evs))
<1>0. PICK n : n = Len(evs)
  BY Zenon
<1>1. n \in Nat /\ DOMAIN evs = 1..n
  BY <1>0 DEF Events
<1> DEFINE V == SUBSET (set \cup MembersOf(evs))
<1>2. PICK F : F = [p \in V \X (1..n) |-> Changed(p[1], evs[p[2]])]
  BY Zenon
<1>3. ASSUME NEW p \in V \X (1..n) PROVE Changed(p[1], evs[p[2]]) \in V
  <2>1. p[1] \in V /\ p[2] \in 1..n
    BY Zenon
  <2>2. evs[p[2]] \in Range(evs)
    BY <1>1, <2>1, Zenon DEF Range
  <2>3. evs[p[2]].member \in MembersOf(evs)
    BY <2>2, Zenon DEF MembersOf
  <2> QED
    BY <2>1, <2>3, Zenon DEF Changed
<1>4. F \in [V \X (1..n) -> V] /\ set \in V
  BY <1>2, <1>3, Zenon
<1>5. PICK g \in [0..n -> V] : Recurs(g, set, F, n)
  <2> HIDE DEF V
  <2> QED
    BY <1>1, <1>4, Recursion, Zenon
<1>6. 0 \in 0..n /\ \A k \in 0..n : k # 0 => k \in 1..n /\ k - 1 \in 0..n
  BY <1>1
<1>8. ASSUME NEW k \in 0..n PROVE g[k] = IF k = 0 THEN set ELSE Changed(g[k - 1], evs[k])
  <2>1. CASE k = 0
    BY <1>5, <2>1, Zenon DEF Recurs
  <2>2. CASE k # 0
    <3>1. <<g[k - 1], k>> \in V \X (1..n)
      BY <1>5, <1>6, <2>2, Zenon
    <3>2. F[<<g[k - 1], k>>] = Changed(g[k - 1], evs[k])
      BY <1>2, <3>1, Zenon
    <3> QED
      BY <1>5, <1>6, <2>2, <3>2, Zenon DEF Recurs
  <2> QED
    BY <2>1, <2>2, Zenon
<1>9. IsRevocations(g, set, evs, n)
  BY <1>5, <1>8, Zenon DEF IsRevocations
<1>10. Revocations(set, evs) = CHOOSE f : IsRevocations(f, set, evs, n)
  <2>1. Revocations(set, evs) = CHOOSE f : IsRevocations(f, set, evs, Len(evs))
    BY Zenon DEF Revocations, IsRevocations
  <2> QED
    BY <1>0, <2>1, Zenon
<1> QED
  BY <1>0, <1>1, <1>9, <1>10, Zenon

LEMMA RevokeWithin ==
    ASSUME NEW set, NEW evs, Events(evs)
    PROVE  Revoke(set, evs) \subseteq set \cup MembersOf(evs)
<1>1. PICK n : n = Len(evs)
  BY Zenon
<1>2. PICK g : g = Revocations(set, evs)
  BY Zenon
<1>3. n \in Nat /\ g[0] = set /\ \A k \in 1..n : g[k] = Changed(g[k - 1], evs[k])
  <2>1. n \in Nat /\ IsRevocations(g, set, evs, n)
    BY <1>1, <1>2, RevocationsAre, Zenon
  <2>2. 0 \in 0..n /\ \A k \in 1..n : k \in 0..n /\ k # 0
    BY <2>1
  <2> QED
    BY <2>1, <2>2, Zenon DEF IsRevocations
<1> DEFINE T == {k \in 0..n : g[k] \subseteq set \cup MembersOf(evs)}
<1>4. 0 \in T /\ n \in 0..n
  <2>1. 0 \in 0..n /\ n \in 0..n
    BY <1>3
  <2> QED
    BY <1>3, <2>1, Zenon
<1>5. ASSUME NEW k \in 0..(n - 1), k \in T PROVE k + 1 \in T
  <2>1. PICK j : j = k + 1
    BY Zenon
  <2>2. j \in 1..n /\ j \in 0..n /\ j - 1 = k
    BY <1>3, <2>1
  <2>3. evs[j].member \in MembersOf(evs)
    <3>1. DOMAIN evs = 1..n
      BY <1>1 DEF Events
    <3> QED
      BY <2>2, <3>1, Zenon DEF MembersOf, Range
  <2>4. g[j] = Changed(g[k], evs[j])
    BY <1>3, <2>2, Zenon
  <2> QED
    BY <1>5, <2>1, <2>2, <2>3, <2>4, Zenon DEF Changed
<1> HIDE DEF T
<1>6. n \in T
  BY <1>3, <1>4, <1>5, InductTo, Zenon
<1> QED
  BY <1>1, <1>2, <1>6, Zenon DEF T, Revoke

\* Events that neither revoke nor join leave the set as it is.
LEMMA RevokesNothing ==
    ASSUME NEW set, NEW evs, Events(evs), \A e \in Range(evs) : e.kind \notin {"revoked", "joined"}
    PROVE  Revoke(set, evs) = set
<1>1. PICK n : n = Len(evs)
  BY Zenon
<1>2. PICK g : g = Revocations(set, evs)
  BY Zenon
<1>3. n \in Nat /\ g[0] = set /\ \A k \in 1..n : g[k] = Changed(g[k - 1], evs[k])
  <2>1. n \in Nat /\ IsRevocations(g, set, evs, n)
    BY <1>1, <1>2, RevocationsAre, Zenon
  <2>2. 0 \in 0..n /\ \A k \in 1..n : k \in 0..n /\ k # 0
    BY <2>1
  <2> QED
    BY <2>1, <2>2, Zenon DEF IsRevocations
<1> DEFINE T == {k \in 0..n : g[k] = set}
<1>4. 0 \in T /\ n \in 0..n
  <2>1. 0 \in 0..n /\ n \in 0..n
    BY <1>3
  <2> QED
    BY <1>3, <2>1, Zenon
<1>5. ASSUME NEW k \in 0..(n - 1), k \in T PROVE k + 1 \in T
  <2>1. PICK j : j = k + 1
    BY Zenon
  <2>2. j \in 1..n /\ j \in 0..n /\ j - 1 = k
    BY <1>3, <2>1
  <2>3. evs[j].kind \notin {"revoked", "joined"}
    <3>1. DOMAIN evs = 1..n
      BY <1>1 DEF Events
    <3> QED
      BY <2>2, <3>1, Zenon DEF Range
  <2>4. g[j] = Changed(g[k], evs[j])
    BY <1>3, <2>2, Zenon
  <2> QED
    BY <1>5, <2>1, <2>2, <2>3, <2>4, Zenon DEF Changed
<1> HIDE DEF T
<1>6. n \in T
  BY <1>3, <1>4, <1>5, InductTo, Zenon
<1> QED
  BY <1>1, <1>2, <1>6, Zenon DEF T, Revoke

\* A chain whose blocks hold lists of events.
EventChain(c) == c \in Seq(Range(c)) /\ \A k \in 1..Len(c) : Events(c[k].events)

IsChainRevocations(g, c, n) ==
    g = [k \in 0..n |-> IF k = 0 THEN {} ELSE Revoke(g[k - 1], c[k].events)]

LEMMA ChainRevocationsAre ==
    ASSUME NEW c, EventChain(c), NEW n, n = Len(c)
    PROVE  /\ n \in Nat
           /\ ChainRevocations(c)[0] = {}
           /\ \A k \in 1..n : ChainRevocations(c)[k] = Revoke(ChainRevocations(c)[k - 1], c[k].events)
<1>1. n \in Nat /\ \A k \in 1..n : Events(c[k].events)
  BY DEF EventChain
<1> DEFINE V == SUBSET (UNION {MembersOf(c[k].events) : k \in 1..n})
<1>2. PICK F : F = [p \in V \X (1..n) |-> Revoke(p[1], c[p[2]].events)]
  BY Zenon
<1>3. ASSUME NEW p \in V \X (1..n) PROVE Revoke(p[1], c[p[2]].events) \in V
  <2>1. p[1] \in V /\ p[2] \in 1..n
    BY Zenon
  <2>2. Revoke(p[1], c[p[2]].events) \subseteq p[1] \cup MembersOf(c[p[2]].events)
    BY <1>1, <2>1, RevokeWithin, Zenon
  <2> QED
    BY <2>1, <2>2, Zenon
<1>4. F \in [V \X (1..n) -> V] /\ {} \in V
  BY <1>2, <1>3, Zenon
<1>5. PICK g \in [0..n -> V] : Recurs(g, {}, F, n)
  <2> HIDE DEF V
  <2> QED
    BY <1>1, <1>4, Recursion, Zenon
<1>6. 0 \in 0..n /\ \A k \in 0..n : k # 0 => k \in 1..n /\ k - 1 \in 0..n
  BY <1>1
<1>7. \A k \in 1..n : k \in 0..n /\ k # 0
  BY <1>1
<1>8. ASSUME NEW k \in 0..n PROVE g[k] = IF k = 0 THEN {} ELSE Revoke(g[k - 1], c[k].events)
  <2>1. CASE k = 0
    BY <1>5, <2>1, Zenon DEF Recurs
  <2>2. CASE k # 0
    <3>1. <<g[k - 1], k>> \in V \X (1..n)
      <4> HIDE DEF V
      <4> QED
        BY <1>5, <1>6, <2>2, Zenon
    <3>2. F[<<g[k - 1], k>>] = Revoke(g[k - 1], c[k].events)
      <4> HIDE DEF V
      <4> QED
        BY <1>2, <3>1, Zenon
    <3> QED
      BY <1>5, <1>6, <2>2, <3>2, Zenon DEF Recurs
  <2> QED
    BY <2>1, <2>2, Zenon
<1>9. IsChainRevocations(g, c, n)
  <2> HIDE DEF V
  <2> QED
    BY <1>5, <1>8, Zenon DEF IsChainRevocations
<1>10. ChainRevocations(c) = CHOOSE f : IsChainRevocations(f, c, n)
  <2>1. ChainRevocations(c) = CHOOSE f : IsChainRevocations(f, c, Len(c))
    BY Zenon DEF ChainRevocations, IsChainRevocations
  <2> QED
    BY <2>1, Zenon
<1>11. PICK h : h = ChainRevocations(c) /\ IsChainRevocations(h, c, n)
  BY <1>9, <1>10, Zenon
<1> QED
  BY <1>1, <1>6, <1>7, <1>11, Zenon DEF IsChainRevocations

\* refresh_revocations_from_ledger on an empty ledger.
LEMMA NothingRevoked == LedgerRevoked(<<>>) = {}
<1>1. EventChain(<<>>) /\ Len(<<>>) = 0
  BY DEF EventChain
<1> QED
  BY <1>1, ChainRevocationsAre, Zenon DEF LedgerRevoked

\* What a block adds to the revocations of its ledger.
LEMMA BlockRevokes ==
    ASSUME NEW c, EventChain(c), NEW b, Events(b.events)
    PROVE  /\ EventChain(Append(c, b))
           /\ LedgerRevoked(Append(c, b)) = Revoke(LedgerRevoked(c), b.events)
<1>1. PICK d, n : d = Append(c, b) /\ n = Len(c)
  BY Zenon
<1>2. n \in Nat /\ c \in Seq(Range(c) \cup {b}) /\ b \in Range(c) \cup {b}
  BY <1>1 DEF EventChain
<1>3. /\ d \in Seq(Range(c) \cup {b}) /\ Len(d) = n + 1 /\ DOMAIN d = 1..(n + 1) /\ d[n + 1] = b
      /\ \A k \in 1..n : d[k] = c[k]
  BY <1>1, <1>2
<1>4. EventChain(d)
  <2>1. Row(d, n + 1)
    BY <1>3, SeqIsRow, Zenon
  <2>2. d \in Seq(Range(d))
    BY <2>1, RowLength, Zenon
  <2>3. ASSUME NEW k \in 1..(n + 1) PROVE Events(d[k].events)
    <3>1. CASE k = n + 1
      BY <1>3, <3>1, Zenon
    <3>2. CASE k # n + 1
      <4>1. k \in 1..n
        BY <1>2, <3>2
      <4> QED
        BY <1>1, <1>3, <4>1, Zenon DEF EventChain
    <3> QED
      BY <3>1, <3>2, Zenon
  <2> QED
    BY <1>3, <2>2, <2>3, Zenon DEF EventChain
<1>5. PICK f, g : f = ChainRevocations(c) /\ g = ChainRevocations(d)
  BY Zenon
<1>6. f[0] = {} /\ \A k \in 1..n : f[k] = Revoke(f[k - 1], c[k].events)
  BY <1>1, <1>5, ChainRevocationsAre, Zenon
<1>7. g[0] = {} /\ \A k \in 1..(n + 1) : g[k] = Revoke(g[k - 1], d[k].events)
  BY <1>3, <1>4, <1>5, ChainRevocationsAre, Zenon
<1> DEFINE T == {k \in 0..n : g[k] = f[k]}
<1>8. 0 \in T /\ n \in 0..n
  <2>1. 0 \in 0..n /\ n \in 0..n
    BY <1>2
  <2> QED
    BY <1>6, <1>7, <2>1, Zenon
<1>9. ASSUME NEW k \in 0..(n - 1), k \in T PROVE k + 1 \in T
  <2>1. PICK j : j = k + 1
    BY Zenon
  <2>2. j \in 1..n /\ j \in 1..(n + 1) /\ j \in 0..n /\ j - 1 = k
    BY <1>2, <2>1
  <2>3. g[j] = Revoke(g[k], c[j].events) /\ f[j] = Revoke(f[k], c[j].events)
    BY <1>3, <1>6, <1>7, <2>2, Zenon
  <2> QED
    BY <1>9, <2>1, <2>2, <2>3, Zenon
<1> HIDE DEF T
<1>10. g[n] = f[n]
  <2>1. n \in T
    BY <1>2, <1>8, <1>9, InductTo, Zenon
  <2> QED
    BY <2>1, Zenon DEF T
<1>11. g[n + 1] = Revoke(g[n], b.events)
  <2>1. n + 1 \in 1..(n + 1) /\ (n + 1) - 1 = n
    BY <1>2
  <2>2. g[n + 1] = Revoke(g[(n + 1) - 1], d[n + 1].events)
    BY <1>7, <2>1, Zenon
  <2> QED
    BY <1>3, <2>1, <2>2, Zenon
<1> QED
  BY <1>1, <1>3, <1>4, <1>5, <1>10, <1>11, Zenon DEF LedgerRevoked

-----------------------------------------------------------------------------
(* Steps of one node *)

\* What a step of node n leaves alone.
Only(n) ==
    /\ \A m \in Nodes : m # n =>
         /\ up'[m] = up[m] /\ policy'[m] = policy[m] /\ revoked'[m] = revoked[m]
         /\ raced'[m] = raced[m] /\ invitation'[m] = invitation[m] /\ issued'[m] = issued[m]
         /\ granted'[m] = granted[m] /\ chain'[m] = chain[m]
         /\ m \in crossed => m \in crossed'
    /\ \A a : a.node # n => (a \in applying' <=> a \in applying)
    /\ \A r : r.node # n => (r \in registering' <=> r \in registering)

\* The other nodes stay as they were.
LEMMA OthersKeep ==
    ASSUME NEW n, Only(n), NEW m \in Nodes, m # n, NodeOk(m)
    PROVE  NodeOk(m)'
<1>1. /\ up'[m] = up[m] /\ policy'[m] = policy[m] /\ revoked'[m] = revoked[m]
      /\ raced'[m] = raced[m] /\ invitation'[m] = invitation[m] /\ issued'[m] = issued[m]
      /\ granted'[m] = granted[m] /\ chain'[m] = chain[m] /\ (m \in crossed => m \in crossed')
  BY Zenon DEF Only
<1>2. /\ \A a : a.node = m => (a \in applying' <=> a \in applying)
      /\ \A r : r.node = m => (r \in registering' <=> r \in registering)
  BY Zenon DEF Only
<1>3. FilesOk(m)'
  BY <1>1, Zenon DEF NodeOk, FilesOk
<1>4. PolicyOk(m)'
  BY <1>1, Zenon DEF NodeOk, PolicyOk
<1>5. ASSUME up'[m], m \notin crossed' PROVE RevocationOk(m)'
  <2>1. RevocationOk(m)
    BY <1>1, <1>5, Zenon DEF NodeOk
  <2>2. Clean(m) => Clean(m)'
    BY <1>1, Zenon DEF Clean, Has
  <2>3. /\ \A a, c \in applying' : a.node = m /\ c.node = m => a = c
        /\ \A r \in registering' : r.node = m => r.cert.member \notin revoked'[m] \ raced'[m]
        /\ (\A a \in applying' : a.node # m) => revoked'[m] = LedgerRevoked(chain'[m]) /\ Clean(m)'
    BY <1>1, <1>2, <2>1, <2>2, Zenon DEF RevocationOk
  <2>4. /\ \A a \in applying' : a.node = m /\ a.stage = "mark" =>
             LedgerRevoked(chain'[m]) = Revoke(revoked'[m], a.events) /\ Clean(m)'
        /\ \A a \in applying' : a.node = m /\ a.stage = "prune" =>
             LedgerRevoked(chain'[m]) = revoked'[m] /\ a.snapshot = revoked'[m]
    BY <1>1, <1>2, <2>1, <2>2, Zenon DEF RevocationOk
  <2> QED
    BY <2>3, <2>4, Zenon DEF RevocationOk
<1> QED
  BY <1>3, <1>4, <1>5, Zenon DEF NodeOk

\* A batch is taken by a running node, and lost when it crashes.
LEMMA BatchKeeps == AgreementInv /\ Shaped /\ BatchOk /\ [Next]_vars => BatchOk'
<1> SUFFICES ASSUME AgreementInv, Shaped, BatchOk, [Next]_vars PROVE BatchOk'
  BY Zenon
<1>1. /\ batch = [n \in Nodes |-> batch[n]] /\ queue = [n \in Nodes |-> queue[n]]
      /\ up = [n \in Nodes |-> up[n]]
  <2>1. batch \in [Nodes -> Seq(Messages)] /\ queue \in [Nodes -> Seq(Messages)]
    BY Zenon DEF AgreementInv, Gossip
  <2> QED
    BY <2>1, Zenon DEF Shaped
<1>2. ASSUME UNCHANGED <<up, batch>> PROVE BatchOk'
  BY <1>2, Zenon DEF BatchOk
<1>3. ASSUME NEW n \in Nodes, up[n], UNCHANGED up, NEW s, batch' = [batch EXCEPT ![n] = s]
      PROVE  BatchOk'
  BY <1>1, <1>3, Zenon DEF BatchOk
<1>4. ASSUME NEW n \in Nodes, NEW topic, Drain(n, topic) PROVE BatchOk'
  <2>1. up[n] /\ UNCHANGED up /\ (batch' = [batch EXCEPT ![n] = queue[n]] \/ batch' = batch)
    BY <1>4, Zenon DEF Drain
  <2> QED
    BY <1>2, <1>3, <2>1, Zenon
<1>5. ASSUME NEW n \in Nodes, Merge(n) PROVE BatchOk'
  <2>1. /\ batch[n] # <<>> /\ UNCHANGED up
        /\ batch' = [batch EXCEPT ![n] = Tail(batch[n])] \/ batch' = [batch EXCEPT ![n] = <<>>]
    BY <1>5, Zenon DEF Merge
  <2>2. up[n]
    BY <2>1, Zenon DEF BatchOk
  <2> QED
    BY <1>3, <2>1, <2>2, Zenon
<1>6. ASSUME NEW n \in Nodes, Crash(n) PROVE BatchOk'
  BY <1>1, <1>6, Zenon DEF Crash, BatchOk
<1>7. ASSUME NEW n \in Nodes, Open(n) PROVE BatchOk'
  BY <1>1, <1>7, Zenon DEF Open, BatchOk, calls
<1>8. ASSUME NEW n \in Nodes, NEW evs, NEW s, Propose(n, evs, s) PROVE BatchOk'
  BY <1>2, <1>8, Zenon DEF Propose, calls
<1>9. ASSUME NEW n \in Nodes, NEW b, AppendLocal(n) \/ AppendCall(n, b) PROVE BatchOk'
  BY <1>2, <1>9, Zenon DEF AppendLocal, AppendCall, calls
<1>10. ASSUME NEW n \in Nodes, NEW m, Deliver(n, m) PROVE BatchOk'
  BY <1>2, <1>10, Zenon DEF Deliver, calls
<1>11. ASSUME NEW n \in Nodes, NEW cert, Check(n, cert) \/ Install(n, cert) PROVE BatchOk'
  BY <1>2, <1>11, Zenon DEF Check, Install
<1>12. ASSUME NEW a, Mark(a) \/ Prune(a) \/ Register(a) \/ AdmitIssuer(a) PROVE BatchOk'
  BY <1>2, <1>12, Zenon DEF Mark, Prune, Register, AdmitIssuer
<1>13. CASE Tick \/ UNCHANGED vars
  BY <1>2, <1>13, Zenon DEF Tick, vars, calls
<1> QED
  BY <1>4, <1>5, <1>6, <1>7, <1>8, <1>9, <1>10, <1>11, <1>12, <1>13, Zenon DEF Next

\* A step that moves nothing of what the invariant speaks of.
LEMMA IdleKeeps ==
    ASSUME AdmissionInv, [Next]_vars, BlocksOk',
           UNCHANGED <<up, disk, memory, registering, installing, applying, history>>
    PROVE  AdmissionInv'
<1>1. Shaped'
  BY Zenon DEF AdmissionInv, Shaped, disk, memory, history
<1>2. CallsOk'
  BY Zenon DEF AdmissionInv, CallsOk
<1>3. ASSUME NEW n \in Nodes PROVE NodeOk(n)'
  <2>1. NodeOk(n)
    BY Zenon DEF AdmissionInv
  <2>2. FilesOk(n)'
    BY <2>1, Zenon DEF NodeOk, FilesOk, disk, memory, history
  <2>3. PolicyOk(n)'
    BY <2>1, Zenon DEF NodeOk, PolicyOk, memory
  <2>4. RevocationOk(n) => RevocationOk(n)'
    BY Zenon DEF RevocationOk, Clean, Has, disk, memory, history
  <2> QED
    BY <2>1, <2>2, <2>3, <2>4, Zenon DEF NodeOk, history
<1>4. AgreementInv' /\ BatchOk'
  BY StepsKeepAgreement, BatchKeeps, Zenon DEF AdmissionInv
<1> QED
  BY <1>1, <1>2, <1>3, <1>4, Zenon DEF AdmissionInv

\* A step of node n.
LEMMA NodeKeeps ==
    ASSUME AdmissionInv, [Next]_vars, NEW n \in Nodes, Only(n), UNCHANGED blocks,
           Shaped', CallsOk', NodeOk(n)'
    PROVE  AdmissionInv'
<1>1. AgreementInv' /\ BatchOk'
  BY StepsKeepAgreement, BatchKeeps, Zenon DEF AdmissionInv
<1>2. BlocksOk'
  BY Zenon DEF AdmissionInv, BlocksOk
<1>3. ASSUME NEW m \in Nodes PROVE NodeOk(m)'
  <2>1. CASE m = n
    BY <2>1, Zenon
  <2>2. CASE m # n
    BY <2>2, OthersKeep, Zenon DEF AdmissionInv
  <2> QED
    BY <2>1, <2>2, Zenon
<1> QED
  BY <1>1, <1>2, <1>3, Zenon DEF AdmissionInv

-----------------------------------------------------------------------------
(* Blocks *)

\* Ledger::append keeps a chain one that Ledger::open accepts.
LEMMA LinkedGrows ==
    ASSUME NEW s, Linked(s), NEW b, Links(s, b), Events(b.events)
    PROVE  Linked(Append(s, b))
<1>1. PICK t, n : t = Append(s, b) /\ n = Len(s)
  BY Zenon
<1>2. n \in Nat /\ s \in Seq(Range(s) \cup {b}) /\ b \in Range(s) \cup {b}
  BY <1>1 DEF Linked
<1>3. /\ t \in Seq(Range(s) \cup {b}) /\ Len(t) = n + 1 /\ t[n + 1] = b
      /\ \A k \in 1..n : t[k] = s[k]
  BY <1>1, <1>2
<1>4. t \in Seq(Range(t))
  <2>1. Row(t, n + 1)
    BY <1>3, SeqIsRow, Zenon
  <2> QED
    BY <2>1, RowLength, Zenon
<1> DEFINE Fits(h) ==
      /\ t[h].height = h - 1
      /\ t[h].previous = IF h = 1 THEN NoBlock ELSE t[h - 1]
      /\ t[h].root = merkle_root(Leaves(t[h].events))
      /\ h > 1 => t[h].timestamp >= t[h - 1].timestamp
      /\ t[h].events \in Seq(Range(t[h].events))
<1>5. ASSUME NEW h \in 1..n PROVE Fits(h)
  <2>1. t[h] = s[h] /\ (h # 1 => t[h - 1] = s[h - 1]) /\ (h > 1 => h # 1)
    <3>1. (h # 1 => h - 1 \in 1..n) /\ (h > 1 => h # 1)
      BY <1>2
    <3> QED
      BY <1>3, <3>1, Zenon
  <2> QED
    BY <1>1, <2>1, Zenon DEF Linked
<1>6. Fits(n + 1)
  <2>1. /\ b.height = n /\ b.previous = Tip(s) /\ b.root = merkle_root(Leaves(b.events))
        /\ s # <<>> => b.timestamp >= s[n].timestamp
    BY <1>1, Zenon DEF Links
  <2>2. /\ (n + 1) - 1 = n /\ (n + 1 = 1 <=> n = 0) /\ (n + 1 > 1 <=> n # 0) /\ (s = <<>> <=> n = 0)
        /\ n # 0 => n \in 1..n
    BY <1>1, <1>2
  <2>3. n # 0 => t[n] = s[n] /\ Tip(s) = s[n]
    BY <1>1, <1>3, <2>2, Zenon DEF Tip
  <2>4. n = 0 => Tip(s) = NoBlock
    BY <2>2, Zenon DEF Tip
  <2>5. b.events \in Seq(Range(b.events))
    BY Zenon DEF Events
  <2> QED
    BY <1>3, <2>1, <2>2, <2>3, <2>4, <2>5, Zenon
<1>7. \A h \in 1..(n + 1) : h = n + 1 \/ h \in 1..n
  BY <1>2
<1> QED
  BY <1>1, <1>3, <1>4, <1>5, <1>6, <1>7, Zenon DEF Linked

LEMMA LinkedEvents == ASSUME NEW s, Linked(s) PROVE EventChain(s)
  BY Zenon DEF Linked, EventChain, Events

\* Blocks hold lists of events, and the node's own events concern no member.
LEMMA EventsListed ==
    /\ AdmissionInv => \A b \in blocks : Events(b.events)
    /\ Events(OwnEvents) /\ \A e \in Range(OwnEvents) : e.kind \notin {"revoked", "joined"}
<1>1. ASSUME AdmissionInv, NEW b \in blocks PROVE Events(b.events)
  BY <1>1, AdmissionAssumption, Zenon DEF AdmissionInv, BlocksOk, Events
<1> DEFINE S == {e \in Range(OwnEvents) : e.kind \notin {"revoked", "joined"}}
<1>2. OwnEvents \in Seq(S) /\ S \subseteq Range(OwnEvents)
  BY AdmissionAssumption, Zenon
<1> HIDE DEF S
<1>3. Row(OwnEvents, Len(OwnEvents))
  BY <1>2, SeqIsRow, Zenon
<1>4. Events(OwnEvents) /\ DOMAIN OwnEvents = 1..Len(OwnEvents)
  BY <1>3, RowLength, Zenon DEF Events
<1>5. \A k \in 1..Len(OwnEvents) : OwnEvents[k] \in S
  BY <1>2
<1>6. \A e \in Range(OwnEvents) : e \in S
  BY <1>4, <1>5, Zenon DEF Range
<1> QED
  BY <1>1, <1>4, <1>6, Zenon DEF S

\* append_ledger_event: a block that changes no revocation.
LEMMA LocalKeeps ==
    ASSUME AdmissionInv, NEW n \in Nodes, AppendLocal(n)
    PROVE  Only(n) /\ Shaped' /\ CallsOk' /\ NodeOk(n)'
<1>1. PICK b : b = next_block(chain[n], OwnEvents, clock, Local, {n})
  BY Zenon
<1>2. /\ Links(chain[n], b) /\ chain' = [chain EXCEPT ![n] = Append(@, b)]
      /\ UNCHANGED <<up, invitation, issued, policy, revoked, registering, installing, applying,
                     granted, crossed, raced>>
  BY <1>1, Zenon DEF AppendLocal, memory, calls, history
<1>3. b.events = OwnEvents
  BY <1>1, Zenon DEF next_block
<1>4. /\ chain' = [m \in Nodes |-> chain'[m]] /\ chain'[n] = Append(chain[n], b)
      /\ \A m \in Nodes : m # n => chain'[m] = chain[m]
  BY <1>2, Zenon DEF AdmissionInv, Shaped
<1>5. Only(n)
  BY <1>2, <1>4, Zenon DEF Only
<1>6. Shaped'
  BY <1>2, <1>4, Zenon DEF AdmissionInv, Shaped
<1>7. CallsOk'
  BY <1>2, Zenon DEF AdmissionInv, CallsOk
<1>8. NodeOk(n)
  BY Zenon DEF AdmissionInv
<1>9. Linked(chain[n]) /\ Linked(chain'[n])
  BY <1>2, <1>3, <1>4, <1>8, EventsListed, LinkedGrows, Zenon DEF NodeOk, FilesOk
<1>10. LedgerRevoked(chain'[n]) = LedgerRevoked(chain[n])
  <2>1. LedgerRevoked(Append(chain[n], b)) = Revoke(LedgerRevoked(chain[n]), b.events)
    BY <1>3, <1>9, EventsListed, LinkedEvents, BlockRevokes, Zenon
  <2>2. PICK old : old = LedgerRevoked(chain[n])
    BY Zenon
  <2>3. Revoke(old, OwnEvents) = old
    BY EventsListed, RevokesNothing, Zenon
  <2> QED
    BY <1>3, <1>4, <2>1, <2>2, <2>3, Zenon
<1>11. FilesOk(n)'
  BY <1>2, <1>8, <1>9, Zenon DEF NodeOk, FilesOk
<1>12. PolicyOk(n)'
  BY <1>2, <1>8, Zenon DEF NodeOk, PolicyOk
<1>13. RevocationOk(n) => RevocationOk(n)'
  BY <1>2, <1>10, Zenon DEF RevocationOk, Clean, Has
<1> QED
  BY <1>2, <1>5, <1>6, <1>7, <1>8, <1>11, <1>12, <1>13, Zenon DEF NodeOk

\* append_ledger_block up to the release of the lock: an apply_revocations is due.
LEMMA AppendKeeps ==
    ASSUME AdmissionInv, NEW n \in Nodes, NEW b \in blocks, NEW thread, up[n],
           Links(chain[n], b), AppendTo(n, b, thread),
           UNCHANGED <<up, invitation, issued, policy, revoked, registering, installing, granted, raced>>
    PROVE  Only(n) /\ Shaped' /\ CallsOk' /\ NodeOk(n)'
<1>1. PICK new : new = [node |-> n, thread |-> thread, height |-> b.height, events |-> b.events,
                        stage |-> "mark", snapshot |-> {}]
  BY Zenon
<1>2. /\ chain' = [chain EXCEPT ![n] = Append(@, b)] /\ applying' = applying \cup {new}
      /\ crossed' = IF \E a \in applying : a.node = n THEN crossed \cup {n} ELSE crossed
  BY <1>1, Zenon DEF AppendTo
<1>3. /\ new.node = n /\ new.stage = "mark" /\ new.events = b.events
      /\ new = [node |-> new.node, thread |-> new.thread, height |-> new.height,
                events |-> new.events, stage |-> new.stage, snapshot |-> new.snapshot]
  BY <1>1, Zenon
<1>4. /\ chain' = [m \in Nodes |-> chain'[m]] /\ chain'[n] = Append(chain[n], b)
      /\ \A m \in Nodes : m # n => chain'[m] = chain[m]
  BY <1>2, Zenon DEF AdmissionInv, Shaped
<1>5. Only(n)
  BY <1>2, <1>3, <1>4, Zenon DEF Only
<1>6. Shaped'
  BY <1>4, Zenon DEF AdmissionInv, Shaped
<1>7. CallsOk'
  BY <1>2, <1>3, Zenon DEF AdmissionInv, CallsOk
<1>8. NodeOk(n) /\ Events(b.events)
  BY EventsListed, Zenon DEF AdmissionInv
<1>9. Linked(chain[n]) /\ Linked(chain'[n])
  BY <1>4, <1>8, LinkedGrows, Zenon DEF NodeOk, FilesOk
<1>10. LedgerRevoked(chain'[n]) = Revoke(LedgerRevoked(chain[n]), b.events)
  BY <1>4, <1>8, <1>9, LinkedEvents, BlockRevokes, Zenon
<1>11. FilesOk(n)'
  BY <1>8, <1>9, Zenon DEF NodeOk, FilesOk
<1>12. PolicyOk(n)'
  BY <1>8, Zenon DEF NodeOk, PolicyOk
<1>13. ASSUME n \notin crossed' PROVE RevocationOk(n)'
  <2>1. n \notin crossed /\ \A a \in applying : a.node # n
    BY <1>2, <1>13, Zenon
  <2>2. RevocationOk(n)
    BY <1>8, <2>1, Zenon DEF NodeOk
  <2>3. revoked[n] = LedgerRevoked(chain[n]) /\ Clean(n)
    BY <2>1, <2>2, Zenon DEF RevocationOk
  <2>4. Clean(n)'
    BY <2>3, Zenon DEF Clean, Has
  <2>5. \A a \in applying' : a.node = n => a = new
    BY <1>2, <2>1, Zenon
  <2>6. new \in applying'
    BY <1>2, Zenon
  <2>7. LedgerRevoked(chain'[n]) = Revoke(revoked'[n], new.events)
    BY <1>3, <1>10, <2>3, Zenon
  <2>8. \A r \in registering' : r.node = n => r.cert.member \notin revoked'[n] \ raced'[n]
    BY <2>2, Zenon DEF RevocationOk
  <2> QED
    BY <1>3, <2>4, <2>5, <2>6, <2>7, <2>8, Zenon DEF RevocationOk
<1> QED
  BY <1>5, <1>6, <1>7, <1>11, <1>12, <1>13, Zenon DEF NodeOk

\* apply_revocations, the set: what registrations it overtakes is on record.
LEMMA MarkKeeps ==
    ASSUME AdmissionInv, NEW a \in applying, Mark(a)
    PROVE  a.node \in Nodes /\ Only(a.node) /\ Shaped' /\ CallsOk' /\ NodeOk(a.node)'
<1>1. PICK n, now, new : /\ n = a.node /\ now = Revoke(revoked[n], a.events)
                         /\ new = [a EXCEPT !.stage = "prune", !.snapshot = now]
  BY Zenon
<1>2. n \in Nodes /\ up[n]
  BY <1>1, Zenon DEF AdmissionInv, CallsOk
<1>3. /\ a.stage = "mark" /\ revoked' = [revoked EXCEPT ![n] = now]
      /\ applying' = (applying \ {a}) \cup {new}
      /\ raced' = [raced EXCEPT ![n] = @ \cup Overtaken(n, now)]
      /\ UNCHANGED <<up, chain, invitation, issued, policy, registering, installing, granted, crossed>>
  BY <1>1, Zenon DEF Mark, disk
<1>4. a = [node |-> a.node, thread |-> a.thread, height |-> a.height, events |-> a.events,
           stage |-> a.stage, snapshot |-> a.snapshot]
  BY Zenon DEF AdmissionInv, CallsOk
<1>5. /\ new.node = n /\ new.stage = "prune" /\ new.snapshot = now
      /\ new = [node |-> new.node, thread |-> new.thread, height |-> new.height,
                events |-> new.events, stage |-> new.stage, snapshot |-> new.snapshot]
  <2>1. new = [node |-> a.node, thread |-> a.thread, height |-> a.height, events |-> a.events,
               stage |-> "prune", snapshot |-> now]
    <3>1. PICK p, q, x, y, z, w : a = [node |-> p, thread |-> q, height |-> x, events |-> y,
                                       stage |-> z, snapshot |-> w]
      BY <1>4, Zenon
    <3>2. new = [node |-> p, thread |-> q, height |-> x, events |-> y, stage |-> "prune",
                 snapshot |-> now]
      BY <1>1, <3>1, Zenon
    <3>3. a.node = p /\ a.thread = q /\ a.height = x /\ a.events = y
      BY <3>1, Zenon
    <3> QED
      BY <3>2, <3>3, Zenon
  <2> QED
    BY <1>1, <2>1, Zenon
<1>6. /\ revoked' = [m \in Nodes |-> revoked'[m]] /\ revoked'[n] = now
      /\ raced' = [m \in Nodes |-> raced'[m]] /\ raced'[n] = raced[n] \cup Overtaken(n, now)
      /\ \A m \in Nodes : m # n => revoked'[m] = revoked[m] /\ raced'[m] = raced[m]
  BY <1>2, <1>3, Zenon DEF AdmissionInv, Shaped
<1>7. Only(n)
  BY <1>1, <1>3, <1>5, <1>6, Zenon DEF Only
<1>8. Shaped'
  BY <1>3, <1>6, Zenon DEF AdmissionInv, Shaped
<1>9. CallsOk'
  BY <1>2, <1>3, <1>5, Zenon DEF AdmissionInv, CallsOk
<1>10. NodeOk(n)
  BY <1>2, Zenon DEF AdmissionInv
<1>11. FilesOk(n)'
  BY <1>3, <1>10, Zenon DEF NodeOk, FilesOk
<1>12. PolicyOk(n)'
  BY <1>3, <1>10, Zenon DEF NodeOk, PolicyOk
<1>13. ASSUME n \notin crossed' PROVE RevocationOk(n)'
  <2>1. RevocationOk(n)
    BY <1>2, <1>3, <1>10, <1>13, Zenon DEF NodeOk
  <2>2. \A c \in applying' : c.node = n => c = new
    BY <1>1, <1>3, <2>1, Zenon DEF RevocationOk
  <2>3. new \in applying'
    BY <1>3, Zenon
  <2>4. LedgerRevoked(chain'[n]) = revoked'[n] /\ new.snapshot = revoked'[n]
    BY <1>1, <1>3, <1>5, <1>6, <2>1, Zenon DEF RevocationOk
  <2>5. ASSUME NEW r \in registering', r.node = n, r.cert.member \in now
        PROVE  r.cert.member \in raced'[n]
    <3>1. CASE r.cert.member \in revoked[n]
      BY <1>3, <1>6, <2>1, <2>5, <3>1, Zenon DEF RevocationOk
    <3>2. CASE r.cert.member \notin revoked[n]
      BY <1>3, <1>6, <2>5, <3>2, Zenon DEF Overtaken
    <3> QED
      BY <3>1, <3>2, Zenon
  <2>6. \A r \in registering' : r.node = n => r.cert.member \notin revoked'[n] \ raced'[n]
    BY <1>6, <2>5, Zenon
  <2> QED
    BY <1>5, <2>2, <2>3, <2>4, <2>6, Zenon DEF RevocationOk
<1> QED
  BY <1>1, <1>2, <1>7, <1>8, <1>9, <1>11, <1>12, <1>13, Zenon DEF NodeOk

\* apply_revocations, the policy.
LEMMA PruneKeeps ==
    ASSUME AdmissionInv, NEW a \in applying, Prune(a)
    PROVE  a.node \in Nodes /\ Only(a.node) /\ Shaped' /\ CallsOk' /\ NodeOk(a.node)'
<1>1. PICK n : n = a.node
  BY Zenon
<1>2. n \in Nodes /\ up[n] /\ NodeOk(n)
  BY <1>1, Zenon DEF AdmissionInv, CallsOk
<1>3. /\ a.stage = "prune" /\ applying' = applying \ {a}
      /\ policy' = IF policy[n] = NoPolicy THEN policy
                   ELSE [policy EXCEPT ![n].permissions = Without(@, a.snapshot)]
      /\ UNCHANGED <<up, chain, invitation, issued, revoked, raced, registering, installing, granted,
                     crossed>>
  BY <1>1, Zenon DEF Prune, disk, history
<1>4. /\ policy' = [m \in Nodes |-> policy'[m]]
      /\ \A m \in Nodes : m # n => policy'[m] = policy[m]
      /\ policy'[n] = IF policy[n] = NoPolicy THEN policy[n]
                      ELSE [policy[n] EXCEPT !.permissions = Without(@, a.snapshot)]
  BY <1>2, <1>3, Zenon DEF AdmissionInv, Shaped
<1>5. policy[n] # NoPolicy =>
        /\ policy'[n] = [network |-> policy'[n].network, permissions |-> policy'[n].permissions]
        /\ DOMAIN policy'[n].permissions = DOMAIN policy[n].permissions \ a.snapshot
  <2>1. SUFFICES ASSUME policy[n] # NoPolicy
                 PROVE  /\ policy'[n] = [network |-> policy'[n].network,
                                         permissions |-> policy'[n].permissions]
                        /\ DOMAIN policy'[n].permissions = DOMAIN policy[n].permissions \ a.snapshot
    BY Zenon
  <2>2. PICK p, f : policy[n] = [network |-> p, permissions |-> f]
    BY <1>2, <2>1, Zenon DEF NodeOk, PolicyOk
  <2>3. PICK g : g = Without(f, a.snapshot)
    BY Zenon
  <2>4. policy'[n] = [network |-> p, permissions |-> g]
    BY <1>4, <2>1, <2>2, <2>3
  <2>5. DOMAIN g = DOMAIN f \ a.snapshot
    BY <2>3, Zenon DEF Without
  <2> QED
    BY <2>2, <2>4, <2>5
<1>6. Only(n)
  BY <1>1, <1>3, <1>4, Zenon DEF Only
<1>7. Shaped'
  BY <1>3, <1>4, Zenon DEF AdmissionInv, Shaped
<1>8. CallsOk'
  BY <1>3, Zenon DEF AdmissionInv, CallsOk
<1>9. FilesOk(n)'
  BY <1>2, <1>3, <1>4, Zenon DEF NodeOk, FilesOk
<1>10. PolicyOk(n)'
  BY <1>4, <1>5, Zenon DEF PolicyOk
<1>11. ASSUME n \notin crossed' PROVE RevocationOk(n)'
  <2>1. RevocationOk(n)
    BY <1>2, <1>3, <1>11, Zenon DEF NodeOk
  <2>2. LedgerRevoked(chain[n]) = revoked[n] /\ a.snapshot = revoked[n]
    BY <1>1, <1>3, <2>1, Zenon DEF RevocationOk
  <2>3. \A c \in applying' : c.node # n
    BY <1>1, <1>3, <2>1, Zenon DEF RevocationOk
  <2>4. Clean(n)'
    BY <1>3, <1>4, <1>5, <2>2, Zenon DEF Clean, Has
  <2>5. \A r \in registering' : r.node = n => r.cert.member \notin revoked'[n] \ raced'[n]
    BY <1>3, <2>1, Zenon DEF RevocationOk
  <2> QED
    BY <1>3, <2>2, <2>3, <2>4, <2>5, Zenon DEF RevocationOk
<1> QED
  BY <1>1, <1>2, <1>6, <1>7, <1>8, <1>9, <1>10, <1>11, Zenon DEF NodeOk

-----------------------------------------------------------------------------
(* Invitations *)

\* register_issued_membership, the check: the member is not revoked yet.
LEMMA CheckKeeps ==
    ASSUME AdmissionInv, NEW n \in Nodes, NEW cert, Check(n, cert)
    PROVE  Only(n) /\ Shaped' /\ CallsOk' /\ NodeOk(n)'
<1>1. PICK new : new = [node |-> n, cert |-> cert] /\ new.node = n /\ new.cert = cert
  <2>1. [node |-> n, cert |-> cert].node = n /\ [node |-> n, cert |-> cert].cert = cert
    BY Zenon
  <2> QED
    BY <2>1, Zenon
<1>2. /\ up[n] /\ cert.member \notin revoked[n] /\ registering' = registering \cup {new}
      /\ UNCHANGED <<up, chain, invitation, issued, policy, revoked, raced, applying, installing,
                     granted, crossed>>
  BY <1>1, Zenon DEF Check, disk, memory, history
<1>3. Only(n)
  BY <1>1, <1>2, Zenon DEF Only
<1>4. Shaped'
  BY <1>2, Zenon DEF AdmissionInv, Shaped
<1>5. CallsOk'
  BY <1>1, <1>2, Zenon DEF AdmissionInv, CallsOk
<1>6. NodeOk(n)
  BY Zenon DEF AdmissionInv
<1>7. FilesOk(n)'
  BY <1>2, <1>6, Zenon DEF NodeOk, FilesOk
<1>8. PolicyOk(n)'
  BY <1>2, <1>6, Zenon DEF NodeOk, PolicyOk
<1>9. ASSUME RevocationOk(n) PROVE RevocationOk(n)'
  <2>1. \A r \in registering' : r.node = n => r.cert.member \notin revoked'[n] \ raced'[n]
    BY <1>1, <1>2, <1>9, Zenon DEF RevocationOk
  <2>2. Clean(n) => Clean(n)'
    BY <1>2, Zenon DEF Clean, Has
  <2> QED
    BY <1>2, <1>9, <2>1, <2>2, Zenon DEF RevocationOk
<1> QED
  BY <1>2, <1>3, <1>4, <1>5, <1>6, <1>7, <1>8, <1>9, Zenon DEF NodeOk

\* The policy of a node with the access of one member put in its place.
LEMMA PolicyWith ==
    ASSUME Shaped, NEW n \in Nodes, PolicyOk(n), policy[n] # NoPolicy, NEW i, NEW access,
           policy' = [policy EXCEPT ![n].permissions = With(@, i, access)]
    PROVE  /\ policy' = [m \in Nodes |-> policy'[m]]
           /\ \A m \in Nodes : m # n => policy'[m] = policy[m]
           /\ PolicyOk(n)'
           /\ \A j : Has(n, j)' => j = i \/ Has(n, j)
<1>1. /\ policy' = [m \in Nodes |-> policy'[m]]
      /\ \A m \in Nodes : m # n => policy'[m] = policy[m]
      /\ policy'[n] = [policy[n] EXCEPT !.permissions = With(@, i, access)]
  BY Zenon DEF Shaped
<1>2. PICK p, f : policy[n] = [network |-> p, permissions |-> f]
  BY Zenon DEF PolicyOk
<1>3. PICK g : g = With(f, i, access)
  BY Zenon
<1>4. policy'[n] = [network |-> p, permissions |-> g]
  BY <1>1, <1>2, <1>3
<1>5. DOMAIN g = DOMAIN f \cup {i}
  BY <1>3, Zenon DEF With
<1>6. policy[n].permissions = f /\ policy'[n].permissions = g /\ policy'[n].network = p
  BY <1>2, <1>4
<1>7. PolicyOk(n)'
  BY <1>4, <1>6, Zenon DEF PolicyOk
<1> QED
  BY <1>1, <1>5, <1>6, <1>7, Zenon DEF Has

\* The policy of n gained one member who is not revoked, or who is on record.
LEMMA CleanWith ==
    ASSUME NEW n, NEW i, \A j : Has(n, j)' => j = i \/ Has(n, j), UNCHANGED revoked,
           raced[n] \subseteq raced'[n], i \notin revoked[n] \ raced'[n], Clean(n)
    PROVE  Clean(n)'
  BY Zenon DEF Clean

\* register_issued_membership, the rest: the list and the policy change together.
LEMMA RegisterKeeps ==
    ASSUME AdmissionInv, NEW r \in registering, Register(r)
    PROVE  r.node \in Nodes /\ Only(r.node) /\ Shaped' /\ CallsOk' /\ NodeOk(r.node)'
<1>1. PICK n, i : n = r.node /\ i = r.cert.member
  BY Zenon
<1>2. n \in Nodes /\ up[n] /\ NodeOk(n) /\ Shaped
  BY <1>1, Zenon DEF AdmissionInv, CallsOk
<1>3. /\ registering' = registering \ {r}
      /\ UNCHANGED <<up, chain, invitation, revoked, installing, applying, crossed, raced>>
  BY Zenon DEF Register
<1>4. CallsOk'
  BY <1>3, Zenon DEF AdmissionInv, CallsOk
<1>5. CASE UNCHANGED <<issued, policy, granted>>
  <2>1. Only(n)
    BY <1>1, <1>3, <1>5, Zenon DEF Only
  <2>2. Shaped'
    BY <1>2, <1>3, <1>5, Zenon DEF Shaped
  <2>3. FilesOk(n)'
    BY <1>2, <1>3, <1>5, Zenon DEF NodeOk, FilesOk
  <2>4. PolicyOk(n)'
    BY <1>2, <1>5, Zenon DEF NodeOk, PolicyOk
  <2>5. RevocationOk(n) => RevocationOk(n)'
    BY <1>3, <1>5, Zenon DEF RevocationOk, Clean, Has
  <2> QED
    BY <1>1, <1>2, <1>3, <1>4, <2>1, <2>2, <2>3, <2>4, <2>5, Zenon DEF NodeOk
<1>6. CASE ~UNCHANGED <<issued, policy, granted>>
  <2>1. PICK access :
          /\ policy[n] # NoPolicy
          /\ issued' = [issued EXCEPT ![n] = With(@, i, r.cert)]
          /\ policy' = [policy EXCEPT ![n].permissions = With(@, i, access)]
          /\ granted' = [granted EXCEPT ![n] = @ \cup {i}]
    BY <1>1, <1>6, Zenon DEF Register
  <2>2. /\ policy' = [m \in Nodes |-> policy'[m]] /\ \A m \in Nodes : m # n => policy'[m] = policy[m]
        /\ PolicyOk(n)' /\ \A j : Has(n, j)' => j = i \/ Has(n, j)
    BY <1>2, <2>1, PolicyWith, Zenon DEF NodeOk
  <2>3. /\ issued' = [m \in Nodes |-> issued'[m]] /\ issued'[n] = With(issued[n], i, r.cert)
        /\ granted' = [m \in Nodes |-> granted'[m]] /\ granted'[n] = granted[n] \cup {i}
        /\ \A m \in Nodes : m # n => issued'[m] = issued[m] /\ granted'[m] = granted[m]
    BY <1>2, <2>1, Zenon DEF Shaped
  <2>4. DOMAIN issued'[n] = DOMAIN issued[n] \cup {i}
    BY <2>3, Zenon DEF With
  <2>5. Only(n)
    BY <1>1, <1>3, <2>2, <2>3, Zenon DEF Only
  <2>6. Shaped'
    BY <1>2, <1>3, <2>2, <2>3, Zenon DEF Shaped
  <2>7. FilesOk(n)'
    BY <1>2, <1>3, <2>1, <2>3, <2>4, Zenon DEF NodeOk, FilesOk
  <2>8. ASSUME RevocationOk(n) PROVE RevocationOk(n)'
    <3>1. i \notin revoked[n] \ raced[n]
      BY <1>1, <2>8, Zenon DEF RevocationOk
    <3>2. Clean(n) => Clean(n)'
      BY <1>3, <2>2, <3>1, CleanWith, Zenon
    <3>3. \A q \in registering' : q.node = n => q.cert.member \notin revoked'[n] \ raced'[n]
      BY <1>3, <2>8, Zenon DEF RevocationOk
    <3> QED
      BY <1>3, <2>8, <3>2, <3>3, Zenon DEF RevocationOk
  <2> QED
    BY <1>1, <1>2, <1>3, <1>4, <2>2, <2>5, <2>6, <2>7, <2>8, Zenon DEF NodeOk
<1> QED
  BY <1>5, <1>6, Zenon

\* install_invitation: the new policy has the node itself only, who is on record.
LEMMA InstallKeeps ==
    ASSUME AdmissionInv, NEW n \in Nodes, NEW cert \in Invitations, Install(n, cert)
    PROVE  Only(n) /\ Shaped' /\ CallsOk' /\ NodeOk(n)'
<1>1. PICK access, new : /\ access = Access(cert.rights, cert) /\ new = [node |-> n, cert |-> cert]
                         /\ new.node = n
  <2>1. [node |-> n, cert |-> cert].node = n
    BY Zenon
  <2> QED
    BY <2>1, Zenon
<1>2. /\ up[n] /\ cert.member = n /\ invitation' = [invitation EXCEPT ![n] = cert]
      /\ policy' = [policy EXCEPT ![n] = enforce_membership(cert)]
      /\ installing' = installing \cup {new}
      /\ raced' = [raced EXCEPT ![n] = @ \cup {n}]
      /\ UNCHANGED <<up, chain, issued, revoked, registering, applying, granted, crossed>>
  BY <1>1, Zenon DEF Install, ValidFor
<1>3. /\ policy' = [m \in Nodes |-> policy'[m]] /\ policy'[n] = enforce_membership(cert)
      /\ raced' = [m \in Nodes |-> raced'[m]] /\ raced'[n] = raced[n] \cup {n}
      /\ invitation' = [m \in Nodes |-> invitation'[m]] /\ invitation'[n] = cert
      /\ \A m \in Nodes : m # n => /\ policy'[m] = policy[m] /\ raced'[m] = raced[m]
                                   /\ invitation'[m] = invitation[m]
  <2>1. /\ policy' = [m \in Nodes |-> policy'[m]] /\ policy'[n] = enforce_membership(cert)
        /\ \A m \in Nodes : m # n => policy'[m] = policy[m]
    BY <1>2, Zenon DEF AdmissionInv, Shaped
  <2>2. /\ raced' = [m \in Nodes |-> raced'[m]] /\ raced'[n] = raced[n] \cup {n}
        /\ \A m \in Nodes : m # n => raced'[m] = raced[m]
    BY <1>2, Zenon DEF AdmissionInv, Shaped
  <2>3. /\ invitation' = [m \in Nodes |-> invitation'[m]] /\ invitation'[n] = cert
        /\ \A m \in Nodes : m # n => invitation'[m] = invitation[m]
    BY <1>2, Zenon DEF AdmissionInv, Shaped
  <2> QED
    BY <2>1, <2>2, <2>3, Zenon
<1>4. PICK f : f = [i \in {n} |-> access] /\ policy'[n] = [network |-> cert.network, permissions |-> f]
  BY <1>1, <1>2, <1>3, Zenon DEF enforce_membership
<1>5. policy'[n].permissions = f /\ policy'[n].network = cert.network /\ DOMAIN f = {n}
  BY <1>4
<1>6. Only(n)
  BY <1>1, <1>2, <1>3, Zenon DEF Only
<1>7. Shaped'
  BY <1>2, <1>3, Zenon DEF AdmissionInv, Shaped
<1>8. CallsOk'
  BY <1>1, <1>2, Zenon DEF AdmissionInv, CallsOk
<1>9. NodeOk(n) /\ cert # NoCert
  BY AdmissionAssumption, Zenon DEF AdmissionInv
<1>10. FilesOk(n)'
  BY <1>2, <1>3, <1>9, Zenon DEF NodeOk, FilesOk
<1>11. PolicyOk(n)'
  BY <1>4, <1>5, Zenon DEF PolicyOk
<1>12. ASSUME RevocationOk(n) PROVE RevocationOk(n)'
  <2>1. Clean(n)'
    BY <1>3, <1>5, Zenon DEF Clean, Has
  <2>2. \A r \in registering' : r.node = n => r.cert.member \notin revoked'[n] \ raced'[n]
    BY <1>2, <1>3, <1>12, Zenon DEF RevocationOk
  <2> QED
    BY <1>2, <1>12, <2>1, <2>2, Zenon DEF RevocationOk
<1> QED
  BY <1>2, <1>6, <1>7, <1>8, <1>9, <1>10, <1>11, <1>12, Zenon DEF NodeOk

\* The end of activate_invitation: the issuer is on record.
LEMMA AdmitKeeps ==
    ASSUME AdmissionInv, NEW q \in installing, AdmitIssuer(q)
    PROVE  q.node \in Nodes /\ Only(q.node) /\ Shaped' /\ CallsOk' /\ NodeOk(q.node)'
<1>1. PICK n, i, access : n = q.node /\ i = q.cert.issuer /\ access = Access({"*"}, q.cert)
  BY Zenon
<1>2. n \in Nodes /\ up[n] /\ NodeOk(n) /\ Shaped
  BY <1>1, Zenon DEF AdmissionInv, CallsOk
<1>3. /\ policy[n] # NoPolicy /\ installing' = installing \ {q}
      /\ policy' = [policy EXCEPT ![n].permissions = With(@, i, access)]
      /\ raced' = [raced EXCEPT ![n] = @ \cup {i}]
      /\ UNCHANGED <<up, chain, invitation, issued, revoked, registering, applying, granted, crossed>>
  BY <1>1, Zenon DEF AdmitIssuer, disk
<1>4. /\ policy' = [m \in Nodes |-> policy'[m]] /\ \A m \in Nodes : m # n => policy'[m] = policy[m]
      /\ PolicyOk(n)' /\ \A j : Has(n, j)' => j = i \/ Has(n, j)
  BY <1>2, <1>3, PolicyWith, Zenon DEF NodeOk
<1>5. /\ raced' = [m \in Nodes |-> raced'[m]] /\ raced'[n] = raced[n] \cup {i}
      /\ \A m \in Nodes : m # n => raced'[m] = raced[m]
  BY <1>2, <1>3, Zenon DEF Shaped
<1>6. Only(n)
  BY <1>1, <1>3, <1>4, <1>5, Zenon DEF Only
<1>7. Shaped'
  BY <1>2, <1>3, <1>4, <1>5, Zenon DEF Shaped
<1>8. CallsOk'
  BY <1>3, Zenon DEF AdmissionInv, CallsOk
<1>9. FilesOk(n)'
  BY <1>2, <1>3, Zenon DEF NodeOk, FilesOk
<1>10. ASSUME RevocationOk(n) PROVE RevocationOk(n)'
  <2>1. Clean(n) => Clean(n)'
    BY <1>3, <1>4, <1>5, CleanWith, Zenon
  <2>2. \A r \in registering' : r.node = n => r.cert.member \notin revoked'[n] \ raced'[n]
    BY <1>3, <1>5, <1>10, Zenon DEF RevocationOk
  <2> QED
    BY <1>3, <1>10, <2>1, <2>2, Zenon DEF RevocationOk
<1> QED
  BY <1>1, <1>2, <1>3, <1>4, <1>6, <1>7, <1>8, <1>9, <1>10, Zenon DEF NodeOk

-----------------------------------------------------------------------------
(* Crash and open *)

\* A crash ends the calls of the node and leaves its files.
LEMMA CrashKeeps ==
    ASSUME AdmissionInv, NEW n \in Nodes, Crash(n)
    PROVE  Only(n) /\ Shaped' /\ CallsOk' /\ NodeOk(n)'
<1>1. /\ up' = [up EXCEPT ![n] = FALSE] /\ raced' = [raced EXCEPT ![n] = {}]
      /\ registering' = {r \in registering : r.node # n}
      /\ installing' = {i \in installing : i.node # n}
      /\ applying' = {a \in applying : a.node # n} /\ crossed' = crossed \ {n}
      /\ UNCHANGED <<chain, invitation, issued, policy, revoked, granted>>
  BY Zenon DEF Crash, disk, memory
<1>2. /\ up' = [m \in Nodes |-> up'[m]] /\ ~up'[n]
      /\ raced' = [m \in Nodes |-> raced'[m]]
      /\ \A m \in Nodes : m # n => up'[m] = up[m] /\ raced'[m] = raced[m]
  BY <1>1, Zenon DEF AdmissionInv, Shaped
<1>3. Only(n)
  BY <1>1, <1>2, Zenon DEF Only
<1>4. Shaped'
  BY <1>1, <1>2, Zenon DEF AdmissionInv, Shaped
<1>5. CallsOk'
  BY <1>1, <1>2, Zenon DEF AdmissionInv, CallsOk
<1>6. NodeOk(n)
  BY Zenon DEF AdmissionInv
<1>7. FilesOk(n)'
  BY <1>1, <1>2, <1>6, Zenon DEF NodeOk, FilesOk
<1>8. PolicyOk(n)'
  BY <1>1, <1>6, Zenon DEF NodeOk, PolicyOk
<1> QED
  BY <1>2, <1>3, <1>4, <1>5, <1>7, <1>8, Zenon DEF NodeOk

\* open ends with refresh_revocations_from_ledger, when no call is under way.
LEMMA OpenKeeps ==
    ASSUME AdmissionInv, NEW n \in Nodes, Open(n)
    PROVE  Only(n) /\ Shaped' /\ CallsOk' /\ NodeOk(n)'
<1>1. PICK gone, left : /\ gone = LedgerRevoked(chain[n])
                        /\ left = Without(Restored(n), gone)
  BY Zenon
<1>2. PICK p : p = IF invitation[n] = NoCert THEN NoPolicy
                   ELSE [network |-> invitation[n].network, permissions |-> left]
  BY Zenon
<1>3. /\ ~up[n] /\ up' = [up EXCEPT ![n] = TRUE]
      /\ revoked' = [revoked EXCEPT ![n] = gone] /\ policy' = [policy EXCEPT ![n] = p]
      /\ UNCHANGED <<chain, invitation, issued, registering, installing, applying, granted,
                     crossed, raced>>
  BY <1>1, <1>2, Zenon DEF Open, Opened, disk, calls, history
<1>4. /\ up' = [m \in Nodes |-> up'[m]] /\ up'[n] /\ revoked' = [m \in Nodes |-> revoked'[m]]
      /\ revoked'[n] = gone /\ policy' = [m \in Nodes |-> policy'[m]] /\ policy'[n] = p
      /\ \A m \in Nodes : m # n => /\ up'[m] = up[m] /\ revoked'[m] = revoked[m]
                                   /\ policy'[m] = policy[m]
  BY <1>3, Zenon DEF AdmissionInv, Shaped
<1>5. Only(n)
  BY <1>3, <1>4, Zenon DEF Only
<1>6. Shaped'
  BY <1>3, <1>4, Zenon DEF AdmissionInv, Shaped
<1>7. CallsOk'
  BY <1>3, <1>4, Zenon DEF AdmissionInv, CallsOk
<1>8. NodeOk(n)
  BY Zenon DEF AdmissionInv
<1>9. FilesOk(n)'
  BY <1>2, <1>3, <1>4, <1>8, Zenon DEF NodeOk, FilesOk
<1>10. p # NoPolicy => /\ p = [network |-> p.network, permissions |-> p.permissions]
                       /\ p.permissions = left
  <2>1. PICK net : net = invitation[n].network
    BY Zenon
  <2>2. p # NoPolicy => p = [network |-> net, permissions |-> left]
    BY <1>2, <2>1, Zenon
  <2> QED
    BY <2>2
<1>11. PolicyOk(n)'
  BY <1>4, <1>10, Zenon DEF PolicyOk
<1>12. Clean(n)'
  <2>1. DOMAIN left \cap gone = {}
    BY <1>1, Zenon DEF Without
  <2> QED
    BY <1>4, <1>10, <2>1, Zenon DEF Clean, Has
<1>13. (\A a \in applying' : a.node # n) /\ (\A r \in registering' : r.node # n)
  BY <1>3, Zenon DEF AdmissionInv, CallsOk
<1>14. RevocationOk(n)'
  BY <1>1, <1>3, <1>4, <1>12, <1>13, Zenon DEF RevocationOk
<1> QED
  BY <1>5, <1>6, <1>7, <1>9, <1>11, <1>14, Zenon DEF NodeOk

-----------------------------------------------------------------------------
(* The invariant *)

\* finalize: the new block carries the root of the events proposed.
LEMMA ProposedOk ==
    ASSUME BlocksOk, NEW n, NEW evs \in EventLists, NEW s, Propose(n, evs, s)
    PROVE  BlocksOk'
<1>1. PICK b : b = next_block(chain[n], evs, clock, Mesh, s \cap Validators)
  BY Zenon
<1>2. b.events = evs /\ b.root = merkle_root(Leaves(evs))
  BY <1>1, Zenon DEF next_block
<1>3. blocks' = blocks \cup {b}
  BY <1>1, Zenon DEF Propose
<1> QED
  BY <1>2, <1>3, Zenon DEF BlocksOk

\* merge_ledger_gossip, one message.
LEMMA MergedOk ==
    ASSUME AdmissionInv, [Next]_vars, NEW n \in Nodes, Merge(n)
    PROVE  AdmissionInv'
<1>1. PICK m : m = Head(batch[n])
  BY Zenon
<1>2. /\ batch[n] # <<>>
      /\ UNCHANGED <<up, invitation, issued, policy, revoked, registering, installing, granted,
                     raced, blocks>>
  BY Zenon DEF Merge, memory, network
<1>3. \/ UNCHANGED <<chain, applying, crossed>>
      \/ Considers(n, m) /\ Links(chain[n], m.block) /\ AppendTo(n, m.block, "merge")
  BY <1>1, Zenon DEF Merge
<1>4. CASE UNCHANGED <<chain, applying, crossed>>
  <2>1. BlocksOk'
    BY <1>2, Zenon DEF AdmissionInv, BlocksOk
  <2>2. UNCHANGED <<up, disk, memory, registering, installing, applying, history>>
    BY <1>2, <1>4, Zenon DEF disk, memory, history
  <2> QED
    BY <2>1, <2>2, IdleKeeps, Zenon
<1>5. CASE Considers(n, m) /\ Links(chain[n], m.block) /\ AppendTo(n, m.block, "merge")
  <2>1. up[n]
    BY <1>2, Zenon DEF AdmissionInv, BatchOk
  <2>2. m \in Messages
    <3>1. batch[n] \in Seq(Messages)
      BY Zenon DEF AdmissionInv, AgreementInv, Gossip
    <3> QED
      BY <1>1, <1>2, <3>1
  <2>3. m.block \in blocks
    BY <1>5, <2>2, MessagesOfBlocks, Zenon DEF Considers
  <2>4. Only(n) /\ Shaped' /\ CallsOk' /\ NodeOk(n)'
    BY <1>2, <1>5, <2>1, <2>3, AppendKeeps, Zenon
  <2> QED
    BY <1>2, <2>4, NodeKeeps, Zenon
<1> QED
  BY <1>3, <1>4, <1>5, Zenon

\* Every step keeps the invariant.
LEMMA StepsKeepAdmission == AdmissionInv /\ [Next]_vars => AdmissionInv'
<1> SUFFICES ASSUME AdmissionInv, [Next]_vars PROVE AdmissionInv'
  BY Zenon
<1> DEFINE Idle == UNCHANGED <<up, disk, memory, registering, installing, applying, history>>
           Kept(n) == Only(n) /\ Shaped' /\ CallsOk' /\ NodeOk(n)' /\ UNCHANGED blocks
<1>1. ASSUME Idle, BlocksOk' PROVE AdmissionInv'
  BY <1>1, IdleKeeps, Zenon
<1>2. ASSUME Idle, UNCHANGED blocks PROVE AdmissionInv'
  <2>1. BlocksOk'
    BY <1>2, Zenon DEF AdmissionInv, BlocksOk
  <2> QED
    BY <1>1, <1>2, <2>1, Zenon
<1>3. ASSUME NEW n \in Nodes, Kept(n) PROVE AdmissionInv'
  BY <1>3, NodeKeeps, Zenon
<1>4. ASSUME NEW n \in Nodes, NEW evs \in EventLists, NEW s, Propose(n, evs, s)
      PROVE  AdmissionInv'
  <2>1. Idle
    BY <1>4, Zenon DEF Propose, calls
  <2>2. BlocksOk'
    BY <1>4, ProposedOk, Zenon DEF AdmissionInv
  <2> QED
    BY <1>1, <2>1, <2>2, Zenon
<1>5. ASSUME NEW n \in Nodes, AppendLocal(n) PROVE AdmissionInv'
  <2>1. UNCHANGED blocks
    BY <1>5, Zenon DEF AppendLocal, network
  <2> QED
    BY <1>3, <1>5, <2>1, LocalKeeps, Zenon
<1>6. ASSUME NEW n \in Nodes, NEW b \in blocks, AppendCall(n, b) PROVE AdmissionInv'
  <2>1. /\ up[n] /\ Links(chain[n], b) /\ AppendTo(n, b, "call")
        /\ UNCHANGED <<up, invitation, issued, policy, revoked, registering, installing, granted,
                       raced>>
        /\ UNCHANGED blocks
    BY <1>6, Zenon DEF AppendCall, memory, network
  <2>2. Only(n) /\ Shaped' /\ CallsOk' /\ NodeOk(n)'
    BY <2>1, AppendKeeps, Zenon
  <2> QED
    BY <1>3, <2>1, <2>2, Zenon
<1>7. ASSUME NEW n \in Nodes, NEW m, Deliver(n, m) PROVE AdmissionInv'
  BY <1>2, <1>7, Zenon DEF Deliver, calls
<1>8. ASSUME NEW n \in Nodes, NEW topic, Drain(n, topic) PROVE AdmissionInv'
  BY <1>2, <1>8, Zenon DEF Drain
<1>9. ASSUME NEW n \in Nodes, Merge(n) PROVE AdmissionInv'
  BY <1>9, MergedOk, Zenon
<1>10. ASSUME NEW n \in Nodes, NEW cert \in Invitations, Check(n, cert) PROVE AdmissionInv'
  <2>1. UNCHANGED blocks
    BY <1>10, Zenon DEF Check, network
  <2> QED
    BY <1>3, <1>10, <2>1, CheckKeeps, Zenon
<1>11. ASSUME NEW n \in Nodes, NEW cert \in Invitations, Install(n, cert) PROVE AdmissionInv'
  <2>1. UNCHANGED blocks
    BY <1>11, Zenon DEF Install, network
  <2> QED
    BY <1>3, <1>11, <2>1, InstallKeeps, Zenon
<1>12. ASSUME NEW n \in Nodes, Crash(n) PROVE AdmissionInv'
  <2>1. UNCHANGED blocks
    BY <1>12, Zenon DEF Crash
  <2> QED
    BY <1>3, <1>12, <2>1, CrashKeeps, Zenon
<1>13. ASSUME NEW n \in Nodes, Open(n) PROVE AdmissionInv'
  <2>1. UNCHANGED blocks
    BY <1>13, Zenon DEF Open, network
  <2> QED
    BY <1>3, <1>13, <2>1, OpenKeeps, Zenon
<1>14. ASSUME NEW a \in applying, Mark(a) PROVE AdmissionInv'
  <2>1. UNCHANGED blocks
    BY <1>14, Zenon DEF Mark, network
  <2> QED
    BY <1>3, <1>14, <2>1, MarkKeeps, Zenon
<1>15. ASSUME NEW a \in applying, Prune(a) PROVE AdmissionInv'
  <2>1. UNCHANGED blocks
    BY <1>15, Zenon DEF Prune, network
  <2> QED
    BY <1>3, <1>15, <2>1, PruneKeeps, Zenon
<1>16. ASSUME NEW r \in registering, Register(r) PROVE AdmissionInv'
  <2>1. UNCHANGED blocks
    BY <1>16, Zenon DEF Register, network
  <2> QED
    BY <1>3, <1>16, <2>1, RegisterKeeps, Zenon
<1>17. ASSUME NEW i \in installing, AdmitIssuer(i) PROVE AdmissionInv'
  <2>1. UNCHANGED blocks
    BY <1>17, Zenon DEF AdmitIssuer, network
  <2> QED
    BY <1>3, <1>17, <2>1, AdmitKeeps, Zenon
<1>18. CASE Tick \/ UNCHANGED vars
  BY <1>2, <1>18, Zenon DEF Tick, vars, calls, network
<1> HIDE DEF Idle, Kept
<1> QED
  BY <1>4, <1>5, <1>6, <1>7, <1>8, <1>9, <1>10, <1>11, <1>12, <1>13, <1>14, <1>15, <1>16, <1>17,
     <1>18, Zenon DEF Next

\* The first state: nodes just opened, with empty chains.
LEMMA AdmissionStarts == Init => AdmissionInv
<1> SUFFICES ASSUME Init PROVE AdmissionInv
  BY Zenon
<1>1. /\ blocks = {} /\ chain = [n \in Nodes |-> <<>>] /\ up = [n \in Nodes |-> TRUE]
      /\ issued = [n \in Nodes |-> [i \in {} |-> NoCert]] /\ revoked = [n \in Nodes |-> {}]
      /\ registering = {} /\ installing = {} /\ applying = {} /\ batch = [n \in Nodes |-> <<>>]
      /\ granted = [n \in Nodes |-> {}] /\ crossed = {} /\ raced = [n \in Nodes |-> {}]
      /\ invitation \in [Nodes -> Invitations \cup {NoCert}]
  BY Zenon DEF Init
<1>2. AgreementInv
  BY StartsAgreed, Zenon
<1>3. BlocksOk /\ CallsOk
  BY <1>1, Zenon DEF BlocksOk, CallsOk
<1>4. BatchOk
  BY <1>1, Zenon DEF BatchOk
<1>5. Shaped
  BY <1>1, Zenon DEF Shaped, Init
<1>6. ASSUME NEW n \in Nodes PROVE NodeOk(n)
  <2>1. PICK left : left = Restored(n)
    BY Zenon
  <2>2. policy[n] = IF invitation[n] = NoCert THEN NoPolicy
                    ELSE [network |-> invitation[n].network, permissions |-> left]
    BY <2>1, Zenon DEF Init
  <2>3. /\ chain[n] = <<>> /\ up[n] /\ DOMAIN issued[n] = {} /\ revoked[n] = {} /\ granted[n] = {}
        /\ invitation[n] # NoCert => invitation[n].member = n
    <3>1. invitation[n] # NoCert => invitation[n].member = n
      BY Zenon DEF Init, ValidFor
    <3> QED
      BY <1>1, <3>1, Zenon
  <2>4. Linked(chain[n])
    <3>1. <<>> \in Seq(Range(<<>>)) /\ 1..Len(<<>>) = {}
      OBVIOUS
    <3> QED
      BY <2>3, <3>1, Zenon DEF Linked
  <2>5. FilesOk(n)
    BY <2>2, <2>3, <2>4, Zenon DEF FilesOk
  <2>6. PolicyOk(n)
    <3>1. PICK net : net = invitation[n].network
      BY Zenon
    <3>2. policy[n] # NoPolicy => policy[n] = [network |-> net, permissions |-> left]
      BY <2>2, <3>1, Zenon
    <3>3. policy[n] # NoPolicy =>
            policy[n] = [network |-> policy[n].network, permissions |-> policy[n].permissions]
      BY <3>2
    <3> QED
      BY <3>3, Zenon DEF PolicyOk
  <2>7. RevocationOk(n)
    BY <1>1, <2>3, NothingRevoked, Zenon DEF RevocationOk, Clean
  <2> QED
    BY <2>5, <2>6, <2>7, Zenon DEF NodeOk
<1> QED
  BY <1>2, <1>3, <1>4, <1>5, <1>6, Zenon DEF AdmissionInv

-----------------------------------------------------------------------------
(* The properties *)

LEMMA InvariantAudits == AdmissionInv => AuditsVerify
<1> SUFFICES ASSUME AdmissionInv, NEW b \in blocks, NEW i \in DOMAIN b.events
             PROVE  VerifiesTo(merkle_proof(Leaves(b.events), i - 1), i - 1, <<b.events[i]>>, b.root)
  BY Zenon DEF AuditsVerify
<1>1. PICK evs, leaves : evs = b.events /\ leaves = Leaves(b.events)
  BY Zenon
<1>2. evs \in Seq(Range(evs)) /\ b.root = merkle_root(leaves)
  BY <1>1, AdmissionAssumption, Zenon DEF AdmissionInv, BlocksOk
<1>3. PICK n : n = Len(evs)
  BY Zenon
<1>4. n \in Nat /\ DOMAIN evs = 1..n
  BY <1>2, <1>3
<1>5. leaves = [k \in 1..n |-> <<evs[k]>>]
  BY <1>1, <1>4, Zenon DEF Leaves
<1>6. Row(leaves, n)
  <2>1. \A k \in 1..n : leaves[k] = <<evs[k]>>
    BY <1>5, Zenon
  <2> QED
    BY <1>4, <1>5, <2>1, Zenon DEF Row
<1>7. i \in 1..n /\ n \in Nat \ {0} /\ i - 1 \in 0..(n - 1) /\ (i - 1) + 1 = i
  BY <1>1, <1>4
<1>8. VerifiesTo(merkle_proof(leaves, i - 1), i - 1, leaves[(i - 1) + 1], merkle_root(leaves))
  BY <1>6, <1>7, ProofVerifies, Zenon
<1>9. leaves[i] = <<evs[i]>>
  BY <1>5, <1>7, Zenon
<1> QED
  BY <1>1, <1>2, <1>7, <1>8, <1>9, Zenon

LEMMA InvariantReopens == AdmissionInv => ReopenRestores
<1> SUFFICES ASSUME AdmissionInv, NEW n \in Nodes, ~up[n],
                    \A b, c \in Range(chain[n]) : b.network = c.network,
                    \A cert \in Range(issued[n]) \cup ({invitation[n]} \ {NoCert}) :
                        /\ cert.issued <= clock /\ Live(cert)
                        /\ invitation[n] # NoCert => cert.network = invitation[n].network
             PROVE  Opens(n) /\ granted[n] \subseteq DOMAIN issued[n]
  BY Zenon DEF ReopenRestores
<1>1. FilesOk(n)
  BY Zenon DEF AdmissionInv, NodeOk
<1>2. PICK s, len : s = chain[n] /\ len = Len(s)
  BY Zenon
<1>3. s \in Seq(Range(s)) /\ Linked(s)
  BY <1>1, <1>2, Zenon DEF FilesOk, Linked
<1>4. len \in Nat /\ \A h \in 1..len : s[h] \in Range(s)
  BY <1>2, <1>3
<1>5. \A h \in 1..len : h > 1 => h - 1 \in 1..len
  BY <1>4
<1>6. Reopenable(chain[n])
  BY <1>2, <1>3, <1>4, <1>5, Zenon DEF Reopenable, Linked
<1>7. invitation[n] # NoCert => ValidFor(invitation[n], n)
  BY <1>1, Zenon DEF FilesOk, ValidFor
<1>8. ASSUME NEW i \in DOMAIN issued[n]
      PROVE  /\ Live(issued[n][i]) /\ invitation[n] # NoCert
             /\ issued[n][i].network = invitation[n].network
  <2>1. issued[n][i] \in Range(issued[n]) /\ invitation[n] # NoCert
    BY <1>1, <1>8, Zenon DEF FilesOk, Range
  <2> QED
    BY <2>1, Zenon
<1> QED
  BY <1>1, <1>6, <1>7, <1>8, Zenon DEF Opens, FilesOk

LEMMA InvariantEnforces == AdmissionInv => RevocationEnforced
  BY Zenon DEF AdmissionInv, NodeOk, RevocationOk, Clean, RevocationEnforced

LEMMA AdmissionInvariant == Spec => []AdmissionInv
  BY AdmissionStarts, StepsKeepAdmission, PTL DEF Spec

\* LedgerApi::proof: of every event of every finalised block, however long its list of
\* events, the inclusion proof leads MerkleProof::verify to the root in the block.
THEOREM AuditsAlwaysVerify == Spec => []AuditsVerify
  BY AdmissionInvariant, InvariantAudits, PTL

\* PeerlessNode::open: whatever was appended, issued, installed and interrupted, a stopped
\* node whose certificates are valid and of one network, with a chain of one network, opens,
\* and knows every membership it granted.
THEOREM ReopensRestore == Spec => []ReopenRestores
  BY AdmissionInvariant, InvariantReopens, PTL

\* SECURITY.md, revocation: of a running node between calls, the revoked set is the one its
\* ledger says and the policy has no revoked member, for all interleavings but overlapping
\* appends, registrations checked before the revocation, and invitations installed.
THEOREM RevocationsEnforced == Spec => []RevocationEnforced
  BY AdmissionInvariant, InvariantEnforces, PTL
=============================================================================
