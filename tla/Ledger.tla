------------------------------- MODULE Ledger -------------------------------
(***************************************************************************)
(* Blocks, Merkle trees and finality of peerless-ledger, as operators.     *)
(*                                                                         *)
(* A hash is the value it is taken of: `previous' is the previous block    *)
(* itself, a leaf of a Merkle tree is <<event>> and an inner node the pair *)
(* of its children, so hashes are equal exactly when what they hash is.    *)
(* Signatures are the names of their signers.                              *)
(***************************************************************************)
EXTENDS Naturals, Sequences, FiniteSets, Functions

CONSTANTS Validators,   \* members of the consensus engine
          Order,        \* the members in NodeId order (ordered_members)
          MaxFaults,    \* max_faults of BftConsensus
          Mesh,         \* network id of the consensus engine
          Local,        \* network id of append_ledger_event
          NoBlock       \* `previous' of the first block

ASSUME LedgerAssumption ==
    /\ IsFiniteSet(Validators)
    /\ MaxFaults \in Nat
    /\ Cardinality(Validators) >= 3 * MaxFaults + 1     \* BftConsensus::new
    /\ Order \in Seq(Validators) /\ Len(Order) = Cardinality(Validators)
    /\ Mesh # Local

-----------------------------------------------------------------------------
(* Merkle trees *)

\* An odd level gets its last node twice.
Padded(level) == IF Len(level) % 2 = 1 THEN Append(level, level[Len(level)]) ELSE level

\* The level above: one node for every pair.
Parents(level) ==
    LET nodes == Padded(level)
    IN  [i \in 1..(Len(nodes) \div 2) |-> <<nodes[2 * i - 1], nodes[2 * i]>>]

Levels(leaves) ==
    LET level[k \in 0..Len(leaves)] == IF k = 0 THEN leaves ELSE Parents(level[k - 1])
    IN  level

\* Passes of the loop: the first level of one node.
Depth(leaves) ==
    CHOOSE k \in 0..Len(leaves) :
        \A j \in 0..k : Len(Levels(leaves)[j]) = 1 <=> j = k

merkle_root(leaves) == IF leaves = <<>> THEN <<>> ELSE Levels(leaves)[Depth(leaves)][1]

\* The position on every level, from 0, of the path that starts at leaf `index'.
Cursors(index, depth) ==
    LET cursor[k \in 0..depth] == IF k = 0 THEN index ELSE cursor[k - 1] \div 2
    IN  cursor

Sibling(cursor) == IF cursor % 2 = 0 THEN cursor + 1 ELSE cursor - 1

\* Variant: without a right neighbour, the first node of the level.
ProofWrapped(leaves, index) ==
    LET depth == Depth(leaves)
        Level(k) == Levels(leaves)[k] IN
    [k \in 1..depth |->
        Level(k - 1)[(Sibling(Cursors(index, depth)[k - 1]) % Len(Level(k - 1))) + 1]]

\* The siblings on the way from leaf `index' to the root.
merkle_proof(leaves, index) ==
    LET depth == Depth(leaves) IN
    [k \in 1..depth |->
        Padded(Levels(leaves)[k - 1])[Sibling(Cursors(index, depth)[k - 1]) + 1]]

\* What MerkleProof::verify has computed after k siblings.
Verified(siblings, index, leaf) ==
    LET cursor == Cursors(index, Len(siblings))
        current[k \in 0..Len(siblings)] ==
          IF k = 0 THEN leaf
          ELSE IF cursor[k - 1] % 2 = 0 THEN <<current[k - 1], siblings[k]>>
                                       ELSE <<siblings[k], current[k - 1]>>
    IN  current

VerifiesTo(siblings, index, leaf, root) == Verified(siblings, index, leaf)[Len(siblings)] = root

Leaves(events) == [i \in DOMAIN events |-> <<events[i]>>]

-----------------------------------------------------------------------------
(* Finality: BftConsensus over QuorumConsensus *)

leader(height) == Order[(height % Len(Order)) + 1]

\* Variant: a majority of the faults' bound only.
QuorumWeak == MaxFaults + 1

Quorum == 2 * MaxFaults + 1

\* QuorumConsensus: a quorum of distinct members among those who approved.
QuorumFinalizes(approvals) == Cardinality(approvals \cap Validators) >= Quorum

QuorumVerifies(block) ==
    /\ block.network = Mesh
    /\ Cardinality(block.signers \cap Validators) >= Quorum

\* BftConsensus: the height's leader too.
BftFinalizes(approvals, height) == leader(height) \in approvals /\ QuorumFinalizes(approvals)

BftVerifies(block) == leader(block.height) \in block.signers /\ QuorumVerifies(block)

\* The engine append_ledger_event makes for itself: one member, quorum one.
LocalVerifies(block, self) == block.network = Local /\ self \in block.signers

-----------------------------------------------------------------------------
(* Ledger *)

Tip(chain) == IF chain = <<>> THEN NoBlock ELSE chain[Len(chain)]

next_block(chain, events, timestamp, network, signers) ==
    [previous |-> Tip(chain), height |-> Len(chain), timestamp |-> timestamp,
     root |-> merkle_root(Leaves(events)), events |-> events,
     network |-> network, signers |-> signers]

\* What the members sign; not the signatures, nor the events beside their root.
Proposal(block) == <<block.previous, block.height, block.timestamp, block.root>>

\* Variant: the timestamp is not compared with the last block's.
LinksUntimed(chain, block) ==
    /\ block.height = Len(chain)
    /\ block.previous = Tip(chain)
    /\ block.root = merkle_root(Leaves(block.events))

\* The checks of `append' that do not depend on the engine.
Links(chain, block) ==
    /\ block.height = Len(chain)
    /\ block.previous = Tip(chain)
    /\ chain # <<>> => block.timestamp >= chain[Len(chain)].timestamp
    /\ block.root = merkle_root(Leaves(block.events))

\* Ledger::open on the files of a chain, in the order of their names.
Reopenable(chain) ==
    \A h \in 1..Len(chain) :
        /\ chain[h].height = h - 1
        /\ chain[h].previous = IF h = 1 THEN NoBlock ELSE chain[h - 1]
        /\ chain[h].root = merkle_root(Leaves(chain[h].events))
        /\ h > 1 => /\ chain[h].network = chain[h - 1].network
                    /\ chain[h].timestamp >= chain[h - 1].timestamp
=============================================================================
