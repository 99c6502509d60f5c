----------------------------- MODULE MerkleTree -----------------------------
(***************************************************************************)
(* The proofs of one validation run (validation_engine/proofs.py): a proof *)
(* is captured after each step, the tree is built over all of them, its    *)
(* root is anchored on the ledger, and a certificate lists what a third    *)
(* party needs.  A hash is the term it was computed from, so two hashes    *)
(* are equal when their inputs are.  Indices count from 0, as in the code, *)
(* and a proof without an index has index -1.                              *)
(***************************************************************************)
EXTENDS Integers, Sequences

CONSTANTS Contents,       \* what a step may have captured
          MaxProofs, MaxAnchors   \* bounds

ASSUME MerkleAssumption == {MaxProofs, MaxAnchors} \subseteq Nat

VARIABLES stored,      \* the proofs of steps by captured_at: [content, index]
          merkleRoot,  \* the run's merkle_root, or NoHash
          radixTx,     \* radix_tx_ref: number of the transaction, 0 when there is none
          anchored,    \* what the ledger has, by transaction: a hash each
          anchors,     \* radix_anchor proofs, captured after the others: [tx, root]
          sealing      \* "capture", "anchor", "record", "done", "archived"

merkleVars == <<stored, merkleRoot, radixTx, anchored, anchors, sealing>>

NoHash == <<"none">>
Leaf(c) == <<"leaf", c>>
Metadata == Leaf("run_metadata")
Combined(l, r) == <<"node", l, r>>

\* The hash of an anchor's payload, with the time it was made, and that of the proof of it.
Payload(root, time) == <<"payload", root, time>>
AnchorHash(root, tx) == <<"anchor", root, tx>>
Unindexed == -1

(************************ the tree *****************************************)
\* The nodes one level up; the last of an odd number is paired with itself.
Above(level) == [n \in 1..((Len(level) + 1) \div 2) |->
                    Combined(level[2*n - 1], level[IF 2*n <= Len(level) THEN 2*n ELSE 2*n - 1])]

\* The levels of the tree over these leaves, from the leaves to the root and on.
LevelsOver(leaves) ==
    LET level[k \in 0..Len(leaves)] == IF k = 0 THEN leaves ELSE Above(level[k - 1])
    IN level

\* The first level of one node, where the loop ends.
Depth(levels) == CHOOSE d \in DOMAIN levels : Len(levels[d]) = 1 /\ \A e \in 0..(d - 1) : Len(levels[e]) > 1

RootOf(leaves) == LET levels == LevelsOver(leaves) IN levels[Depth(levels)][1]

\* Slip: a node without a sibling is passed up as it is.
PassedUp(level, i) == IF i >= Len(level) THEN NoHash ELSE level[i + 1]

\* The node at index i of a level whose last node is doubled when their number is odd.
NodeAt(level, i) == level[IF i < Len(level) THEN i + 1 ELSE Len(level)]

Flipped(i) == IF i % 2 = 0 THEN i + 1 ELSE i - 1

\* The index of the node over leaf i on each of the levels up to d.
IndexUp(i, d) == LET own[k \in 0..d] == IF k = 0 THEN i ELSE own[k - 1] \div 2 IN own

\* get_proof_path: the siblings from the leaf up, and whether the own node is on the right.
ProofPath(leaves, i) ==
    LET levels == LevelsOver(leaves)
        own == IndexUp(i, Depth(levels))
    IN [k \in 1..Depth(levels) |->
           [sibling |-> NodeAt(levels[k - 1], Flipped(own[k - 1])), isRight |-> own[k - 1] % 2 = 1]]

\* verify_leaf: the hash reached from a leaf along a path.
HashesUp(leaf, path) ==
    LET up[k \in 0..Len(path)] ==
          IF k = 0 THEN leaf
          ELSE IF path[k].isRight THEN Combined(path[k].sibling, up[k - 1])
          ELSE Combined(up[k - 1], path[k].sibling)
    IN up

ReachedFrom(leaf, path) == HashesUp(leaf, path)[Len(path)]

(************************ the run ******************************************)
MerkleInit == /\ stored = <<>> /\ merkleRoot = NoHash /\ radixTx = 0
              /\ anchored = <<>> /\ anchors = <<>> /\ sealing = "capture"

CaptureStepProof(c) ==
    /\ sealing = "capture" /\ Len(stored) < MaxProofs
    /\ stored' = Append(stored, [content |-> c, index |-> Unindexed])
    /\ UNCHANGED <<merkleRoot, radixTx, anchored, anchors, sealing>>

Indexed == [i \in DOMAIN stored |-> [stored[i] EXCEPT !.index = i - 1]]

Leaves == IF stored = <<>> THEN <<Metadata>> ELSE [i \in DOMAIN stored |-> Leaf(stored[i].content)]

BuildMerkleTree ==
    /\ sealing = "capture"
    /\ merkleRoot' = RootOf(Leaves) /\ stored' = Indexed
    /\ sealing' = "anchor"
    /\ UNCHANGED <<radixTx, anchored, anchors>>

\* The ledger accepts a payload with the root and the time of the call, which no row
\* keeps; the run's reference is committed before the proof of it.
AnchorToRadix ==
    /\ sealing \in {"anchor", "done"} /\ Len(anchored) < MaxAnchors
    /\ anchored' = Append(anchored, Payload(merkleRoot, Len(anchored) + 1))
    /\ \/ radixTx' = Len(anchored) + 1 /\ sealing' = "record"
       \/ UNCHANGED radixTx /\ sealing' = "done"
    /\ UNCHANGED <<stored, merkleRoot, anchors>>

RecordAnchor ==
    /\ sealing = "record" /\ sealing' = "done"
    /\ anchors' = Append(anchors, [tx |-> radixTx, root |-> merkleRoot])
    /\ UNCHANGED <<stored, merkleRoot, radixTx, anchored>>

\* The ledger refuses, or the process dies before it has recorded the anchor.
AnchoringFails ==
    /\ sealing \in {"anchor", "record"} /\ sealing' = "done"
    /\ UNCHANGED <<stored, merkleRoot, radixTx, anchored, anchors>>

\* cleanup_archived_runs deletes the proofs of a run that ended long ago, batch by batch;
\* what an archived run still lists in between is left open.
ArchiveRun ==
    /\ sealing = "done" /\ sealing' = "archived"
    /\ stored' = <<>> /\ anchors' = <<>>
    /\ UNCHANGED <<merkleRoot, radixTx, anchored>>

MerkleNext == \/ \E c \in Contents : CaptureStepProof(c)
              \/ BuildMerkleTree \/ AnchorToRadix \/ RecordAnchor \/ AnchoringFails \/ ArchiveRun

MerkleSpec == MerkleInit /\ [][MerkleNext]_merkleVars

(************************ the certificate **********************************)
\* What get_certificate lists: the root, its transaction, and the hash and the index of
\* every proof of the run, those of the anchors too.
Certificate ==
    [root |-> merkleRoot, tx |-> radixTx,
     listed |-> [i \in DOMAIN stored |-> [hash |-> Leaf(stored[i].content), index |-> stored[i].index]]
                \o [j \in DOMAIN anchors |->
                      [hash |-> AnchorHash(anchors[j].root, anchors[j].tx), index |-> Unindexed]]]

\* The holder of a certificate takes the hashes with an index for the leaves, in the order
\* of their indices.
Rebuilt == LET leaves == {r \in {Certificate.listed[i] : i \in DOMAIN Certificate.listed} :
                            r.index # Unindexed}
           IN [n \in {r.index + 1 : r \in leaves} |-> (CHOOSE r \in leaves : r.index = n - 1).hash]

\* Every captured proof, and nothing else, verifies against the stored root at the index
\* its row names, however many proofs there are (validation_engine/proofs.py:84).
PathsVerify ==
    merkleRoot # NoHash =>
        \A i \in DOMAIN stored, c \in Contents :
            ReachedFrom(Leaf(c), ProofPath(Leaves, stored[i].index)) = merkleRoot <=> c = stored[i].content

\* The certificate of a run with captured proofs that is not archived can be checked from
\* what it lists alone: the hashes with an index give its root, whatever anchors were tried
\* and recorded beside them, and its transaction is of a payload with that very root
\* (api/validation_engine.py:409, validation_engine/proofs.py:332).  The root of a run
\* without a proof, and the time in a payload, are not in the certificate.
CertificateVerifies ==
    /\ merkleRoot # NoHash /\ stored # <<>> => RootOf(Rebuilt) = Certificate.root
    /\ radixTx # 0 => \E time \in 1..MaxAnchors : anchored[Certificate.tx] = Payload(Certificate.root, time)

\* Whoever holds a proof or a certificate can check it (validation_engine/proofs.py).
ProofsVerify == PathsVerify /\ CertificateVerifies
=============================================================================
