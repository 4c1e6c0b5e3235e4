------------------------------- MODULE Merkle -------------------------------
(***************************************************************************)
(* packages/audit-kernel/src/merkle/merkle.ts: Merkle trees over the entry *)
(* hashes of a checkpoint interval.  An odd level duplicates its last      *)
(* node.  Indexes are from 1 here, from 0 in the code.                     *)
(***************************************************************************)
EXTENDS Integers, Sequences

\* Variant for mutation runs: the order of the nodes is not hashed.
SortedPair(left, right) == <<"node", {left, right}>>

\* SHA-256 of the concatenation, without collisions.
HashPair(left, right) == <<"node", left, right>>
EmptyHash == <<"empty">>

\* The parents of a level: node 2i - 1 with node 2i, or with itself.
Halve(n) == (n + 1) \div 2

NextLayer(layer) ==
  [i \in 1..Halve(Len(layer)) |->
     HashPair(layer[2*i - 1], IF 2*i <= Len(layer) THEN layer[2*i] ELSE layer[2*i - 1])]

\* The levels of the tree over some leaves, from 0.
Layers(leaves) ==
  LET layer[k \in 0..Len(leaves)] == IF k = 0 THEN leaves ELSE NextLayer(layer[k - 1])
  IN  layer

\* The loop of buildMerkleTree goes on while a level has more than one node.
Depth(leaves) ==
  CHOOSE d \in 0..Len(leaves) :
    Len(Layers(leaves)[d]) = 1 /\ \A k \in 0..(d - 1) : Len(Layers(leaves)[k]) > 1

MerkleRoot(leaves) ==
  IF leaves = <<>> THEN EmptyHash ELSE Layers(leaves)[Depth(leaves)][1]

\* The neighbour of node i of a level and the side it is on.
SiblingStep(layer, i) ==
  IF i % 2 = 0 THEN [sibling |-> layer[i - 1], position |-> "left"]
  ELSE [sibling |-> IF i < Len(layer) THEN layer[i + 1] ELSE layer[i],
        position |-> "right"]

\* The place of a leaf's ancestor in each level.
Places(i, depth) ==
  LET place[k \in 0..depth] == IF k = 0 THEN i ELSE Halve(place[k - 1])
  IN  place

\* getMerkleProof: one step per level below the root.
MerkleProof(leaves, i) ==
  [k \in 1..Depth(leaves) |->
     SiblingStep(Layers(leaves)[k - 1], Places(i, Depth(leaves))[k - 1])]

\* verifyMerkleProof: fold the steps into the leaf.
ClimbStep(node, step) ==
  IF step.position = "left" THEN HashPair(step.sibling, node)
  ELSE HashPair(node, step.sibling)

Nodes(leaf, proof) ==
  LET node[k \in 0..Len(proof)] ==
        IF k = 0 THEN leaf ELSE ClimbStep(node[k - 1], proof[k])
  IN  node

VerifyMerkleProof(leaf, proof, root) == Nodes(leaf, proof)[Len(proof)] = root
=============================================================================
