--------------------------- MODULE EvidenceProofs ---------------------------
(***************************************************************************)
(* Proofs about Evidence and the Merkle trees it exports.  A tree over any *)
(* number of leaves gives each of them a proof that verifies, and a step   *)
(* of such a proof on the other side does not.  The tables keep their      *)
(* shape while requests commit; what an export has read of a table is the  *)
(* first part of it, exactly the whole of it as long as no commit fell     *)
(* into the export.  From those two the verdict on the finished bundle     *)
(* follows, and that one alteration makes a bundle fail.                   *)
(***************************************************************************)
EXTENDS Evidence, FiniteSetTheorems, WellFoundedInduction, SequenceTheorems, TLAPS

-----------------------------------------------------------------------------
(* Merkle trees.  A recursive function is the one its equation defines.    *)

\* A set of numbers that is not empty has a least one.
LEMMA LeastNumber ==
  ASSUME NEW S, S \subseteq Nat, S # {}
  PROVE  \E x \in S : \A j \in S : x <= j
<1>1. PICK x \in S : \A y \in S : <<y, x>> \notin OpToRel(<, Nat)
  BY NatLessThanWellFounded, WFMin, Zenon
<1>2. \A y \in S : ~(y < x)
  BY <1>1, Zenon DEF OpToRel
<1> QED
  BY <1>2

\* The levels of the tree over some leaves, up to level n (buildMerkleTree).
IsLayers(f, leaves, n) ==
  f = [k \in 0..n |-> IF k = 0 THEN leaves ELSE NextLayer(f[k - 1])]

\* The levels of a tree: one more level can be computed.
LEMMA LayersGrow ==
  ASSUME NEW leaves, NEW n \in Nat, NEW f, IsLayers(f, leaves, n)
  PROVE  \E g : IsLayers(g, leaves, n + 1)
<1> DEFINE g == [k \in 0..(n + 1) |-> IF k = n + 1 THEN NextLayer(f[(n + 1) - 1]) ELSE f[k]]
<1>1. \A k \in 0..(n + 1) : g[k] = IF k = 0 THEN leaves ELSE NextLayer(g[k - 1])
  BY DEF IsLayers
<1>2. g = [k \in 0..(n + 1) |-> IF k = 0 THEN leaves ELSE NextLayer(g[k - 1])]
  BY <1>1
<1> QED
  BY <1>2, Zenon DEF IsLayers

\* The levels of a tree: there are as many levels as asked for.
LEMMA LayersExist ==
  ASSUME NEW leaves, NEW n \in Nat
  PROVE  \E f : IsLayers(f, leaves, n)
<1> DEFINE Missing == {m \in Nat : ~\E f : IsLayers(f, leaves, m)}
<1> SUFFICES ASSUME Missing # {} PROVE FALSE
  BY DEF Missing
<1>1. PICK m \in Missing : \A j \in Missing : m <= j
  BY LeastNumber
<1>2. m # 0
  <2> DEFINE g == [k \in 0..0 |-> leaves]
  <2>1. \A k \in 0..0 : leaves = IF k = 0 THEN leaves ELSE NextLayer(g[k - 1])
    OBVIOUS
  <2>2. g = [k \in 0..0 |-> IF k = 0 THEN leaves ELSE NextLayer(g[k - 1])]
    BY <2>1
  <2>3. IsLayers(g, leaves, 0)
    BY <2>2 DEF IsLayers
  <2> QED
    BY <1>1, <2>3
<1>3. m - 1 \in Nat /\ m - 1 \notin Missing /\ (m - 1) + 1 = m
  BY <1>1, <1>2
<1>4. PICK f : IsLayers(f, leaves, m - 1)
  BY <1>3
<1>5. \E g : IsLayers(g, leaves, m)
  BY <1>3, <1>4, LayersGrow
<1> QED
  BY <1>1, <1>5

\* The levels of a tree: the recursive function is the one its equation defines.
LEMMA LayersAre ==
  ASSUME NEW leaves, Len(leaves) \in Nat
  PROVE  IsLayers(Layers(leaves), leaves, Len(leaves))
<1>1. \E f : IsLayers(f, leaves, Len(leaves))
  BY LayersExist
<1>2. Layers(leaves) = CHOOSE f : IsLayers(f, leaves, Len(leaves))
  BY Zenon DEF Layers, IsLayers
<1> QED
  BY <1>1, <1>2, Zenon

\* The places of a leaf's ancestors up to level n (getMerkleProof).
IsPlaces(f, i, n) ==
  f = [k \in 0..n |-> IF k = 0 THEN i ELSE Halve(f[k - 1])]

\* The places of a leaf's ancestors: one more level can be computed.
LEMMA PlacesGrow ==
  ASSUME NEW i, NEW n \in Nat, NEW f, IsPlaces(f, i, n)
  PROVE  \E g : IsPlaces(g, i, n + 1)
<1> DEFINE g == [k \in 0..(n + 1) |-> IF k = n + 1 THEN Halve(f[(n + 1) - 1]) ELSE f[k]]
<1>1. \A k \in 0..(n + 1) : g[k] = IF k = 0 THEN i ELSE Halve(g[k - 1])
  BY DEF IsPlaces
<1>2. g = [k \in 0..(n + 1) |-> IF k = 0 THEN i ELSE Halve(g[k - 1])]
  BY <1>1
<1> QED
  BY <1>2, Zenon DEF IsPlaces

\* The places of a leaf's ancestors: there are as many levels as asked for.
LEMMA PlacesExist ==
  ASSUME NEW i, NEW n \in Nat
  PROVE  \E f : IsPlaces(f, i, n)
<1> DEFINE Missing == {m \in Nat : ~\E f : IsPlaces(f, i, m)}
<1> SUFFICES ASSUME Missing # {} PROVE FALSE
  BY DEF Missing
<1>1. PICK m \in Missing : \A j \in Missing : m <= j
  BY LeastNumber
<1>2. m # 0
  <2> DEFINE g == [k \in 0..0 |-> i]
  <2>1. \A k \in 0..0 : i = IF k = 0 THEN i ELSE Halve(g[k - 1])
    OBVIOUS
  <2>2. g = [k \in 0..0 |-> IF k = 0 THEN i ELSE Halve(g[k - 1])]
    BY <2>1
  <2>3. IsPlaces(g, i, 0)
    BY <2>2 DEF IsPlaces
  <2> QED
    BY <1>1, <2>3
<1>3. m - 1 \in Nat /\ m - 1 \notin Missing /\ (m - 1) + 1 = m
  BY <1>1, <1>2
<1>4. PICK f : IsPlaces(f, i, m - 1)
  BY <1>3
<1>5. \E g : IsPlaces(g, i, m)
  BY <1>3, <1>4, PlacesGrow
<1> QED
  BY <1>1, <1>5

\* The places of a leaf's ancestors: the recursive function is the one its equation defines.
LEMMA PlacesAre ==
  ASSUME NEW i, NEW depth \in Nat
  PROVE  IsPlaces(Places(i, depth), i, depth)
<1>1. \E f : IsPlaces(f, i, depth)
  BY PlacesExist
<1>2. Places(i, depth) = CHOOSE f : IsPlaces(f, i, depth)
  BY Zenon DEF Places, IsPlaces
<1> QED
  BY <1>1, <1>2, Zenon

\* The first n steps of a proof folded into a leaf (verifyMerkleProof).
IsNodes(f, leaf, proof, n) ==
  f = [k \in 0..n |-> IF k = 0 THEN leaf ELSE ClimbStep(f[k - 1], proof[k])]

\* The fold of a proof: one more level can be computed.
LEMMA NodesGrow ==
  ASSUME NEW leaf, NEW proof, NEW n \in Nat, NEW f, IsNodes(f, leaf, proof, n)
  PROVE  \E g : IsNodes(g, leaf, proof, n + 1)
<1> DEFINE g == [k \in 0..(n + 1) |->
                   IF k = n + 1 THEN ClimbStep(f[(n + 1) - 1], proof[(n + 1)]) ELSE f[k]]
<1>1. \A k \in 0..(n + 1) : g[k] = IF k = 0 THEN leaf ELSE ClimbStep(g[k - 1], proof[k])
  BY DEF IsNodes
<1>2. g = [k \in 0..(n + 1) |-> IF k = 0 THEN leaf ELSE ClimbStep(g[k - 1], proof[k])]
  BY <1>1
<1> QED
  BY <1>2, Zenon DEF IsNodes

\* The fold of a proof: there are as many levels as asked for.
LEMMA NodesExist ==
  ASSUME NEW leaf, NEW proof, NEW n \in Nat
  PROVE  \E f : IsNodes(f, leaf, proof, n)
<1> DEFINE Missing == {m \in Nat : ~\E f : IsNodes(f, leaf, proof, m)}
<1> SUFFICES ASSUME Missing # {} PROVE FALSE
  BY DEF Missing
<1>1. PICK m \in Missing : \A j \in Missing : m <= j
  BY LeastNumber
<1>2. m # 0
  <2> DEFINE g == [k \in 0..0 |-> leaf]
  <2>1. \A k \in 0..0 : leaf = IF k = 0 THEN leaf ELSE ClimbStep(g[k - 1], proof[k])
    OBVIOUS
  <2>2. g = [k \in 0..0 |-> IF k = 0 THEN leaf ELSE ClimbStep(g[k - 1], proof[k])]
    BY <2>1
  <2>3. IsNodes(g, leaf, proof, 0)
    BY <2>2 DEF IsNodes
  <2> QED
    BY <1>1, <2>3
<1>3. m - 1 \in Nat /\ m - 1 \notin Missing /\ (m - 1) + 1 = m
  BY <1>1, <1>2
<1>4. PICK f : IsNodes(f, leaf, proof, m - 1)
  BY <1>3
<1>5. \E g : IsNodes(g, leaf, proof, m)
  BY <1>3, <1>4, NodesGrow
<1> QED
  BY <1>1, <1>5

\* The fold of a proof: the recursive function is the one its equation defines.
LEMMA NodesAre ==
  ASSUME NEW leaf, NEW proof, Len(proof) \in Nat
  PROVE  IsNodes(Nodes(leaf, proof), leaf, proof, Len(proof))
<1>1. \E f : IsNodes(f, leaf, proof, Len(proof))
  BY NodesExist
<1>2. Nodes(leaf, proof) = CHOOSE f : IsNodes(f, leaf, proof, Len(proof))
  BY Zenon DEF Nodes, IsNodes
<1> QED
  BY <1>1, <1>2, Zenon

\* A sequence of n items, as the functions of Merkle and Evidence build them.
IsRow(row, n) == n \in Nat /\ row = [i \in 1..n |-> row[i]]

\* Such a function is a sequence of that length.
LEMMA RowLength ==
  ASSUME NEW n, NEW row, IsRow(row, n)
  PROVE  Len(row) = n /\ DOMAIN row = 1..n /\ row \in Seq({row[i] : i \in 1..n})
<1>1. row \in [1..n -> {row[i] : i \in 1..n}]
  BY DEF IsRow
<1>2. row \in Seq({row[i] : i \in 1..n})
  BY <1>1, SeqDef DEF IsRow
<1>3. DOMAIN row = 1..n
  BY DEF IsRow
<1>4. Len(row) \in Nat /\ DOMAIN row = 1..Len(row)
  BY <1>2, LenProperties
<1> QED
  BY <1>2, <1>3, <1>4 DEF IsRow

\* Halving rounds up, and stays in step with the order.
LEMMA HalveBounds ==
  ASSUME NEW n \in Nat \ {0}
  PROVE  /\ Halve(n) \in 1..n
         /\ n > 1 => Halve(n) < n
         /\ \A m \in 1..n : Halve(m) \in 1..Halve(n)
BY DEF Halve

\* A level of n > 0 nodes is followed by one of Halve(n).
LEMMA NextLayerIsRow ==
  ASSUME NEW n \in Nat \ {0}, NEW layer, IsRow(layer, n)
  PROVE  /\ IsRow(NextLayer(layer), Halve(n))
         /\ \A i \in 1..Halve(n) : NextLayer(layer)[i] =
              HashPair(layer[2*i - 1], IF 2*i <= n THEN layer[2*i] ELSE layer[2*i - 1])
<1>1. Len(layer) = n
  BY RowLength
<1>2. Halve(n) \in Nat
  BY HalveBounds
<1>3. NextLayer(layer) = [i \in 1..Halve(n) |->
        HashPair(layer[2*i - 1], IF 2*i <= n THEN layer[2*i] ELSE layer[2*i - 1])]
  BY <1>1 DEF NextLayer
<1>4. \A i \in 1..Halve(n) : NextLayer(layer)[i] =
        HashPair(layer[2*i - 1], IF 2*i <= n THEN layer[2*i] ELSE layer[2*i - 1])
  BY <1>3, Zenon
<1>5. NextLayer(layer) = [i \in 1..Halve(n) |-> NextLayer(layer)[i]]
  BY <1>3
<1> QED
  BY <1>2, <1>4, <1>5 DEF IsRow

\* The first level is the leaves, and each other level is made from the one
\* before.
LEMMA LayerEquations ==
  ASSUME NEW leaves, Len(leaves) \in Nat
  PROVE  /\ Layers(leaves)[0] = leaves
         /\ \A k \in 1..Len(leaves) : Layers(leaves)[k] = NextLayer(Layers(leaves)[k - 1])
<1> DEFINE f == Layers(leaves)
<1>1. f = [k \in 0..Len(leaves) |-> IF k = 0 THEN leaves ELSE NextLayer(f[k - 1])]
  BY LayersAre DEF IsLayers
<1> HIDE DEF f
<1>2. \A k \in 0..Len(leaves) : f[k] = IF k = 0 THEN leaves ELSE NextLayer(f[k - 1])
  BY <1>1, Zenon
<1>3. f[0] = leaves
  BY <1>2
<1>4. \A k \in 1..Len(leaves) : f[k] = NextLayer(f[k - 1])
  BY <1>2
<1> QED
  BY <1>3, <1>4 DEF f

\* The levels are rows that get shorter until one node is left.
LEMMA LayerWidths ==
  ASSUME NEW leaves, NEW n \in Nat \ {0}, IsRow(leaves, n)
  PROVE  \A k \in 0..n :
           \E w \in 1..n : IsRow(Layers(leaves)[k], w) /\ (w = 1 \/ w + k <= n)
<1> DEFINE Good(k) == \E w \in 1..n : IsRow(Layers(leaves)[k], w) /\ (w = 1 \/ w + k <= n)
           Bad == {k \in 0..n : ~Good(k)}
<1> SUFFICES ASSUME Bad # {} PROVE FALSE
  OBVIOUS
<1>1. Len(leaves) = n
  BY RowLength
<1>2. PICK k \in Bad : \A j \in Bad : k <= j
  <2>1. Bad \subseteq Nat /\ Bad # {}
    OBVIOUS
  <2> HIDE DEF Bad
  <2> QED
    BY <2>1, LeastNumber
<1>3. Good(0)
  <2>1. Layers(leaves)[0] = leaves
    BY <1>1, LayerEquations
  <2> QED
    BY <2>1
<1>4. k \in 1..n
  BY <1>2, <1>3
<1>5. Good(k - 1)
  BY <1>2, <1>4
<1>6. PICK v \in 1..n : IsRow(Layers(leaves)[k - 1], v) /\ (v = 1 \/ v + (k - 1) <= n)
  BY <1>5
<1>7. Layers(leaves)[k] = NextLayer(Layers(leaves)[k - 1])
  BY <1>1, <1>4, LayerEquations
<1>8. IsRow(Layers(leaves)[k], Halve(v))
  BY <1>6, <1>7, NextLayerIsRow
<1>9. Halve(v) \in 1..v /\ (v > 1 => Halve(v) < v)
  BY <1>6, HalveBounds
<1>10. Halve(v) \in 1..n /\ (Halve(v) = 1 \/ Halve(v) + k <= n)
  BY <1>4, <1>6, <1>9
<1> QED
  BY <1>2, <1>8, <1>10

\* There is a level of one node, and Depth is the first.
LEMMA DepthIsLeast ==
  ASSUME NEW leaves, NEW n \in Nat \ {0}, IsRow(leaves, n)
  PROVE  /\ Depth(leaves) \in 0..n
         /\ Len(Layers(leaves)[Depth(leaves)]) = 1
<1> DEFINE width(k) == Len(Layers(leaves)[k])
           single == {k \in 0..n : width(k) = 1}
<1>1. Len(leaves) = n
  BY RowLength
<1>2. ASSUME NEW k \in 0..n
      PROVE  width(k) \in 1..n /\ (width(k) = 1 \/ width(k) + k <= n)
  <2>1. PICK w \in 1..n : IsRow(Layers(leaves)[k], w) /\ (w = 1 \/ w + k <= n)
    BY LayerWidths
  <2>2. width(k) = w
    BY <2>1, RowLength
  <2> QED
    BY <2>1, <2>2
<1> HIDE DEF width
<1>3. n - 1 \in single
  BY <1>2
<1>4. PICK d \in single : \A j \in single : d <= j
  <2>1. single \subseteq Nat /\ single # {}
    BY <1>3
  <2> HIDE DEF single
  <2> QED
    BY <2>1, LeastNumber
<1>5. d \in 0..n /\ width(d) = 1 /\ \A k \in 0..(d - 1) : width(k) > 1
  BY <1>2, <1>4
<1>6. \E c \in 0..Len(leaves) : Len(Layers(leaves)[c]) = 1
                                /\ \A k \in 0..(c - 1) : Len(Layers(leaves)[k]) > 1
  BY <1>1, <1>5 DEF width
<1>7. /\ Depth(leaves) \in 0..Len(leaves)
      /\ Len(Layers(leaves)[Depth(leaves)]) = 1
  BY <1>6, Zenon DEF Depth
<1> QED
  BY <1>1, <1>7

\* The first place is the leaf's, and each other is half the one below.
LEMMA PlaceEquations ==
  ASSUME NEW i, NEW depth \in Nat
  PROVE  /\ Places(i, depth)[0] = i
         /\ \A k \in 1..depth : Places(i, depth)[k] = Halve(Places(i, depth)[k - 1])
<1> DEFINE f == Places(i, depth)
<1>1. f = [k \in 0..depth |-> IF k = 0 THEN i ELSE Halve(f[k - 1])]
  BY PlacesAre DEF IsPlaces
<1> HIDE DEF f
<1>2. \A k \in 0..depth : f[k] = IF k = 0 THEN i ELSE Halve(f[k - 1])
  BY <1>1, Zenon
<1>3. f[0] = i
  BY <1>2
<1>4. \A k \in 1..depth : f[k] = Halve(f[k - 1])
  BY <1>2
<1> QED
  BY <1>3, <1>4 DEF f

\* A leaf's ancestor at every level is a node of that level.
LEMMA PlacesInLayers ==
  ASSUME NEW leaves, NEW n \in Nat \ {0}, IsRow(leaves, n), NEW i \in 1..n,
         NEW d \in 0..n
  PROVE  \A k \in 0..d : Places(i, d)[k] \in 1..Len(Layers(leaves)[k])
<1> DEFINE Bad == {k \in 0..d : ~(Places(i, d)[k] \in 1..Len(Layers(leaves)[k]))}
<1> SUFFICES ASSUME Bad # {} PROVE FALSE
  OBVIOUS
<1>1. Len(leaves) = n
  BY RowLength
<1>2. PICK k \in Bad : \A j \in Bad : k <= j
  <2>1. Bad \subseteq Nat /\ Bad # {}
    OBVIOUS
  <2> HIDE DEF Bad
  <2> QED
    BY <2>1, LeastNumber
<1>3. Places(i, d)[0] = i /\ Layers(leaves)[0] = leaves
  BY <1>1, LayerEquations, PlaceEquations
<1>4. k \in 1..d
  BY <1>1, <1>2, <1>3
<1>5. Places(i, d)[k - 1] \in 1..Len(Layers(leaves)[k - 1])
  BY <1>2, <1>4
<1>6. PICK v \in 1..n : IsRow(Layers(leaves)[k - 1], v)
  <2>1. k - 1 \in 0..n
    BY <1>4
  <2> QED
    BY <2>1, LayerWidths
<1>7. Len(Layers(leaves)[k - 1]) = v
  BY <1>6, RowLength
<1>8. Layers(leaves)[k] = NextLayer(Layers(leaves)[k - 1])
  BY <1>1, <1>4, LayerEquations
<1>9. IsRow(Layers(leaves)[k], Halve(v))
  BY <1>6, <1>8, NextLayerIsRow
<1>10. Len(Layers(leaves)[k]) = Halve(v)
  BY <1>9, RowLength
<1>11. Places(i, d)[k] = Halve(Places(i, d)[k - 1])
  BY <1>4, PlaceEquations
<1>12. Halve(Places(i, d)[k - 1]) \in 1..Halve(v)
  BY <1>5, <1>6, <1>7, HalveBounds
<1> QED
  BY <1>2, <1>10, <1>11, <1>12

\* One step of a proof leads from a node to its parent.
LEMMA StepToParent ==
  ASSUME NEW n \in Nat \ {0}, NEW layer, IsRow(layer, n), NEW p \in 1..n
  PROVE  ClimbStep(layer[p], SiblingStep(layer, p)) = NextLayer(layer)[Halve(p)]
<1>1. Len(layer) = n
  BY RowLength
<1>2. Halve(p) \in 1..Halve(n)
  BY HalveBounds
<1>3. NextLayer(layer)[Halve(p)] =
        HashPair(layer[2*Halve(p) - 1],
                 IF 2*Halve(p) <= n THEN layer[2*Halve(p)] ELSE layer[2*Halve(p) - 1])
  BY <1>2, NextLayerIsRow
<1>4. CASE p % 2 = 0
  <2>1. 2 * Halve(p) = p
    BY <1>4 DEF Halve
  <2>2. SiblingStep(layer, p) = [sibling |-> layer[p - 1], position |-> "left"]
    BY <1>4 DEF SiblingStep
  <2> QED
    BY <1>3, <2>1, <2>2 DEF ClimbStep
<1>5. CASE p % 2 # 0
  <2>1. 2 * Halve(p) = p + 1
    BY <1>5 DEF Halve
  <2>2. SiblingStep(layer, p) =
          [sibling |-> IF p < n THEN layer[p + 1] ELSE layer[p], position |-> "right"]
    BY <1>1, <1>5 DEF SiblingStep
  <2>3. NextLayer(layer)[Halve(p)] =
          HashPair(layer[p], IF p + 1 <= n THEN layer[p + 1] ELSE layer[p])
    BY <1>3, <2>1
  <2>4. ClimbStep(layer[p], SiblingStep(layer, p)) =
          HashPair(layer[p], IF p < n THEN layer[p + 1] ELSE layer[p])
    BY <2>2 DEF ClimbStep
  <2> QED
    BY <2>3, <2>4
<1> QED
  BY <1>4, <1>5

\* The proof of a leaf is a sequence of as many steps as the tree is deep,
\* each to the left or to the right.
LEMMA ProofShape ==
  ASSUME NEW leaves, NEW n \in Nat \ {0}, IsRow(leaves, n), NEW i \in 1..n
  PROVE  /\ IsRow(MerkleProof(leaves, i), Depth(leaves))
         /\ \A k \in 1..Depth(leaves) :
              MerkleProof(leaves, i)[k]
                = SiblingStep(Layers(leaves)[k - 1], Places(i, Depth(leaves))[k - 1])
<1>1. Depth(leaves) \in Nat
  BY DepthIsLeast
<1> QED
  BY <1>1 DEF MerkleProof, IsRow

\* The fold starts at the leaf and takes one step at a time.
LEMMA NodeEquations ==
  ASSUME NEW leaf, NEW proof, NEW d \in Nat, Len(proof) = d
  PROVE  /\ Nodes(leaf, proof)[0] = leaf
         /\ \A k \in 1..d : Nodes(leaf, proof)[k]
                              = ClimbStep(Nodes(leaf, proof)[k - 1], proof[k])
<1> DEFINE f == Nodes(leaf, proof)
<1>1. f = [k \in 0..d |-> IF k = 0 THEN leaf ELSE ClimbStep(f[k - 1], proof[k])]
  BY NodesAre DEF IsNodes
<1> HIDE DEF f
<1>2. \A k \in 0..d : f[k] = IF k = 0 THEN leaf ELSE ClimbStep(f[k - 1], proof[k])
  BY <1>1, Zenon
<1>3. f[0] = leaf
  BY <1>2
<1>4. \A k \in 1..d : f[k] = ClimbStep(f[k - 1], proof[k])
  BY <1>2
<1> QED
  BY <1>3, <1>4 DEF f

\* getMerkleProof and verifyMerkleProof agree: for a tree over any positive
\* number of leaves, odd levels included, the proof of each leaf verifies
\* against the root.
THEOREM ProofsVerify ==
  ASSUME NEW leaves, NEW n \in Nat \ {0}, IsRow(leaves, n), NEW i \in 1..n
  PROVE  VerifyMerkleProof(leaves[i], MerkleProof(leaves, i), MerkleRoot(leaves))
<1> DEFINE d == Depth(leaves)
           proof == MerkleProof(leaves, i)
           node == Nodes(leaves[i], proof)
           place == Places(i, d)
           layer == Layers(leaves)
           Bad == {k \in 0..d : node[k] # layer[k][place[k]]}
<1>1. d \in 0..n /\ Len(layer[d]) = 1
  BY DepthIsLeast
<1>2. IsRow(proof, d) /\ \A k \in 1..d : proof[k] = SiblingStep(layer[k - 1], place[k - 1])
  BY ProofShape
<1>3. Len(proof) = d
  BY <1>2, RowLength
<1>4. node[0] = leaves[i] /\ \A k \in 1..d : node[k] = ClimbStep(node[k - 1], proof[k])
  BY <1>1, <1>3, NodeEquations
<1>5. place[0] = i /\ \A k \in 1..d : place[k] = Halve(place[k - 1])
  BY <1>1, PlaceEquations
<1>6. Len(leaves) = n
  BY RowLength
<1>7. layer[0] = leaves /\ \A k \in 1..n : layer[k] = NextLayer(layer[k - 1])
  BY <1>6, LayerEquations
<1>8. \A k \in 0..d : place[k] \in 1..Len(layer[k])
  BY <1>1, PlacesInLayers
<1>9. \A k \in 0..n : \E w \in 1..n : IsRow(layer[k], w)
  BY LayerWidths
<1> HIDE DEF d, proof, node, place, layer
<1>10. Bad = {}
  <2> SUFFICES ASSUME Bad # {} PROVE FALSE
    OBVIOUS
  <2>1. Bad \subseteq Nat
    BY <1>1
  <2>2. PICK k \in Bad : \A j \in Bad : k <= j
    BY <2>1, LeastNumber
  <2>3. k \in 1..d
    BY <1>1, <1>4, <1>5, <1>7, <2>2
  <2>4. node[k - 1] = layer[k - 1][place[k - 1]]
    BY <1>1, <2>2, <2>3
  <2>5. PICK w \in 1..n : IsRow(layer[k - 1], w)
    BY <1>1, <1>9, <2>3
  <2>6. place[k - 1] \in 1..w
    <3>1. k - 1 \in 0..d
      BY <1>1, <2>3
    <3>2. place[k - 1] \in 1..Len(layer[k - 1])
      BY <1>8, <3>1
    <3> QED
      BY <2>5, <3>2, RowLength
  <2>7. node[k] = ClimbStep(layer[k - 1][place[k - 1]],
                            SiblingStep(layer[k - 1], place[k - 1]))
    BY <1>2, <1>4, <2>3, <2>4
  <2>8. node[k] = NextLayer(layer[k - 1])[Halve(place[k - 1])]
    BY <2>5, <2>6, <2>7, StepToParent
  <2>9. layer[k] = NextLayer(layer[k - 1]) /\ place[k] = Halve(place[k - 1])
    BY <1>1, <1>5, <1>7, <2>3
  <2> QED
    BY <2>2, <2>8, <2>9
<1>11. place[d] = 1
  <2>1. d \in 0..d
    BY <1>1
  <2>2. place[d] \in 1..Len(layer[d])
    BY <1>8, <2>1
  <2> QED
    BY <1>1, <2>2
<1>12. node[d] = layer[d][1]
  BY <1>1, <1>10, <1>11
<1>13. leaves # <<>>
  BY <1>6
<1>14. MerkleRoot(leaves) = layer[d][1]
  BY <1>13 DEF MerkleRoot, layer, d
<1>15. VerifyMerkleProof(leaves[i], proof, MerkleRoot(leaves))
  BY <1>3, <1>12, <1>14 DEF VerifyMerkleProof, node
<1> QED
  BY <1>15 DEF proof

\* The root is a leaf or the hash of a pair, never another kind of value.
LEMMA RootIsHash ==
  ASSUME NEW leaves, NEW n \in Nat \ {0}, IsRow(leaves, n)
  PROVE  MerkleRoot(leaves) = leaves[1] \/ \E l, r : MerkleRoot(leaves) = HashPair(l, r)
<1> DEFINE d == Depth(leaves)
           layer == Layers(leaves)
<1>1. d \in 0..n /\ Len(layer[d]) = 1
  BY DepthIsLeast
<1>2. Len(leaves) = n /\ leaves # <<>>
  <2>1. Len(leaves) = n
    BY RowLength
  <2> QED
    BY <2>1
<1>3. layer[0] = leaves /\ \A k \in 1..n : layer[k] = NextLayer(layer[k - 1])
  BY <1>2, LayerEquations
<1>4. \A k \in 0..n : \E w \in 1..n : IsRow(layer[k], w)
  BY LayerWidths
<1>5. MerkleRoot(leaves) = layer[d][1]
  BY <1>2 DEF MerkleRoot
<1> HIDE DEF d, layer
<1>6. CASE d = 0
  BY <1>3, <1>5, <1>6
<1>7. CASE d # 0
  <2>1. d \in 1..n /\ layer[d] = NextLayer(layer[d - 1])
    BY <1>1, <1>3, <1>7
  <2>2. PICK w \in 1..n : IsRow(layer[d - 1], w)
    BY <1>4, <2>1
  <2>3. 1 \in 1..Halve(w)
    BY HalveBounds
  <2>4. NextLayer(layer[d - 1])[1] =
          HashPair(layer[d - 1][2*1 - 1],
                   IF 2*1 <= w THEN layer[d - 1][2*1] ELSE layer[d - 1][2*1 - 1])
    BY <2>2, <2>3, NextLayerIsRow
  <2> QED
    BY <1>5, <2>1, <2>4, Zenon
<1> QED
  BY <1>6, <1>7

\* A step on the left or on the right tells the nodes it is taken from apart.
LEMMA ClimbInjective ==
  ASSUME NEW step, NEW x, NEW y, ClimbStep(x, step) = ClimbStep(y, step)
  PROVE  x = y
BY DEF ClimbStep, HashPair

\* A proof with one step on the other side folds into another node, unless
\* that step pairs a node with itself.
LEMMA SwappedStepFails ==
  ASSUME NEW leaf, NEW proof, NEW d \in Nat, IsRow(proof, d), NEW i \in 1..d,
         NEW s, NEW other, IsRow(other, d),
         s # Nodes(leaf, proof)[i - 1],
         \/ proof[i] = [sibling |-> s, position |-> "left"]
            /\ other[i] = [sibling |-> s, position |-> "right"]
         \/ proof[i] = [sibling |-> s, position |-> "right"]
            /\ other[i] = [sibling |-> s, position |-> "left"],
         \A k \in 1..d : k # i => other[k] = proof[k]
  PROVE  Nodes(leaf, other)[d] # Nodes(leaf, proof)[d]
<1>1. Len(proof) = d /\ Len(other) = d
  <2>1. Len(proof) = d
    BY RowLength
  <2>2. Len(other) = d
    BY RowLength
  <2> QED
    BY <2>1, <2>2
<1> DEFINE old == Nodes(leaf, proof)
           new == Nodes(leaf, other)
<1>2. old[0] = leaf /\ \A k \in 1..d : old[k] = ClimbStep(old[k - 1], proof[k])
  BY <1>1, NodeEquations, SMTT(30)
<1>3. new[0] = leaf /\ \A k \in 1..d : new[k] = ClimbStep(new[k - 1], other[k])
  BY <1>1, NodeEquations, SMTT(30)
<1> DEFINE Wrong == {k \in 0..(i - 1) : new[k] # old[k]}
           Same == {k \in i..d : new[k] = old[k]}
<1>4. s # old[i - 1]
  OBVIOUS
<1> HIDE DEF old, new
<1>5. Wrong = {}
  <2> SUFFICES ASSUME Wrong # {} PROVE FALSE
    OBVIOUS
  <2>1. PICK k \in Wrong : \A j \in Wrong : k <= j
    <3>1. Wrong \subseteq Nat /\ Wrong # {}
      OBVIOUS
    <3> HIDE DEF Wrong
    <3> QED
      BY <3>1, LeastNumber
  <2>2. k \in 1..(i - 1)
    BY <1>2, <1>3, <2>1
  <2>3. new[k - 1] = old[k - 1] /\ other[k] = proof[k] /\ k \in 1..d
    BY <2>1, <2>2
  <2> QED
    BY <1>2, <1>3, <2>1, <2>3
<1>6. new[i - 1] = old[i - 1]
  BY <1>5
<1>7. new[i] # old[i]
  <2>1. new[i] = ClimbStep(old[i - 1], other[i]) /\ old[i] = ClimbStep(old[i - 1], proof[i])
    BY <1>2, <1>3, <1>6
  <2> QED
    BY <1>4, <2>1 DEF ClimbStep, HashPair
<1>8. Same = {}
  <2> SUFFICES ASSUME Same # {} PROVE FALSE
    OBVIOUS
  <2>1. PICK k \in Same : \A j \in Same : k <= j
    <3>1. Same \subseteq Nat /\ Same # {}
      OBVIOUS
    <3> HIDE DEF Same
    <3> QED
      BY <3>1, LeastNumber
  <2>2. k \in (i + 1)..d
    BY <1>7, <2>1
  <2>3. new[k - 1] # old[k - 1] /\ other[k] = proof[k] /\ k \in 1..d
    BY <2>1, <2>2
  <2>4. ClimbStep(new[k - 1], proof[k]) = ClimbStep(old[k - 1], proof[k])
    BY <1>2, <1>3, <2>1, <2>3
  <2> QED
    BY <2>3, <2>4, ClimbInjective
<1>9. new[d] # old[d]
  BY <1>8
<1> QED
  BY <1>9 DEF new, old

-----------------------------------------------------------------------------
(* The tables: the chain, its checkpoints and the events.                  *)

EventRecord == [id : Nat, type : {"work", "sealed"}, parents : SUBSET Nat]

\* Each event names itself by its sequence and its parents are before it.
Linked(es) == \A i \in 1..Len(es) : es[i].id = i /\ es[i].parents \subseteq 1..(i - 1)

EntryFields == {"org", "seq", "exec", "type", "content", "graph", "prev", "at", "hash"}

IsGraph(e, g) == \E st \in Statuses : \E es \in Seq(EventRecord) : g = GraphHash(e, st, es)

\* Entry n of a chain: nothing is left open but its execution, its type and
\* whether it carries a graph of that execution.
EntryShape(chain, n) ==
  /\ chain[n] = [f \in EntryFields |-> chain[n][f]]
  /\ chain[n].org = Organization
  /\ chain[n].seq = n
  /\ chain[n].exec \in Executions
  /\ chain[n].type \in EntryTypes
  /\ chain[n].content = "content"
  /\ chain[n].at = "now"
  /\ chain[n].prev = IF n = 1 THEN Null ELSE chain[n - 1].hash
  /\ chain[n].hash = EntryHash(chain[n])
  /\ \/ chain[n].graph = Null
     \/ chain[n].type \in {"final", "failure"} /\ IsGraph(chain[n].exec, chain[n].graph)

ChainShape(chain) ==
  IsRow(chain, Len(chain)) /\ \A n \in 1..Len(chain) : EntryShape(chain, n)

\* The checkpoint of interval k of a chain.
SpanLeaves(chain, k) == [i \in 1..Interval |-> chain[(k - 1) * Interval + i].hash]

SpanCheckpoint(chain, k) ==
  [from |-> (k - 1) * Interval + 1, through |-> k * Interval,
   leaves |-> SpanLeaves(chain, k), root |-> MerkleRoot(SpanLeaves(chain, k))]

\* There is one for each completed interval.
CheckpointShape(chain, cs) ==
  /\ IsRow(cs, Len(cs))
  /\ Len(cs) * Interval <= Len(chain)
  /\ Len(chain) < (Len(cs) + 1) * Interval
  /\ \A k \in 1..Len(cs) : cs[k] = SpanCheckpoint(chain, k)

\* An entry's execution has a row, and events if the entry seals it.
Owned ==
  \A n \in 1..Len(ledger) :
    /\ status[ledger[n].exec] # Absent
    /\ ledger[n].graph # Null => events[ledger[n].exec] # <<>>

RowsTyped ==
  /\ status \in [Executions -> Statuses \cup {Absent}]
  /\ finalEntry \in [Executions -> Nat]
  /\ \A e \in Executions : finalEntry[e] <= Len(ledger)

EventsTyped ==
  /\ events \in [Executions -> Seq(EventRecord)]
  /\ \A e \in Executions : Linked(events[e]) /\ (status[e] = Absent => events[e] = <<>>)

DbInv ==
  RowsTyped /\ EventsTyped /\ ChainShape(ledger) /\ CheckpointShape(ledger, checkpoints) /\ Owned

\* The rows of one sequence are the first of another.
Prefix(s, t) ==
  /\ IsRow(s, Len(s)) /\ Len(s) <= Len(t)
  /\ \A n \in 1..Len(s) : t[n] = s[n]

\* What a commit does to the tables, as far as a reader of them can tell.
Grows ==
  /\ pc # "done"
  /\ UNCHANGED requestVars
  /\ stale' = (stale \/ pc \in {"tables", "events"})
  /\ races \in 0..MaxRaces => races' \in 0..MaxRaces
  /\ Prefix(ledger, ledger') /\ Prefix(checkpoints, checkpoints')
  /\ \A e \in Executions : status[e] # Absent => status'[e] # Absent

\* Products of interval numbers stay in order.
LEMMA SpanBounds ==
  ASSUME NEW I \in Nat \ {0}, NEW q \in Nat, NEW n \in Nat, q * I <= n, NEW k \in 1..q
  PROVE  /\ (k - 1) * I \in Nat
         /\ (k - 1) * I + I = k * I
         /\ k * I <= n
         /\ \A i \in 1..I : (k - 1) * I + i \in 1..n
<1>1. (k - 1) * I \in Nat /\ k * I \in Nat /\ (q - k) * I \in Nat
  <2>1. k - 1 \in Nat /\ q - k \in Nat /\ I \in Nat
    OBVIOUS
  <2> QED
    BY <2>1
<1>2. (k - 1) * I + I = k * I /\ k * I + (q - k) * I = q * I
  OBVIOUS
<1> QED
  BY <1>1, <1>2

\* A number of entries between q and q + 1 intervals completes q of them.
LEMMA SpanQuotient ==
  ASSUME NEW I \in Nat \ {0}, NEW q \in Nat, NEW n \in Nat, q * I <= n, n < (q + 1) * I
  PROVE  n \div I = q /\ n % I = n - q * I
<1>1. q * I \in Nat /\ (q + 1) * I = q * I + I
  OBVIOUS
<1>2. n = I * (n \div I) + (n % I) /\ n % I \in 0..(I - 1) /\ n \div I \in Int
  OBVIOUS
<1>3. ~(n \div I < q)
  <2> SUFFICES ASSUME n \div I <= q - 1 PROVE FALSE
    BY <1>2
  <2>1. I * (n \div I) <= I * (q - 1)
    BY <1>2
  <2>2. I * (q - 1) = q * I - I
    OBVIOUS
  <2> QED
    BY <1>1, <1>2, <2>1, <2>2
<1>4. ~(n \div I > q)
  <2> SUFFICES ASSUME n \div I >= q + 1 PROVE FALSE
    BY <1>2
  <2>1. I * (n \div I) >= I * (q + 1)
    BY <1>2
  <2> QED
    BY <1>1, <1>2, <2>1
<1>5. n \div I = q
  BY <1>2, <1>3, <1>4
<1> QED
  BY <1>1, <1>2, <1>5

\* Append puts one element after those of a row.
LEMMA AppendRow ==
  ASSUME NEW row, NEW k, IsRow(row, k), NEW x
  PROVE  /\ IsRow(Append(row, x), k + 1)
         /\ Len(Append(row, x)) = k + 1
         /\ \A i \in 1..k : Append(row, x)[i] = row[i]
         /\ Append(row, x)[k + 1] = x
<1> PICK S : S = {row[i] : i \in 1..k} \cup {x}
  OBVIOUS
<1>1. k \in Nat /\ row \in [1..k -> S] /\ x \in S
  BY DEF IsRow
<1>2. row \in Seq(S) /\ Len(row) = k
  BY <1>1, SeqDef, RowLength
<1>3. /\ Append(row, x) \in Seq(S) /\ Len(Append(row, x)) = k + 1
      /\ \A i \in 1..k : Append(row, x)[i] = row[i]
      /\ Append(row, x)[k + 1] = x
  BY <1>1, <1>2, AppendProperties
<1>4. Append(row, x) \in [1..(k + 1) -> S]
  BY <1>1, <1>3, LenProperties
<1>5. Append(row, x) = [i \in 1..(k + 1) |-> Append(row, x)[i]]
  BY <1>4
<1> QED
  BY <1>1, <1>3, <1>5 DEF IsRow

\* The fields of a new entry.
LEMMA NewEntryFields ==
  ASSUME NEW e, NEW type, NEW graph
  PROVE  /\ NewEntry(e, type, graph) = [f \in EntryFields |-> NewEntry(e, type, graph)[f]]
         /\ NewEntry(e, type, graph).org = Organization
         /\ NewEntry(e, type, graph).seq = Len(ledger) + 1
         /\ NewEntry(e, type, graph).exec = e
         /\ NewEntry(e, type, graph).type = type
         /\ NewEntry(e, type, graph).content = "content"
         /\ NewEntry(e, type, graph).at = "now"
         /\ NewEntry(e, type, graph).prev = LastHash
         /\ NewEntry(e, type, graph).graph = graph
         /\ NewEntry(e, type, graph).hash = EntryHash(NewEntry(e, type, graph))
<1> PICK r : r = [org |-> Organization, seq |-> Len(ledger) + 1, exec |-> e, type |-> type,
                  content |-> "content", graph |-> graph, prev |-> LastHash, at |-> "now"]
  OBVIOUS
<1>1. DOMAIN r \cup {"hash"} = EntryFields /\ "hash" \notin DOMAIN r
  BY DEF EntryFields
<1> PICK x : x = NewEntry(e, type, graph)
  OBVIOUS
<1>2. x = [f \in EntryFields |-> IF f = "hash" THEN EntryHash(r) ELSE r[f]]
  BY <1>1 DEF NewEntry
<1>3. /\ x.org = Organization /\ x.seq = Len(ledger) + 1 /\ x.exec = e /\ x.type = type
      /\ x.content = "content" /\ x.graph = graph /\ x.prev = LastHash /\ x.at = "now"
      /\ x.hash = EntryHash(r)
  BY <1>2 DEF EntryFields
<1>4. EntryHash(r) = EntryHash(x)
  BY <1>3 DEF EntryHash
<1>5. x = [f \in EntryFields |-> x[f]]
  BY <1>2
<1> QED
  BY <1>3, <1>4, <1>5

\* An appended entry keeps the chain in shape.
LEMMA ChainGrows ==
  ASSUME ChainShape(ledger), NEW e \in Executions, NEW type \in EntryTypes, NEW graph,
         \/ graph = Null
         \/ type \in {"final", "failure"} /\ IsGraph(e, graph)
  PROVE  ChainShape(Append(ledger, NewEntry(e, type, graph)))
<1> PICK x : x = NewEntry(e, type, graph)
  OBVIOUS
<1> PICK n \in Nat : n = Len(ledger)
  BY DEF ChainShape, IsRow
<1> PICK c : c = Append(ledger, x)
  OBVIOUS
<1>1. IsRow(c, n + 1) /\ Len(c) = n + 1 /\ c[n + 1] = x /\ \A i \in 1..n : c[i] = ledger[i]
  BY AppendRow DEF ChainShape
<1>2. ASSUME NEW i \in 1..n PROVE EntryShape(c, i)
  <2>1. EntryShape(ledger, i) /\ c[i] = ledger[i]
    BY <1>1 DEF ChainShape
  <2>2. i # 1 => c[i - 1] = ledger[i - 1]
    BY <1>1
  <2> QED
    BY <2>1, <2>2 DEF EntryShape
<1>3. EntryShape(c, n + 1)
  <2>1. LastHash = IF n = 0 THEN Null ELSE ledger[n].hash
    BY RowLength DEF LastHash, ChainShape
  <2>2. LastHash = IF n + 1 = 1 THEN Null ELSE c[(n + 1) - 1].hash
    BY <1>1, <2>1
  <2>3. /\ x = [f \in EntryFields |-> x[f]]
        /\ x.org = Organization /\ x.seq = n + 1 /\ x.exec = e /\ x.type = type
        /\ x.content = "content" /\ x.at = "now" /\ x.prev = LastHash
        /\ x.graph = graph /\ x.hash = EntryHash(x)
    BY NewEntryFields
  <2> QED
    BY <1>1, <2>2, <2>3 DEF EntryShape
<1> QED
  BY <1>1, <1>2, <1>3 DEF ChainShape

\* A prefix of a prefix, and every row of itself.
LEMMA PrefixReflexive ==
  ASSUME NEW s, IsRow(s, Len(s))
  PROVE  Prefix(s, s)
BY DEF Prefix, IsRow

\* Chains with the same entries in an interval have the same checkpoint.
LEMMA SpanKept ==
  ASSUME NEW chain, NEW longer, NEW k,
         \A i \in 1..Interval :
           longer[(k - 1) * Interval + i] = chain[(k - 1) * Interval + i]
  PROVE  SpanCheckpoint(longer, k) = SpanCheckpoint(chain, k)
<1>1. SpanLeaves(longer, k) = SpanLeaves(chain, k)
  BY Zenon DEF SpanLeaves
<1> QED
  BY <1>1, Zenon DEF SpanCheckpoint

\* The entry that completes an interval brings its checkpoint, and no other
\* entry brings one.
LEMMA CheckpointGrows ==
  ASSUME NEW chain, NEW n \in Nat, Len(chain) = n, NEW cs, CheckpointShape(chain, cs),
         NEW longer, Len(longer) = n + 1, \A i \in 1..n : longer[i] = chain[i]
  PROVE  /\ CheckpointShape(longer, cs \o NewCheckpoint(longer))
         /\ Prefix(cs, cs \o NewCheckpoint(longer))
<1> PICK q \in Nat : q = Len(cs)
  BY DEF CheckpointShape, IsRow
<1> PICK I \in Nat \ {0} : I = Interval
  BY EvidenceIntervalAssumption
<1>1. IsRow(cs, q) /\ q * I <= n /\ n < (q + 1) * I
  BY DEF CheckpointShape
<1>2. \A k \in 1..q : cs[k] = SpanCheckpoint(longer, k)
  <2> TAKE k \in 1..q
  <2>1. \A i \in 1..I : (k - 1) * I + i \in 1..n
    BY <1>1, SpanBounds
  <2>2. \A i \in 1..Interval : longer[(k - 1) * Interval + i] = chain[(k - 1) * Interval + i]
    BY <2>1
  <2>3. SpanCheckpoint(longer, k) = SpanCheckpoint(chain, k)
    BY <2>2, SpanKept, Zenon
  <2> QED
    BY <2>3 DEF CheckpointShape
<1>3. (q + 1) * I \in Nat /\ ((q + 1) + 1) * I = (q + 1) * I + I /\ q * I = (q + 1) * I - I
  OBVIOUS
<1>4. CASE n + 1 = (q + 1) * I
  <2>1. (n + 1) % I = 0
    <3>1. (q + 1) * I <= n + 1 /\ n + 1 < ((q + 1) + 1) * I
      BY <1>3, <1>4
    <3>2. (n + 1) % I = (n + 1) - (q + 1) * I
      <4>1. q + 1 \in Nat /\ n + 1 \in Nat
        OBVIOUS
      <4> QED
        BY <3>1, <4>1, SpanQuotient
    <3> QED
      BY <1>4, <3>2
  <2> PICK c : c = SpanCheckpoint(longer, q + 1)
    OBVIOUS
  <2>2. /\ (n + 1) - I + 1 = ((q + 1) - 1) * I + 1
        /\ \A i \in 1..I : (n + 1) - I + i = ((q + 1) - 1) * I + i
        /\ (q + 1) * I = n + 1
    BY <1>3, <1>4
  <2> PICK leaves : leaves = [i \in 1..Interval |-> longer[(n + 1) - Interval + i].hash]
    OBVIOUS
  <2>3. leaves = SpanLeaves(longer, q + 1)
    BY <2>2 DEF SpanLeaves
  <2>4. NewCheckpoint(longer) =
          <<[from |-> (n + 1) - Interval + 1, through |-> n + 1, leaves |-> leaves,
             root |-> MerkleRoot(leaves)]>>
    BY <2>1 DEF NewCheckpoint
  <2>5. c = [from |-> (n + 1) - Interval + 1, through |-> n + 1, leaves |-> leaves,
             root |-> MerkleRoot(leaves)]
    BY <2>2, <2>3 DEF SpanCheckpoint
  <2>6. NewCheckpoint(longer) = <<c>>
    BY <2>4, <2>5
  <2> PICK new : new = cs \o NewCheckpoint(longer)
    OBVIOUS
  <2>7. new = Append(cs, c)
    <3> PICK S : S = {cs[i] : i \in 1..q} \cup {c}
      OBVIOUS
    <3>1. cs \in [1..q -> S] /\ c \in S
      BY <1>1 DEF IsRow
    <3>2. cs \in Seq(S)
      BY <3>1, SeqDef
    <3> QED
      BY <2>6, <3>1, <3>2, AppendIsConcat
  <2>8. IsRow(new, q + 1) /\ Len(new) = q + 1 /\ new[q + 1] = c /\ \A k \in 1..q : new[k] = cs[k]
    BY <1>1, <2>7, AppendRow
  <2>9. \A k \in 1..(q + 1) : new[k] = SpanCheckpoint(longer, k)
    <3>1. \A k \in 1..(q + 1) : k \in 1..q \/ k = q + 1
      OBVIOUS
    <3> QED
      BY <1>2, <2>8, <3>1
  <2>10. (q + 1) * I <= n + 1 /\ n + 1 < ((q + 1) + 1) * I
    BY <1>3, <1>4
  <2>11. CheckpointShape(longer, new)
    BY <2>8, <2>9, <2>10 DEF CheckpointShape
  <2>12. Prefix(cs, new)
    BY <1>1, <2>8 DEF Prefix
  <2> QED
    BY <2>11, <2>12
<1>5. CASE n + 1 # (q + 1) * I
  <2>1. q * I <= n + 1 /\ n + 1 < (q + 1) * I
    BY <1>1, <1>3, <1>5
  <2>2. (n + 1) % I # 0
    <3>1. (n + 1) % I = (n + 1) - q * I
      <4>1. n + 1 \in Nat
        OBVIOUS
      <4> QED
        BY <2>1, <4>1, SpanQuotient
    <3> QED
      BY <1>1, <1>3, <3>1
  <2>3. NewCheckpoint(longer) = <<>>
    BY <2>2 DEF NewCheckpoint
  <2>4. cs \o <<>> = cs
    <3> PICK S : S = {cs[i] : i \in 1..q}
      OBVIOUS
    <3>1. cs \in [1..q -> S]
      BY <1>1 DEF IsRow
    <3>2. cs \in Seq(S)
      BY <3>1, SeqDef
    <3> QED
      BY <3>2, ConcatEmptySeq
  <2>5. CheckpointShape(longer, cs)
    BY <1>1, <1>2, <2>1 DEF CheckpointShape
  <2> QED
    BY <1>1, <2>3, <2>4, <2>5, PrefixReflexive
<1> QED
  BY <1>4, <1>5

\* A commit that appends an entry keeps the chain and its checkpoints.
LEMMA LedgerGrows ==
  ASSUME ChainShape(ledger), CheckpointShape(ledger, checkpoints),
         NEW e \in Executions, NEW type \in EntryTypes, NEW graph,
         \/ graph = Null
         \/ type \in {"final", "failure"} /\ IsGraph(e, graph),
         AppendLedger(e, type, graph)
  PROVE  /\ ChainShape(ledger)' /\ CheckpointShape(ledger, checkpoints)'
         /\ Prefix(ledger, ledger') /\ Prefix(checkpoints, checkpoints')
         /\ Len(ledger) \in Nat /\ Len(ledger') = Len(ledger) + 1
         /\ ledger'[Len(ledger) + 1].exec = e
         /\ ledger'[Len(ledger) + 1].graph = graph
<1> PICK x : x = NewEntry(e, type, graph)
  OBVIOUS
<1> PICK n \in Nat : n = Len(ledger)
  BY DEF ChainShape, IsRow
<1>1. ledger' = Append(ledger, x) /\ checkpoints' = checkpoints \o NewCheckpoint(Append(ledger, x))
  BY DEF AppendLedger
<1> PICK c : c = Append(ledger, x)
  OBVIOUS
<1>2. ChainShape(c)
  BY ChainGrows
<1>3. IsRow(c, n + 1) /\ Len(c) = n + 1 /\ c[n + 1] = x /\ \A i \in 1..n : c[i] = ledger[i]
  BY AppendRow DEF ChainShape
<1>4. /\ CheckpointShape(c, checkpoints \o NewCheckpoint(c))
      /\ Prefix(checkpoints, checkpoints \o NewCheckpoint(c))
  BY <1>3, CheckpointGrows
<1>5. Prefix(ledger, c)
  BY <1>3 DEF Prefix, ChainShape
<1>6. x.exec = e /\ x.graph = graph
  BY NewEntryFields
<1>7. ledger' = c /\ checkpoints' = checkpoints \o NewCheckpoint(c)
  BY <1>1
<1>8. ChainShape(ledger)'
  BY <1>2, <1>7
<1>9. CheckpointShape(ledger, checkpoints)'
  BY <1>4, <1>7
<1> QED
  BY <1>3, <1>4, <1>5, <1>6, <1>7, <1>8, <1>9

\* An event names itself and the event before it.
LEMMA EventsGrow ==
  ASSUME NEW es \in Seq(EventRecord), Linked(es), NEW type \in {"work", "sealed"}
  PROVE  /\ Append(es, NewEvent(es, type)) \in Seq(EventRecord)
         /\ Linked(Append(es, NewEvent(es, type)))
         /\ Append(es, NewEvent(es, type)) # <<>>
<1> PICK v : v = NewEvent(es, type)
  OBVIOUS
<1> PICK n \in Nat : n = Len(es)
  OBVIOUS
<1>1. v = [id |-> n + 1, type |-> type, parents |-> IF es = <<>> THEN {} ELSE {n}]
  BY DEF NewEvent
<1>2. es # <<>> => n >= 1
  OBVIOUS
<1>3. v \in EventRecord /\ v.id = n + 1 /\ v.parents \subseteq 1..n
  BY <1>1, <1>2 DEF EventRecord
<1> PICK new : new = Append(es, v)
  OBVIOUS
<1>4. /\ new \in Seq(EventRecord) /\ Len(new) = n + 1 /\ new[n + 1] = v
      /\ \A i \in 1..n : new[i] = es[i]
  BY <1>3, AppendProperties
<1>5. Linked(new)
  <2>1. \A i \in 1..n : new[i].id = i /\ new[i].parents \subseteq 1..(i - 1)
    BY <1>4 DEF Linked
  <2>2. new[n + 1].id = n + 1 /\ new[n + 1].parents \subseteq 1..((n + 1) - 1)
    BY <1>3, <1>4
  <2>3. \A i \in 1..Len(new) : i \in 1..n \/ i = n + 1
    BY <1>4
  <2> QED
    BY <2>1, <2>2, <2>3 DEF Linked
<1> QED
  BY <1>4, <1>5

\* The statuses an entry writes are statuses of a row.
LEMMA TargetStatuses ==
  ASSUME NEW type \in EntryTypes, NEW st \in Targets(type)
  PROVE  st \in Statuses
BY DEF EntryTypes, Targets, Statuses, TerminalStatuses

\* An execution without a row has another status than those of rows.
LEMMA AbsentIsNoStatus == Absent \notin Statuses
BY DEF Absent, Statuses, TerminalStatuses

\* What every commit of another request does to the request that is verifying.
LEMMA CommitsRequest ==
  ASSUME Commits
  PROVE  /\ pc # "done" /\ UNCHANGED requestVars
         /\ stale' = (stale \/ pc \in {"tables", "events"})
         /\ races \in 0..MaxRaces => races' \in 0..MaxRaces
BY EvidenceBoundsAssumption DEF Commits

\* A commit that appends no entry leaves the chain as it is.
LEMMA LedgerKept ==
  ASSUME DbInv, UNCHANGED <<ledger, checkpoints>>
  PROVE  /\ ChainShape(ledger)' /\ CheckpointShape(ledger, checkpoints)'
         /\ Prefix(ledger, ledger') /\ Prefix(checkpoints, checkpoints')
<1>1. ChainShape(ledger) /\ CheckpointShape(ledger, checkpoints)
  BY DEF DbInv
<1>2. ledger' = ledger /\ checkpoints' = checkpoints
  OBVIOUS
<1>3. Prefix(ledger, ledger) /\ Prefix(checkpoints, checkpoints)
  <2>1. IsRow(ledger, Len(ledger)) /\ IsRow(checkpoints, Len(checkpoints))
    BY <1>1 DEF ChainShape, CheckpointShape
  <2> QED
    BY <2>1, PrefixReflexive
<1> QED
  BY <1>1, <1>2, <1>3

\* openExecution inserts a row and nothing else.
LEMMA OpenStep ==
  ASSUME DbInv, NEW e \in Executions, OpenExecution(e)
  PROVE  DbInv' /\ Grows
<1>1. /\ Commits /\ status[e] = Absent /\ status' = [status EXCEPT ![e] = "created"]
      /\ UNCHANGED <<finalEntry, events, ledger, checkpoints>>
  BY DEF OpenExecution
<1>2. /\ ChainShape(ledger)' /\ CheckpointShape(ledger, checkpoints)'
      /\ Prefix(ledger, ledger') /\ Prefix(checkpoints, checkpoints')
  BY <1>1, LedgerKept
<1>3. RowsTyped'
  BY <1>1 DEF DbInv, RowsTyped, Statuses, TerminalStatuses
<1>4. \A x \in Executions : status[x] # Absent => status'[x] = status[x]
  BY <1>1 DEF DbInv, RowsTyped
<1>5. EventsTyped'
  <2>1. "created" # Absent
    BY DEF Absent
  <2>2. \A x \in Executions : status'[x] = Absent => events'[x] = <<>>
    BY <1>1, <2>1 DEF DbInv, RowsTyped, EventsTyped
  <2> QED
    BY <1>1, <2>2 DEF DbInv, EventsTyped, Linked
<1>6. Owned'
  BY <1>1, <1>4 DEF DbInv, Owned, ChainShape, EntryShape
<1>7. Grows
  BY <1>1, <1>2, <1>4, CommitsRequest DEF Grows
<1> QED
  BY <1>2, <1>3, <1>5, <1>6, <1>7 DEF DbInv

\* An event is appended to the events of one execution.
LEMMA RecordStep ==
  ASSUME DbInv, NEW e \in Executions, RecordEvent(e)
  PROVE  DbInv' /\ Grows
<1> PICK es : es = Append(events[e], NewEvent(events[e], "work"))
  OBVIOUS
<1>1. /\ Commits /\ status[e] # Absent /\ events' = [events EXCEPT ![e] = es]
      /\ UNCHANGED <<status, finalEntry, ledger, checkpoints>>
  BY DEF RecordEvent, DbInv, EventsTyped
<1>2. /\ ChainShape(ledger)' /\ CheckpointShape(ledger, checkpoints)'
      /\ Prefix(ledger, ledger') /\ Prefix(checkpoints, checkpoints')
  BY <1>1, LedgerKept
<1>3. RowsTyped'
  BY <1>1 DEF DbInv, RowsTyped
<1>4. es \in Seq(EventRecord) /\ Linked(es) /\ es # <<>>
  <2>1. events[e] \in Seq(EventRecord) /\ Linked(events[e])
    BY DEF DbInv, EventsTyped
  <2> QED
    BY <2>1, EventsGrow
<1>5. /\ events' \in [Executions -> Seq(EventRecord)]
      /\ \A x \in Executions : events'[x] = IF x = e THEN es ELSE events[x]
  BY <1>1, <1>4 DEF DbInv, EventsTyped
<1>6. EventsTyped'
  <2>1. ASSUME NEW x \in Executions
        PROVE  Linked(events'[x]) /\ (status'[x] = Absent => events'[x] = <<>>)
    <3>1. CASE x = e
      BY <1>1, <1>4, <1>5, <3>1
    <3>2. CASE x # e
      BY <1>1, <1>5, <3>2 DEF DbInv, EventsTyped
    <3> QED
      BY <3>1, <3>2
  <2> QED
    BY <1>5, <2>1 DEF EventsTyped
<1>7. Owned'
  BY <1>1, <1>4, <1>5 DEF DbInv, Owned, ChainShape, EntryShape
<1>8. Grows
  BY <1>1, <1>2, CommitsRequest DEF Grows
<1> QED
  BY <1>2, <1>3, <1>6, <1>7, <1>8 DEF DbInv

\* request_opened and approval_requested append an entry without a graph.
LEMMA AppendStep ==
  ASSUME DbInv, NEW e \in Executions, NEW type \in {"request_opened", "approval_requested"},
         AppendEntry(e, type)
  PROVE  DbInv' /\ Grows
<1>1. /\ Commits /\ status[e] # Absent
      /\ AppendLedger(e, type, Null)
      /\ UNCHANGED <<finalEntry, events>>
  BY DEF AppendEntry
<1>2. PICK target \in Targets(type) : status' = [status EXCEPT ![e] = target]
  BY DEF AppendEntry
<1>3. type \in EntryTypes /\ target \in Statuses /\ target # Absent
  <2>1. type \in EntryTypes
    BY DEF EntryTypes
  <2> QED
    BY <1>2, <2>1, TargetStatuses, AbsentIsNoStatus
<1>4. /\ ChainShape(ledger)' /\ CheckpointShape(ledger, checkpoints)'
      /\ Prefix(ledger, ledger') /\ Prefix(checkpoints, checkpoints')
      /\ Len(ledger) \in Nat /\ Len(ledger') = Len(ledger) + 1
      /\ ledger'[Len(ledger) + 1].exec = e
      /\ ledger'[Len(ledger) + 1].graph = Null
  BY <1>1, <1>3, LedgerGrows DEF DbInv
<1>5. /\ status' \in [Executions -> Statuses \cup {Absent}]
      /\ \A x \in Executions : status'[x] = IF x = e THEN target ELSE status[x]
  BY <1>2, <1>3 DEF DbInv, RowsTyped
<1>6. RowsTyped'
  BY <1>1, <1>4, <1>5 DEF DbInv, RowsTyped
<1>7. EventsTyped'
  BY <1>1, <1>3, <1>5 DEF DbInv, EventsTyped, Linked
<1>8. Owned'
  <2>1. ASSUME NEW n \in 1..Len(ledger)
        PROVE  /\ status'[ledger'[n].exec] # Absent
               /\ ledger'[n].graph # Null => events'[ledger'[n].exec] # <<>>
    <3>1. ledger'[n] = ledger[n]
      BY <1>4 DEF Prefix
    <3>2. ledger[n].exec \in Executions
      BY DEF DbInv, ChainShape, EntryShape
    <3> QED
      BY <1>1, <1>3, <1>5, <3>1, <3>2 DEF DbInv, Owned
  <2>2. \A n \in 1..Len(ledger') : n \in 1..Len(ledger) \/ n = Len(ledger) + 1
    BY <1>4
  <2> QED
    BY <1>3, <1>4, <1>5, <2>1, <2>2 DEF Owned
<1>9. Grows
  BY <1>1, <1>3, <1>4, <1>5, CommitsRequest DEF Grows
<1> QED
  BY <1>4, <1>6, <1>7, <1>8, <1>9 DEF DbInv

\* A resume writes a status.
LEMMA ResumeStep ==
  ASSUME DbInv, NEW e \in Executions, Resume(e)
  PROVE  DbInv' /\ Grows
<1>1. /\ Commits /\ status' = [status EXCEPT ![e] = "running"]
      /\ UNCHANGED <<finalEntry, events, ledger, checkpoints>>
  BY DEF Resume
<1>2. /\ ChainShape(ledger)' /\ CheckpointShape(ledger, checkpoints)'
      /\ Prefix(ledger, ledger') /\ Prefix(checkpoints, checkpoints')
  BY <1>1, LedgerKept
<1>3. "running" \in Statuses /\ "running" # Absent
  BY DEF Statuses, Absent
<1>4. status[e] # Absent
  <2>1. PICK n \in DOMAIN ledger : ledger[n].exec = e
    BY DEF Resume
  <2>2. n \in 1..Len(ledger)
    BY <2>1, RowLength DEF DbInv, ChainShape
  <2> QED
    BY <2>1, <2>2 DEF DbInv, Owned
<1>5. /\ status' \in [Executions -> Statuses \cup {Absent}]
      /\ \A x \in Executions : status'[x] = IF x = e THEN "running" ELSE status[x]
  BY <1>1, <1>3 DEF DbInv, RowsTyped
<1>6. RowsTyped'
  BY <1>1, <1>5 DEF DbInv, RowsTyped
<1>7. EventsTyped'
  BY <1>1, <1>3, <1>5 DEF DbInv, EventsTyped, Linked
<1>8. Owned'
  BY <1>1, <1>3, <1>5 DEF DbInv, Owned, ChainShape, EntryShape
<1>9. Grows
  BY <1>1, <1>2, <1>3, <1>5, CommitsRequest DEF Grows
<1> QED
  BY <1>2, <1>6, <1>7, <1>8, <1>9 DEF DbInv

\* sealExecution appends the last event, and the entry with the graph of the
\* events so far.
LEMMA SealStep ==
  ASSUME DbInv, NEW e \in Executions, NEW type \in {"final", "failure"},
         NEW outcome \in TerminalStatuses, Seal(e, type, outcome)
  PROVE  DbInv' /\ Grows
<1> PICK es : es = Append(events[e], NewEvent(events[e], "sealed"))
  OBVIOUS
<1>1. /\ Commits /\ status[e] # Absent
      /\ AppendLedger(e, type, GraphHash(e, outcome, es))
      /\ status' = [status EXCEPT ![e] = outcome]
      /\ finalEntry' = [finalEntry EXCEPT ![e] = Len(ledger) + 1]
      /\ events' = [events EXCEPT ![e] = es]
  BY DEF Seal
<1>2. es \in Seq(EventRecord) /\ Linked(es) /\ es # <<>>
  <2>1. events[e] \in Seq(EventRecord) /\ Linked(events[e])
    BY DEF DbInv, EventsTyped
  <2> QED
    BY <2>1, EventsGrow
<1>3. type \in EntryTypes /\ outcome \in Statuses /\ outcome # Absent
  <2>1. outcome \in Statuses
    BY DEF Statuses
  <2> QED
    BY <2>1, AbsentIsNoStatus DEF EntryTypes
<1>4. /\ ChainShape(ledger)' /\ CheckpointShape(ledger, checkpoints)'
      /\ Prefix(ledger, ledger') /\ Prefix(checkpoints, checkpoints')
      /\ Len(ledger) \in Nat /\ Len(ledger') = Len(ledger) + 1
      /\ ledger'[Len(ledger) + 1].exec = e
  <2>1. IsGraph(e, GraphHash(e, outcome, es))
    BY <1>2, <1>3 DEF IsGraph
  <2> QED
    BY <1>1, <1>3, <2>1, LedgerGrows DEF DbInv
<1>5. /\ status' \in [Executions -> Statuses \cup {Absent}]
      /\ \A x \in Executions : status'[x] = IF x = e THEN outcome ELSE status[x]
  BY <1>1, <1>3 DEF DbInv, RowsTyped
<1>6. /\ events' \in [Executions -> Seq(EventRecord)]
      /\ \A x \in Executions : events'[x] = IF x = e THEN es ELSE events[x]
  BY <1>1, <1>2 DEF DbInv, EventsTyped
<1>7. RowsTyped'
  <2>1. /\ finalEntry' \in [Executions -> Nat]
        /\ \A x \in Executions :
             finalEntry'[x] = IF x = e THEN Len(ledger) + 1 ELSE finalEntry[x]
    BY <1>1, <1>4 DEF DbInv, RowsTyped
  <2>2. \A x \in Executions : finalEntry'[x] <= Len(ledger')
    BY <1>4, <2>1 DEF DbInv, RowsTyped
  <2> QED
    BY <1>5, <2>1, <2>2 DEF RowsTyped
<1>8. EventsTyped'
  <2>1. ASSUME NEW x \in Executions
        PROVE  Linked(events'[x]) /\ (status'[x] = Absent => events'[x] = <<>>)
    <3>1. CASE x = e
      BY <1>2, <1>3, <1>5, <1>6, <3>1
    <3>2. CASE x # e
      BY <1>5, <1>6, <3>2 DEF DbInv, EventsTyped
    <3> QED
      BY <3>1, <3>2
  <2> QED
    BY <1>6, <2>1 DEF EventsTyped
<1>9. Owned'
  <2>1. ASSUME NEW n \in 1..Len(ledger)
        PROVE  /\ status'[ledger'[n].exec] # Absent
               /\ ledger'[n].graph # Null => events'[ledger'[n].exec] # <<>>
    <3>1. ledger'[n] = ledger[n]
      BY <1>4 DEF Prefix
    <3>2. ledger[n].exec \in Executions
      BY DEF DbInv, ChainShape, EntryShape
    <3> QED
      BY <1>2, <1>3, <1>5, <1>6, <3>1, <3>2 DEF DbInv, Owned
  <2>2. \A n \in 1..Len(ledger') : n \in 1..Len(ledger) \/ n = Len(ledger) + 1
    BY <1>4
  <2> QED
    BY <1>2, <1>3, <1>4, <1>5, <1>6, <2>1, <2>2 DEF Owned
<1>10. Grows
  BY <1>1, <1>3, <1>4, <1>5, CommitsRequest DEF Grows
<1> QED
  BY <1>4, <1>7, <1>8, <1>9, <1>10 DEF DbInv

\* The commits of other requests.
OtherCommit ==
  \E e \in Executions :
    \/ OpenExecution(e)
    \/ RecordEvent(e)
    \/ \E type \in {"request_opened", "approval_requested"} : AppendEntry(e, type)
    \/ Resume(e)
    \/ \E type \in {"final", "failure"}, outcome \in TerminalStatuses : Seal(e, type, outcome)

\* Each of them keeps the tables in shape and only adds to them.
LEMMA CommitStep ==
  ASSUME DbInv, OtherCommit
  PROVE  DbInv' /\ Grows
BY OpenStep, RecordStep, AppendStep, ResumeStep, SealStep DEF OtherCommit

\* The tables are in shape at the start.
LEMMA DbInit == Init => DbInv
<1> SUFFICES ASSUME Init PROVE DbInv
  OBVIOUS
<1>1. status \in [Executions -> Statuses \cup {Absent}] /\ finalEntry \in [Executions -> Nat]
      /\ \A e \in Executions : finalEntry[e] = 0 /\ events[e] = <<>>
  BY DEF Init
<1>2. ledger = <<>> /\ Len(ledger) = 0 /\ checkpoints = <<>> /\ Len(checkpoints) = 0
  BY DEF Init
<1>3. RowsTyped
  BY <1>1, <1>2 DEF RowsTyped
<1>4. EventsTyped
  <2>1. <<>> \in Seq(EventRecord) /\ Linked(<<>>)
    BY DEF Linked
  <2>2. events \in [Executions -> Seq(EventRecord)]
    BY <2>1 DEF Init
  <2> QED
    BY <1>1, <2>1, <2>2 DEF EventsTyped
<1>5. ChainShape(ledger)
  BY <1>2 DEF ChainShape, IsRow
<1>6. CheckpointShape(ledger, checkpoints)
  BY <1>2, EvidenceIntervalAssumption DEF CheckpointShape, IsRow
<1>7. Owned
  BY <1>2 DEF Owned
<1> QED
  BY <1>3, <1>4, <1>5, <1>6, <1>7 DEF DbInv

-----------------------------------------------------------------------------
(* The request that verifies a record.                                     *)

Tables == {"entries", "checkpoints", "rows"}
BundleFields == {"entries", "checkpoints", "rows", "events", "graphs"}

FlagsTyped ==
  /\ pc \in {"idle", "record_events", "record_entries", "tables", "events", "done"}
  /\ linked \in BOOLEAN /\ stale \in BOOLEAN /\ races \in 0..MaxRaces
  /\ altered \in {"none", "field", "sibling", "root", "leaf", "graph"}
  /\ altered # "none" => pc = "done"
  /\ pc = "tables" => todo \subseteq Tables

\* A table of the export has been read.
Got(table) == pc \in {"events", "done"} \/ (pc = "tables" /\ table \notin todo)

\* A linked record has its seal in the chain, and in the entries exported, for
\* they are read later.
SealRead ==
  /\ pc \in {"idle", "record_events", "record_entries"} => linked = FALSE
  /\ pc \in {"record_events", "record_entries"} =>
       record.exec \in Executions /\ record.final \in 0..Len(ledger)
  /\ linked = TRUE =>
       \E n \in 1..Len(ledger) :
         /\ ledger[n].exec = record.exec /\ ledger[n].graph # Null
         /\ Got("entries") => n <= Len(bundle.entries)

\* The entries exported, before and after they get their proofs.
EntriesRead ==
  /\ pc # "done" => Prefix(bundle.entries, ledger)
  /\ pc = "done" =>
       /\ IsRow(bundle.entries, Len(bundle.entries))
       /\ Len(bundle.entries) <= Len(ledger)
       /\ \A n \in 1..Len(bundle.entries) :
            bundle.entries[n] = ExportEntry(ledger[n], bundle.checkpoints)
  /\ Got("entries") /\ stale = FALSE => Len(bundle.entries) = Len(ledger)

CheckpointsRead ==
  /\ Prefix(bundle.checkpoints, checkpoints)
  /\ Got("checkpoints") /\ stale = FALSE => Len(bundle.checkpoints) = Len(checkpoints)

RowsRead ==
  /\ DOMAIN bundle.rows \subseteq Executions
  /\ \A e \in DOMAIN bundle.rows : bundle.rows[e] \in Statuses
  /\ Got("rows") /\ stale = FALSE =>
       /\ DOMAIN bundle.rows = {e \in Executions : status[e] # Absent}
       /\ \A e \in DOMAIN bundle.rows : bundle.rows[e] = status[e]

\* The executions whose events have been read.
EventsDone ==
  CASE pc = "events" -> DOMAIN bundle.rows \ todo
    [] pc = "done"   -> DOMAIN bundle.rows
    [] OTHER         -> {}

GraphsRead ==
  /\ pc = "events" => todo \subseteq DOMAIN bundle.rows
  /\ DOMAIN bundle.events = EventsDone
  /\ \A e \in DOMAIN bundle.events :
       /\ bundle.events[e] \in Seq(EventRecord) /\ Linked(bundle.events[e])
       /\ stale = FALSE => bundle.events[e] = events[e]
  /\ DOMAIN bundle.graphs = {e \in DOMAIN bundle.events : bundle.events[e] # <<>>}
  /\ \A e \in DOMAIN bundle.graphs :
       bundle.graphs[e] = [hash |-> GraphHash(e, bundle.rows[e], bundle.events[e]),
                           graph |-> GraphHash(e, bundle.rows[e], bundle.events[e])]

ExportInv ==
  /\ bundle = [f \in BundleFields |-> bundle[f]]
  /\ SealRead /\ EntriesRead /\ CheckpointsRead /\ RowsRead /\ GraphsRead

IInv ==
  /\ DbInv /\ FlagsTyped
  /\ altered = "none" => ExportInv
  /\ altered # "none" => Issues(bundle) # {}

\* The tables only grow, so that what was read of them stays part of them.
LEMMA PrefixGrows ==
  ASSUME NEW s, NEW t, NEW u, Prefix(s, t), Prefix(t, u)
  PROVE  Prefix(s, u)
BY DEF Prefix, IsRow

\* A commit of another request keeps what was read, and makes an export that
\* has begun stale.
LEMMA GrowsKeepsExport ==
  ASSUME DbInv, FlagsTyped, ExportInv, altered = "none", Grows, ChainShape(ledger)'
  PROVE  FlagsTyped' /\ ExportInv' /\ altered' = "none"
<1>1. /\ pc # "done" /\ pc' = pc /\ record' = record /\ linked' = linked /\ todo' = todo
      /\ bundle' = bundle /\ altered' = altered
      /\ stale' = (stale \/ pc \in {"tables", "events"})
      /\ Prefix(ledger, ledger') /\ Prefix(checkpoints, checkpoints')
  BY DEF Grows, requestVars
<1>2. FlagsTyped'
  BY <1>1 DEF FlagsTyped, Grows
<1>3. pc \in {"tables", "events"} => stale' = TRUE
  BY <1>1
<1>4. \A table : Got(table)' => stale' = TRUE
  BY <1>1, <1>3 DEF Got
<1>5. SealRead'
  <2>1. Len(ledger) \in Nat /\ Len(ledger') \in Nat /\ Len(ledger) <= Len(ledger')
        /\ \A n \in 1..Len(ledger) : n \in 1..Len(ledger') /\ ledger'[n] = ledger[n]
    <3>1. Len(ledger) \in Nat /\ Len(ledger) <= Len(ledger')
      BY <1>1 DEF Prefix, IsRow
    <3>2. Len(ledger') \in Nat
      BY DEF ChainShape, IsRow
    <3> QED
      BY <1>1, <3>1 DEF Prefix
  <2> QED
    BY <1>1, <2>1 DEF ExportInv, SealRead, Got
<1>6. EntriesRead'
  <2>1. Prefix(bundle.entries, ledger)
    BY <1>1 DEF ExportInv, EntriesRead
  <2>2. Prefix(bundle'.entries, ledger')
    BY <1>1, <2>1, PrefixGrows
  <2> QED
    BY <1>1, <1>4, <2>2 DEF EntriesRead
<1>7. CheckpointsRead'
  <2>1. Prefix(bundle'.checkpoints, checkpoints')
    BY <1>1, PrefixGrows DEF ExportInv, CheckpointsRead
  <2> QED
    BY <1>4, <2>1 DEF CheckpointsRead
<1>8. RowsRead'
  BY <1>1, <1>4 DEF ExportInv, RowsRead
<1>9. GraphsRead'
  <2>1. EventsDone' = EventsDone
    BY <1>1 DEF EventsDone
  <2>2. stale' = FALSE => DOMAIN bundle.events = {}
    BY <1>1, <1>3 DEF ExportInv, GraphsRead, EventsDone
  <2> QED
    BY <1>1, <2>1, <2>2 DEF ExportInv, GraphsRead, Linked
<1>10. bundle' = [f \in BundleFields |-> bundle'[f]]
  BY <1>1 DEF ExportInv
<1> QED
  BY <1>1, <1>2, <1>5, <1>6, <1>7, <1>8, <1>9, <1>10 DEF ExportInv

\* A step of the request leaves the tables as they are.
LEMMA DbKept ==
  ASSUME DbInv, UNCHANGED dbVars
  PROVE  DbInv'
<1>1. status' = status /\ finalEntry' = finalEntry /\ events' = events
      /\ ledger' = ledger /\ checkpoints' = checkpoints
  BY DEF dbVars
<1>2. ChainShape(ledger)' /\ CheckpointShape(ledger, checkpoints)'
  BY <1>1, LedgerKept
<1>3. RowsTyped' /\ Owned'
  BY <1>1 DEF DbInv, RowsTyped, Owned
<1>4. EventsTyped'
  BY <1>1 DEF DbInv, EventsTyped, Linked
<1> QED
  BY <1>2, <1>3, <1>4 DEF DbInv

\* A step that reads nothing into the bundle keeps what is known of it.
LEMMA BundleKept ==
  ASSUME ExportInv, UNCHANGED <<dbVars, bundle, stale>>, pc # "done", pc' # "done",
         pc' = "events" => todo' \subseteq DOMAIN bundle.rows,
         EventsDone' = EventsDone, \A table \in Tables : Got(table)' => Got(table)
  PROVE  /\ bundle' = [f \in BundleFields |-> bundle'[f]]
         /\ EntriesRead' /\ CheckpointsRead' /\ RowsRead' /\ GraphsRead'
<1>1. /\ status' = status /\ events' = events /\ ledger' = ledger
      /\ checkpoints' = checkpoints /\ bundle' = bundle /\ stale' = stale
  BY DEF dbVars
<1>2. /\ Got("entries")' => Got("entries")
      /\ Got("checkpoints")' => Got("checkpoints")
      /\ Got("rows")' => Got("rows")
  BY DEF Tables
<1>3. EntriesRead'
  <2>1. Prefix(bundle'.entries, ledger')
    BY <1>1 DEF ExportInv, EntriesRead
  <2>2. Got("entries")' /\ stale' = FALSE => Len(bundle'.entries) = Len(ledger')
    BY <1>1, <1>2 DEF ExportInv, EntriesRead
  <2> QED
    BY <2>1, <2>2 DEF EntriesRead
<1>4. CheckpointsRead'
  <2>1. Prefix(bundle'.checkpoints, checkpoints')
    BY <1>1 DEF ExportInv, CheckpointsRead
  <2>2. Got("checkpoints")' /\ stale' = FALSE => Len(bundle'.checkpoints) = Len(checkpoints')
    BY <1>1, <1>2 DEF ExportInv, CheckpointsRead
  <2> QED
    BY <2>1, <2>2 DEF CheckpointsRead
<1>5. RowsRead'
  BY <1>1, <1>2 DEF ExportInv, RowsRead
<1>6. GraphsRead'
  <2>1. DOMAIN bundle'.events = EventsDone'
    BY <1>1 DEF ExportInv, GraphsRead
  <2>2. \A e \in DOMAIN bundle'.events :
          /\ bundle'.events[e] \in Seq(EventRecord) /\ Linked(bundle'.events[e])
          /\ stale' = FALSE => bundle'.events[e] = events'[e]
    BY <1>1 DEF ExportInv, GraphsRead
  <2>3. DOMAIN bundle'.graphs = {e \in DOMAIN bundle'.events : bundle'.events[e] # <<>>}
    BY <1>1 DEF ExportInv, GraphsRead
  <2>4. \A e \in DOMAIN bundle'.graphs :
          bundle'.graphs[e] = [hash |-> GraphHash(e, bundle'.rows[e], bundle'.events[e]),
                               graph |-> GraphHash(e, bundle'.rows[e], bundle'.events[e])]
    BY <1>1 DEF ExportInv, GraphsRead
  <2>5. pc' = "events" => todo' \subseteq DOMAIN bundle'.rows
    BY <1>1
  <2> QED
    BY <2>1, <2>2, <2>3, <2>4, <2>5 DEF GraphsRead
<1> QED
  BY <1>1, <1>3, <1>4, <1>5, <1>6 DEF ExportInv

\* The request starts with the record's row.
LEMMA ReadRowStep ==
  ASSUME DbInv, FlagsTyped, ExportInv, altered = "none", NEW e \in Executions, ReadRow(e)
  PROVE  FlagsTyped' /\ ExportInv' /\ altered' = "none"
<1>1. /\ pc = "idle" /\ pc' = "record_events"
      /\ record' = [exec |-> e, status |-> status[e], final |-> finalEntry[e]]
      /\ UNCHANGED <<dbVars, linked, todo, bundle, races, stale, altered>>
  BY DEF ReadRow, raceVars
<1>2. FlagsTyped' /\ altered' = "none"
  BY <1>1 DEF FlagsTyped
<1>3. SealRead'
  <2>1. finalEntry[e] \in 0..Len(ledger) /\ ledger' = ledger
    BY <1>1 DEF DbInv, RowsTyped, dbVars, ChainShape, IsRow
  <2>2. linked' = FALSE
    BY <1>1 DEF ExportInv, SealRead
  <2> QED
    BY <1>1, <2>1, <2>2 DEF SealRead
<1>4. EventsDone' = EventsDone /\ \A table \in Tables : Got(table)' => Got(table)
  BY <1>1 DEF EventsDone, Got
<1> QED
  BY <1>1, <1>2, <1>3, <1>4, BundleKept DEF ExportInv

\* Reading the record's events adds them to the record.
LEMMA ReadRecordEventsStep ==
  ASSUME DbInv, FlagsTyped, ExportInv, altered = "none", ReadRecordEvents
  PROVE  FlagsTyped' /\ ExportInv' /\ altered' = "none"
<1>1. /\ pc = "record_events" /\ pc' = "record_entries"
      /\ record' = [exec |-> record.exec, status |-> record.status, final |-> record.final,
                    events |-> events[record.exec]]
      /\ UNCHANGED <<dbVars, linked, todo, bundle, races, stale, altered>>
  BY DEF ReadRecordEvents, raceVars
<1>2. FlagsTyped' /\ altered' = "none"
  BY <1>1 DEF FlagsTyped
<1>3. SealRead'
  <2>1. ledger' = ledger
    BY <1>1 DEF dbVars
  <2>2. linked' = FALSE
    BY <1>1 DEF ExportInv, SealRead
  <2>3. record'.exec \in Executions /\ record'.final \in 0..Len(ledger)
    BY <1>1 DEF ExportInv, SealRead
  <2> QED
    BY <1>1, <2>1, <2>2, <2>3 DEF SealRead
<1>4. EventsDone' = EventsDone /\ \A table \in Tables : Got(table)' => Got(table)
  BY <1>1 DEF EventsDone, Got
<1> QED
  BY <1>1, <1>2, <1>3, <1>4, BundleKept DEF ExportInv

\* A record is linked if the entry its row names carries the graph rebuilt
\* from its events: that entry is a seal of the same execution.
LEMMA ReadRecordEntriesStep ==
  ASSUME DbInv, FlagsTyped, ExportInv, altered = "none", ReadRecordEntries
  PROVE  FlagsTyped' /\ ExportInv' /\ altered' = "none"
<1> PICK g : g = GraphHash(record.exec, record.status, record.events)
  OBVIOUS
<1>1. /\ pc = "record_entries" /\ pc' = "tables" /\ todo' = Tables
      /\ linked' = (record.events # <<>> /\ record.final # 0 /\ ledger[record.final].graph = g)
      /\ record' = [exec |-> record.exec]
      /\ UNCHANGED <<dbVars, bundle, races, stale, altered>>
  BY DEF ReadRecordEntries, raceVars, Tables
<1>2. FlagsTyped' /\ altered' = "none"
  BY <1>1 DEF FlagsTyped
<1>3. SealRead'
  <2>1. ledger' = ledger
    BY <1>1 DEF dbVars
  <2>2. record.exec \in Executions /\ record.final \in 0..Len(ledger)
    BY <1>1 DEF ExportInv, SealRead
  <2>3. ~Got("entries")'
    BY <1>1 DEF Got, Tables
  <2>4. ASSUME linked' = TRUE
        PROVE  \E n \in 1..Len(ledger) : ledger[n].exec = record.exec /\ ledger[n].graph # Null
    <3>1. record.final # 0 /\ ledger[record.final].graph = g
      BY <1>1, <2>4
    <3> PICK n \in 1..Len(ledger) : n = record.final
      BY <2>2, <3>1
    <3>2. ledger[n].graph = g /\ EntryShape(ledger, n)
      BY <3>1 DEF DbInv, ChainShape
    <3>3. g # Null
      BY DEF GraphHash, Null
    <3>4. PICK st \in Statuses : \E es \in Seq(EventRecord) : g = GraphHash(ledger[n].exec, st, es)
      BY <3>2, <3>3 DEF EntryShape, IsGraph
    <3>5. ledger[n].exec = record.exec
      BY <3>4 DEF GraphHash
    <3> QED
      BY <3>2, <3>3, <3>5
  <2> QED
    BY <1>1, <2>1, <2>3, <2>4 DEF SealRead
<1>4. EventsDone' = EventsDone /\ \A table \in Tables : Got(table)' => Got(table)
  BY <1>1 DEF EventsDone, Got
<1> QED
  BY <1>1, <1>2, <1>3, <1>4, BundleKept DEF ExportInv

\* Writing one field of the bundle.
LEMMA BundleField ==
  ASSUME bundle = [f \in BundleFields |-> bundle[f]], NEW field \in BundleFields, NEW value,
         bundle' = [bundle EXCEPT ![field] = value]
  PROVE  /\ bundle' = [f \in BundleFields |-> bundle'[f]]
         /\ bundle'[field] = value
         /\ \A f \in BundleFields \ {field} : bundle'[f] = bundle[f]
<1>1. DOMAIN bundle = BundleFields
  BY Zenon
<1>2. bundle' = [f \in BundleFields |-> IF f = field THEN value ELSE bundle[f]]
  BY <1>1
<1>3. \A f \in BundleFields : bundle'[f] = IF f = field THEN value ELSE bundle[f]
  BY <1>2, Zenon
<1>4. bundle' = [f \in BundleFields |-> bundle'[f]]
  BY <1>2
<1> QED
  BY <1>3, <1>4

\* A table is read as it is at that moment: all of it, until another commit.
LEMMA ReadTableStep ==
  ASSUME DbInv, FlagsTyped, ExportInv, altered = "none", ReadTable
  PROVE  FlagsTyped' /\ ExportInv' /\ altered' = "none"
<1>1. /\ pc = "tables" /\ pc' = "tables"
      /\ UNCHANGED <<dbVars, record, linked, races, stale, altered>>
      /\ todo' \subseteq todo
      /\ status' = status /\ events' = events /\ ledger' = ledger
      /\ checkpoints' = checkpoints
  BY DEF ReadTable, Read, raceVars, dbVars
<1>2. FlagsTyped' /\ altered' = "none"
  BY <1>1 DEF FlagsTyped
<1>3. bundle = [f \in BundleFields |-> bundle[f]]
  BY DEF ExportInv
<1>4. DOMAIN bundle.events = {} /\ EventsDone' = {}
  BY <1>1 DEF ExportInv, GraphsRead, EventsDone
<1>5. /\ Prefix(ledger, ledger) /\ Prefix(checkpoints, checkpoints)
  <2>1. IsRow(ledger, Len(ledger)) /\ IsRow(checkpoints, Len(checkpoints))
    BY DEF DbInv, ChainShape, CheckpointShape
  <2> QED
    BY <2>1, PrefixReflexive
<1>6. CASE Read("entries", ledger)
  <2>1. /\ "entries" \in todo /\ todo' = todo \ {"entries"}
        /\ bundle' = [bundle EXCEPT !["entries"] = ledger]
    BY <1>6 DEF Read
  <2>2. /\ bundle' = [f \in BundleFields |-> bundle'[f]]
        /\ bundle'.entries = ledger /\ bundle'.checkpoints = bundle.checkpoints
        /\ bundle'.rows = bundle.rows /\ bundle'.events = bundle.events
        /\ bundle'.graphs = bundle.graphs
    BY <1>3, <2>1, BundleField DEF BundleFields
  <2>3. /\ Got("checkpoints")' => Got("checkpoints")
        /\ Got("rows")' => Got("rows")
    BY <1>1, <2>1 DEF Got
  <2>4. SealRead'
    BY <1>1, <2>2 DEF ExportInv, SealRead
  <2>5. EntriesRead'
    BY <1>1, <1>5, <2>2 DEF EntriesRead
  <2>6. CheckpointsRead'
    BY <1>1, <2>2, <2>3 DEF ExportInv, CheckpointsRead
  <2>7. RowsRead'
    BY <1>1, <2>2, <2>3 DEF ExportInv, RowsRead
  <2>8. GraphsRead'
    BY <1>1, <1>4, <2>2 DEF ExportInv, GraphsRead
  <2> QED
    BY <1>2, <2>2, <2>4, <2>5, <2>6, <2>7, <2>8 DEF ExportInv
<1>7. CASE Read("checkpoints", checkpoints)
  <2>1. /\ "checkpoints" \in todo /\ todo' = todo \ {"checkpoints"}
        /\ bundle' = [bundle EXCEPT !["checkpoints"] = checkpoints]
    BY <1>7 DEF Read
  <2>2. /\ bundle' = [f \in BundleFields |-> bundle'[f]]
        /\ bundle'.entries = bundle.entries /\ bundle'.checkpoints = checkpoints
        /\ bundle'.rows = bundle.rows /\ bundle'.events = bundle.events
        /\ bundle'.graphs = bundle.graphs
    BY <1>3, <2>1, BundleField DEF BundleFields
  <2>3. /\ Got("entries")' => Got("entries")
        /\ Got("rows")' => Got("rows")
    BY <1>1, <2>1 DEF Got
  <2>4. SealRead'
    BY <1>1, <2>2, <2>3 DEF ExportInv, SealRead
  <2>5. EntriesRead'
    BY <1>1, <2>2, <2>3 DEF ExportInv, EntriesRead
  <2>6. CheckpointsRead'
    BY <1>1, <1>5, <2>2 DEF CheckpointsRead
  <2>7. RowsRead'
    BY <1>1, <2>2, <2>3 DEF ExportInv, RowsRead
  <2>8. GraphsRead'
    BY <1>1, <1>4, <2>2 DEF ExportInv, GraphsRead
  <2> QED
    BY <1>2, <2>2, <2>4, <2>5, <2>6, <2>7, <2>8 DEF ExportInv
<1>8. CASE Read("rows", [e \in {x \in Executions : status[x] # Absent} |-> status[e]])
  <2> PICK rows : rows = [e \in {x \in Executions : status[x] # Absent} |-> status[e]]
    OBVIOUS
  <2>1. /\ "rows" \in todo /\ todo' = todo \ {"rows"}
        /\ bundle' = [bundle EXCEPT !["rows"] = rows]
    BY <1>8 DEF Read
  <2>2. /\ bundle' = [f \in BundleFields |-> bundle'[f]]
        /\ bundle'.entries = bundle.entries /\ bundle'.checkpoints = bundle.checkpoints
        /\ bundle'.rows = rows /\ bundle'.events = bundle.events
        /\ bundle'.graphs = bundle.graphs
    BY <1>3, <2>1, BundleField DEF BundleFields
  <2>3. /\ Got("checkpoints")' => Got("checkpoints")
        /\ Got("entries")' => Got("entries")
    BY <1>1, <2>1 DEF Got
  <2>4. SealRead'
    BY <1>1, <2>2, <2>3 DEF ExportInv, SealRead
  <2>5. EntriesRead'
    BY <1>1, <2>2, <2>3 DEF ExportInv, EntriesRead
  <2>6. CheckpointsRead'
    BY <1>1, <2>2, <2>3 DEF ExportInv, CheckpointsRead
  <2>7. RowsRead'
    <3>1. /\ DOMAIN rows = {e \in Executions : status[e] # Absent}
          /\ \A e \in DOMAIN rows : rows[e] = status[e]
      OBVIOUS
    <3>2. \A e \in DOMAIN rows : rows[e] \in Statuses
      BY <3>1 DEF DbInv, RowsTyped
    <3> QED
      BY <1>1, <2>2, <3>1, <3>2 DEF RowsRead
  <2>8. GraphsRead'
    BY <1>1, <1>4, <2>2 DEF ExportInv, GraphsRead
  <2> QED
    BY <1>2, <2>2, <2>4, <2>5, <2>6, <2>7, <2>8 DEF ExportInv
<1> QED
  BY <1>6, <1>7, <1>8 DEF ReadTable

\* With the three tables read, the events of the rows found are left to read.
LEMMA BeginEventsStep ==
  ASSUME DbInv, FlagsTyped, ExportInv, altered = "none", BeginEvents
  PROVE  FlagsTyped' /\ ExportInv' /\ altered' = "none"
<1>1. /\ pc = "tables" /\ pc' = "events" /\ todo = {} /\ todo' = DOMAIN bundle.rows
      /\ UNCHANGED <<dbVars, record, linked, bundle, races, stale, altered>>
      /\ ledger' = ledger
  BY DEF BeginEvents, raceVars, dbVars
<1>2. FlagsTyped' /\ altered' = "none"
  BY <1>1 DEF FlagsTyped
<1>3. SealRead'
  BY <1>1 DEF ExportInv, SealRead, Got
<1>4. EventsDone' = EventsDone /\ \A table \in Tables : Got(table)' => Got(table)
  BY <1>1 DEF EventsDone, Got
<1> QED
  BY <1>1, <1>2, <1>3, <1>4, BundleKept DEF ExportInv

\* The events of one execution are exported with the graph built from them.
LEMMA ReadEventsStep ==
  ASSUME DbInv, FlagsTyped, ExportInv, altered = "none", NEW e \in Executions, ReadEvents(e)
  PROVE  FlagsTyped' /\ ExportInv' /\ altered' = "none"
<1> PICK g : g = GraphHash(e, bundle.rows[e], events[e])
  OBVIOUS
<1> PICK es : es = events[e]
  OBVIOUS
<1>1. /\ pc = "events" /\ pc' = "events" /\ e \in todo /\ todo' = todo \ {e}
      /\ UNCHANGED <<dbVars, record, linked, races, stale, altered>>
      /\ status' = status /\ events' = events /\ ledger' = ledger
      /\ checkpoints' = checkpoints
  BY DEF ReadEvents, raceVars, dbVars
<1>2. bundle' = [bundle EXCEPT
        !.events = Extend(bundle.events, e, es),
        !.graphs = IF es = <<>> THEN bundle.graphs
                   ELSE Extend(bundle.graphs, e, [hash |-> g, graph |-> g])]
  BY DEF ReadEvents
<1>3. bundle = [f \in BundleFields |-> bundle[f]] /\ DOMAIN bundle = BundleFields
  <2>1. bundle = [f \in BundleFields |-> bundle[f]]
    BY DEF ExportInv
  <2> QED
    BY <2>1, Zenon
<1>4. /\ bundle' = [f \in BundleFields |-> bundle'[f]]
      /\ bundle'.entries = bundle.entries /\ bundle'.checkpoints = bundle.checkpoints
      /\ bundle'.rows = bundle.rows
      /\ bundle'.events = Extend(bundle.events, e, es)
      /\ bundle'.graphs = IF es = <<>> THEN bundle.graphs
                          ELSE Extend(bundle.graphs, e, [hash |-> g, graph |-> g])
  BY <1>2, <1>3 DEF BundleFields
<1>5. FlagsTyped' /\ altered' = "none"
  BY <1>1 DEF FlagsTyped
<1>6. \A table : Got(table) /\ Got(table)'
  BY <1>1 DEF Got
<1>7. SealRead'
  BY <1>1, <1>4, <1>6 DEF ExportInv, SealRead
<1>8. EntriesRead'
  BY <1>1, <1>4, <1>6 DEF ExportInv, EntriesRead
<1>9. CheckpointsRead'
  BY <1>1, <1>4, <1>6 DEF ExportInv, CheckpointsRead
<1>10. RowsRead'
  BY <1>1, <1>4, <1>6 DEF ExportInv, RowsRead
<1>11. GraphsRead'
  <2>1. /\ todo \subseteq DOMAIN bundle.rows /\ e \in DOMAIN bundle.rows
        /\ DOMAIN bundle.events = DOMAIN bundle.rows \ todo
        /\ DOMAIN bundle.graphs = {x \in DOMAIN bundle.events : bundle.events[x] # <<>>}
        /\ EventsDone' = DOMAIN bundle'.rows \ todo'
    BY <1>1 DEF ExportInv, GraphsRead, EventsDone
  <2>2. /\ DOMAIN bundle'.events = DOMAIN bundle.events \cup {e}
        /\ bundle'.events[e] = es
        /\ \A x \in DOMAIN bundle.events : x # e => bundle'.events[x] = bundle.events[x]
    BY <1>4 DEF Extend
  <2>3. e \notin DOMAIN bundle.events /\ e \notin DOMAIN bundle.graphs
    BY <1>1, <2>1
  <2>4. /\ es = <<>> => bundle'.graphs = bundle.graphs
        /\ es # <<>> =>
             /\ DOMAIN bundle'.graphs = DOMAIN bundle.graphs \cup {e}
             /\ bundle'.graphs[e] = [hash |-> g, graph |-> g]
             /\ \A x \in DOMAIN bundle.graphs : x # e => bundle'.graphs[x] = bundle.graphs[x]
    BY <1>4 DEF Extend
  <2>5. DOMAIN bundle'.events = EventsDone'
    BY <1>1, <1>4, <2>1, <2>2
  <2>6. es \in Seq(EventRecord) /\ Linked(es) /\ es = events'[e]
    BY <1>1 DEF DbInv, EventsTyped
  <2>7. ASSUME NEW x \in DOMAIN bundle'.events
        PROVE  /\ bundle'.events[x] \in Seq(EventRecord) /\ Linked(bundle'.events[x])
               /\ stale' = FALSE => bundle'.events[x] = events'[x]
    <3>1. CASE x = e
      BY <2>2, <2>6, <3>1
    <3>2. CASE x # e
      <4>1. x \in DOMAIN bundle.events /\ bundle'.events[x] = bundle.events[x]
        BY <2>2, <3>2
      <4> QED
        BY <1>1, <4>1 DEF ExportInv, GraphsRead
    <3> QED
      BY <3>1, <3>2
  <2>8. DOMAIN bundle'.graphs = {x \in DOMAIN bundle'.events : bundle'.events[x] # <<>>}
    <3>1. CASE es = <<>>
      BY <2>1, <2>2, <2>3, <2>4, <3>1
    <3>2. CASE es # <<>>
      BY <2>1, <2>2, <2>3, <2>4, <3>2
    <3> QED
      BY <3>1, <3>2
  <2>9. ASSUME NEW x \in DOMAIN bundle'.graphs
        PROVE  bundle'.graphs[x] = [hash |-> GraphHash(x, bundle'.rows[x], bundle'.events[x]),
                                    graph |-> GraphHash(x, bundle'.rows[x], bundle'.events[x])]
    <3>1. CASE x = e
      <4>1. es # <<>>
        BY <2>3, <2>4, <3>1
      <4> QED
        BY <1>4, <2>2, <2>4, <3>1, <4>1
    <3>2. CASE x # e
      <4>1. x \in DOMAIN bundle.graphs /\ bundle'.graphs[x] = bundle.graphs[x]
        BY <2>4, <3>2
      <4>2. bundle'.events[x] = bundle.events[x] /\ bundle'.rows[x] = bundle.rows[x]
        BY <1>4, <2>1, <2>2, <3>2, <4>1
      <4>3. bundle.graphs[x] = [hash |-> GraphHash(x, bundle.rows[x], bundle.events[x]),
                                graph |-> GraphHash(x, bundle.rows[x], bundle.events[x])]
        BY <4>1 DEF ExportInv, GraphsRead
      <4> QED
        BY <4>1, <4>2, <4>3
    <3> QED
      BY <3>1, <3>2
  <2>10. todo' \subseteq DOMAIN bundle'.rows
    BY <1>1, <1>4, <2>1
  <2> QED
    BY <2>5, <2>7, <2>8, <2>9, <2>10 DEF GraphsRead
<1> QED
  BY <1>4, <1>5, <1>7, <1>8, <1>9, <1>10, <1>11 DEF ExportInv

\* The entries get their proofs, from the checkpoints that were exported.
LEMMA FinishExportStep ==
  ASSUME DbInv, FlagsTyped, ExportInv, altered = "none", FinishExport
  PROVE  FlagsTyped' /\ ExportInv' /\ altered' = "none"
<1> PICK old : old = bundle.entries
  OBVIOUS
<1> PICK m \in Nat : m = Len(old)
  BY DEF ExportInv, EntriesRead, FinishExport, Prefix, IsRow
<1>1. /\ pc = "events" /\ pc' = "done" /\ todo = {}
      /\ UNCHANGED <<dbVars, record, linked, todo, races, stale, altered>>
      /\ status' = status /\ events' = events /\ ledger' = ledger
      /\ checkpoints' = checkpoints
  BY DEF FinishExport, raceVars, dbVars
<1>2. Prefix(old, ledger) /\ DOMAIN old = 1..m
  <2>1. Prefix(old, ledger)
    BY <1>1 DEF ExportInv, EntriesRead
  <2>2. IsRow(old, m)
    BY <2>1 DEF Prefix
  <2> QED
    BY <2>1, <2>2, RowLength
<1> PICK new : new = [n \in 1..m |-> ExportEntry(old[n], bundle.checkpoints)]
  OBVIOUS
<1>3. bundle' = [bundle EXCEPT !["entries"] = new]
  <2>1. bundle' = [bundle EXCEPT !["entries"] = [n \in DOMAIN old |-> ExportEntry(old[n], bundle.checkpoints)]]
    BY DEF FinishExport
  <2> QED
    BY <1>2, <2>1
<1>4. /\ bundle' = [f \in BundleFields |-> bundle'[f]]
      /\ bundle'.entries = new /\ bundle'.checkpoints = bundle.checkpoints
      /\ bundle'.rows = bundle.rows /\ bundle'.events = bundle.events
      /\ bundle'.graphs = bundle.graphs
  <2>1. bundle = [f \in BundleFields |-> bundle[f]]
    BY DEF ExportInv
  <2> QED
    BY <1>3, <2>1, BundleField DEF BundleFields
<1>5. FlagsTyped' /\ altered' = "none"
  BY <1>1 DEF FlagsTyped
<1>6. \A table : Got(table) /\ Got(table)'
  BY <1>1 DEF Got
<1>7. IsRow(new, m) /\ Len(new) = m
  <2>1. IsRow(new, m)
    BY DEF IsRow
  <2> QED
    BY <2>1, RowLength
<1>8. SealRead'
  BY <1>1, <1>4, <1>6, <1>7 DEF ExportInv, SealRead
<1>9. EntriesRead'
  <2>1. m <= Len(ledger) /\ \A n \in 1..m : new[n] = ExportEntry(ledger[n], bundle.checkpoints)
    BY <1>2 DEF Prefix
  <2>2. stale = FALSE => m = Len(ledger)
    BY <1>6 DEF ExportInv, EntriesRead
  <2> QED
    BY <1>1, <1>4, <1>7, <2>1, <2>2 DEF EntriesRead
<1>10. CheckpointsRead'
  BY <1>1, <1>4, <1>6 DEF ExportInv, CheckpointsRead
<1>11. RowsRead'
  BY <1>1, <1>4, <1>6 DEF ExportInv, RowsRead
<1>12. GraphsRead'
  <2>1. EventsDone' = EventsDone
    BY <1>1, <1>4 DEF EventsDone
  <2> QED
    BY <1>1, <1>4, <2>1 DEF ExportInv, GraphsRead
<1> QED
  BY <1>4, <1>5, <1>8, <1>9, <1>10, <1>11, <1>12 DEF ExportInv

\* The request has read nothing at the start.
LEMMA RequestInit == Init => FlagsTyped /\ ExportInv /\ altered = "none"
<1> SUFFICES ASSUME Init PROVE FlagsTyped /\ ExportInv /\ altered = "none"
  OBVIOUS
<1>1. FlagsTyped /\ altered = "none"
  <2>1. MaxRaces \in Nat
    BY EvidenceBoundsAssumption
  <2>2. 0 \in 0..MaxRaces
    BY <2>1
  <2> QED
    BY <2>2 DEF Init, FlagsTyped
<1>2. /\ pc = "idle" /\ linked = FALSE /\ ledger = <<>> /\ checkpoints = <<>>
      /\ bundle = [entries |-> <<>>, checkpoints |-> <<>>, rows |-> <<>>, events |-> <<>>,
                   graphs |-> <<>>]
  BY DEF Init
<1>3. bundle = [f \in BundleFields |-> bundle[f]]
  BY <1>2 DEF BundleFields
<1>4. \A table : ~Got(table)
  BY <1>2 DEF Got
<1>5. Len(<<>>) = 0 /\ DOMAIN <<>> = {} /\ IsRow(<<>>, 0)
  BY DEF IsRow
<1>6. SealRead
  BY <1>2 DEF SealRead
<1>7. EntriesRead /\ CheckpointsRead
  BY <1>2, <1>4, <1>5 DEF EntriesRead, CheckpointsRead, Prefix
<1>8. RowsRead
  BY <1>2, <1>4, <1>5 DEF RowsRead
<1>9. GraphsRead
  BY <1>2, <1>5 DEF GraphsRead, EventsDone
<1> QED
  BY <1>1, <1>3, <1>6, <1>7, <1>8, <1>9 DEF ExportInv

-----------------------------------------------------------------------------
(* The issues a verification reports.                                      *)

SortsBefore(entries, i, j) ==
  entries[i].seq < entries[j].seq \/ (entries[i].seq = entries[j].seq /\ i < j)

Before(entries, i) == {j \in DOMAIN entries : SortsBefore(entries, j, i)}

Place(entries, i) == 1 + Cardinality(Before(entries, i))

Numbered(entries, m) == IsRow(entries, m) /\ \A i \in 1..m : entries[i].seq \in Int

\* The entry of each place.
LEMMA SortedByPlace ==
  ASSUME NEW entries, NEW D, D = DOMAIN entries
  PROVE  /\ DOMAIN Sorted(entries) = D
         /\ \A k \in D : Sorted(entries)[k] = entries[CHOOSE i \in D : Place(entries, i) = k]
         /\ Sorted(entries) = [k \in D |-> Sorted(entries)[k]]
<1>1. Sorted(entries)
        = [k \in DOMAIN entries |-> entries[CHOOSE i \in DOMAIN entries : Place(entries, i) = k]]
  BY Zenon DEF Sorted, Place, Before, SortsBefore
<1>2. Sorted(entries) = [k \in D |-> entries[CHOOSE i \in D : Place(entries, i) = k]]
  BY <1>1
<1>3. DOMAIN Sorted(entries) = D
  BY <1>2, Zenon
<1>4. \A k \in D : Sorted(entries)[k] = entries[CHOOSE i \in D : Place(entries, i) = k]
  BY <1>2, Zenon
<1>5. Sorted(entries) = [k \in D |-> Sorted(entries)[k]]
  BY <1>2, <1>4
<1> QED
  BY <1>3, <1>4, <1>5

\* Different entries have different places, all of them in the chain.
LEMMA PlacesDiffer ==
  ASSUME NEW m, NEW entries, Numbered(entries, m), NEW i \in 1..m
  PROVE  /\ Place(entries, i) \in 1..m
         /\ \A j \in 1..m : Place(entries, j) = Place(entries, i) => j = i
<1> DEFINE B(j) == Before(entries, j)
<1>1. m \in Nat /\ DOMAIN entries = 1..m /\ \A j \in 1..m : entries[j].seq \in Int
  BY RowLength DEF Numbered, IsRow
<1>2. IsFiniteSet(1..m) /\ Cardinality(1..m) = m
  BY <1>1, FS_Interval
<1>3. \A j \in 1..m : B(j) \subseteq (1..m) \ {j}
  BY <1>1 DEF Before, SortsBefore
<1>4. \A j \in 1..m : IsFiniteSet(B(j))
  BY <1>2, <1>3, FS_Subset
<1>5. Place(entries, i) \in 1..m
  <2>1. IsFiniteSet((1..m) \ {i}) /\ Cardinality((1..m) \ {i}) = m - 1
    BY <1>2, FS_RemoveElement
  <2>2. Cardinality(B(i)) <= m - 1
    BY <1>3, <2>1, FS_Subset
  <2>3. Cardinality(B(i)) \in Nat
    BY <1>4, FS_CardinalityType
  <2> QED
    BY <1>1, <2>2, <2>3 DEF Place
<1>6. ASSUME NEW a \in 1..m, NEW c \in 1..m, SortsBefore(entries, a, c)
      PROVE  Place(entries, a) # Place(entries, c)
  <2>1. B(a) \subseteq B(c) /\ a \in B(c) /\ a \notin B(a)
    BY <1>1, <1>6 DEF Before, SortsBefore
  <2>2. IsFiniteSet(B(c)) /\ IsFiniteSet(B(a))
    BY <1>4
  <2>3. Cardinality(B(a)) # Cardinality(B(c))
    BY <2>1, <2>2, FS_Subset
  <2>4. Cardinality(B(a)) \in Nat /\ Cardinality(B(c)) \in Nat
    BY <2>2, FS_CardinalityType
  <2> QED
    BY <2>3, <2>4 DEF Place
<1>7. ASSUME NEW j \in 1..m, j # i
      PROVE  Place(entries, j) # Place(entries, i)
  <2>1. SortsBefore(entries, i, j) \/ SortsBefore(entries, j, i)
    BY <1>1, <1>7 DEF SortsBefore
  <2> QED
    BY <1>6, <2>1
<1> QED
  BY <1>5, <1>7

\* Sorting loses no entry.
LEMMA SortedHolds ==
  ASSUME NEW m, NEW entries, Numbered(entries, m), NEW c \in 1..m
  PROVE  /\ DOMAIN Sorted(entries) = 1..m
         /\ \E p \in 1..m : Sorted(entries)[p] = entries[c]
<1> PICK D : D = 1..m
  OBVIOUS
<1> PICK s : s = Sorted(entries)
  OBVIOUS
<1>1. m \in Nat /\ DOMAIN entries = 1..m /\ Numbered(entries, m)
  BY RowLength DEF Numbered, IsRow
<1>2. DOMAIN s = D /\ \A k \in D : s[k] = entries[CHOOSE i \in D : Place(entries, i) = k]
  <2>1. D = DOMAIN entries
    BY <1>1
  <2>2. /\ DOMAIN Sorted(entries) = D
        /\ \A k \in D : Sorted(entries)[k] = entries[CHOOSE i \in D : Place(entries, i) = k]
    BY <2>1, SortedByPlace, Zenon
  <2> QED
    BY <2>2
<1> PICK p : p = Place(entries, c)
  OBVIOUS
<1>3. p \in D /\ c \in D /\ \A i \in D : Place(entries, i) = p => i = c
  BY PlacesDiffer
<1>4. (CHOOSE i \in D : Place(entries, i) = p) = c
  BY <1>3, Zenon
<1>5. s[p] = entries[c]
  BY <1>2, <1>3, <1>4, Zenon
<1> QED
  BY <1>2, <1>3, <1>5

\* Entries that are in order stay where they are.
LEMMA SortedInOrder ==
  ASSUME NEW m, NEW entries, IsRow(entries, m), \A i \in 1..m : entries[i].seq = i
  PROVE  Sorted(entries) = entries
<1>1. m \in Nat /\ DOMAIN entries = 1..m /\ Numbered(entries, m)
  BY RowLength DEF Numbered, IsRow
<1>2. ASSUME NEW i \in 1..m PROVE Place(entries, i) = i
  <2>1. Before(entries, i) = 1..(i - 1)
    BY <1>1 DEF Before, SortsBefore
  <2>2. Cardinality(1..(i - 1)) = i - 1
    <3>1. Cardinality(1..(i - 1)) = IF 1 > i - 1 THEN 0 ELSE (i - 1) - 1 + 1
      <4>1. 1 \in Int /\ i - 1 \in Int
        BY <1>1
      <4> QED
        BY <4>1, FS_Interval
    <3> QED
      BY <3>1
  <2> QED
    BY <2>1, <2>2 DEF Place
<1> PICK D : D = 1..m
  OBVIOUS
<1> PICK s : s = Sorted(entries)
  OBVIOUS
<1>3. DOMAIN s = D /\ \A k \in D : s[k] = entries[CHOOSE i \in D : Place(entries, i) = k]
  BY <1>1, SortedByPlace
<1>4. \A k \in D : (CHOOSE i \in D : Place(entries, i) = k) = k
  BY <1>2
<1>5. \A k \in D : s[k] = entries[k]
  BY <1>3, <1>4, Zenon
<1>6. s = [k \in D |-> s[k]]
  BY <1>1, SortedByPlace
<1>7. s = [k \in D |-> entries[k]]
  BY <1>5, <1>6
<1> QED
  BY <1>7 DEF IsRow

\* The issues are those of the chain, of the checkpoints and of the graphs.
LEMMA IssueParts ==
  ASSUME NEW b
  PROVE  /\ ChainIssues(b.entries) \subseteq Issues(b)
         /\ \A c \in DOMAIN b.checkpoints :
              CheckpointIssues(b.entries, b.checkpoints[c]) \subseteq Issues(b)
         /\ \A k \in GraphBearing(b) : BearingIssues(b, k) \subseteq Issues(b)
         /\ \A e \in DOMAIN b.graphs \ {b.entries[k].exec : k \in GraphBearing(b)} :
              OtherGraphIssues(b, e) \subseteq Issues(b)
<1> DEFINE orgs == UNION {IssueIf(b.entries[k].org # Organization, "ORG_MISMATCH", b.entries[k].seq) :
                           k \in DOMAIN b.entries}
           cps == {CheckpointIssues(b.entries, b.checkpoints[k]) : k \in DOMAIN b.checkpoints}
           bearing == {BearingIssues(b, k) : k \in GraphBearing(b)}
           others == {OtherGraphIssues(b, e) :
                        e \in DOMAIN b.graphs \ {b.entries[k].exec : k \in GraphBearing(b)}}
<1>1. Issues(b) = ((orgs \cup ChainIssues(b.entries)) \cup UNION cps)
                    \cup ExecutionGraphIssues(b)
  BY DEF Issues
<1>2. ExecutionGraphIssues(b) = (UNION bearing) \cup (UNION others)
  BY DEF ExecutionGraphIssues
<1>3. \A c \in DOMAIN b.checkpoints : CheckpointIssues(b.entries, b.checkpoints[c]) \in cps
  OBVIOUS
<1>4. \A k \in GraphBearing(b) : BearingIssues(b, k) \in bearing
  OBVIOUS
<1>5. \A e \in DOMAIN b.graphs \ {b.entries[k].exec : k \in GraphBearing(b)} :
        OtherGraphIssues(b, e) \in others
  OBVIOUS
<1> HIDE DEF orgs, cps, bearing, others
<1>6. \A c \in DOMAIN b.checkpoints :
        CheckpointIssues(b.entries, b.checkpoints[c]) \subseteq Issues(b)
  BY <1>1, <1>3
<1>7. \A k \in GraphBearing(b) : BearingIssues(b, k) \subseteq Issues(b)
  BY <1>1, <1>2, <1>4
<1>8. ASSUME NEW e \in DOMAIN b.graphs \ {b.entries[k].exec : k \in GraphBearing(b)}
      PROVE  OtherGraphIssues(b, e) \subseteq Issues(b)
  <2> PICK o : o = OtherGraphIssues(b, e)
    OBVIOUS
  <2>1. o \in others
    BY <1>5
  <2>2. o \subseteq UNION others
    BY <2>1, Zenon
  <2> QED
    BY <1>1, <1>2, <2>2
<1> QED
  BY <1>1, <1>6, <1>7, <1>8

\* Whatever is wrong with an entry is among the issues.
LEMMA EntryIssueFound ==
  ASSUME NEW b, NEW m, Numbered(b.entries, m), NEW k \in 1..m,
         \A prev : EntryIssues(b.entries[k], prev) # {}
  PROVE  Issues(b) # {}
<1> PICK s : s = Sorted(b.entries)
  OBVIOUS
<1>1. PICK p \in 1..m : s[p] = b.entries[k]
  BY SortedHolds
<1>2. p \in DOMAIN s
  BY SortedHolds
<1> PICK prev : prev = IF p = 1 THEN Null ELSE s[p - 1].hash
  OBVIOUS
<1>3. PICK issue : issue \in EntryIssues(s[p], prev)
  BY <1>1
<1>4. issue \in ChainIssues(b.entries)
  <2>1. EntryIssues(s[p], prev) \subseteq ChainIssues(b.entries)
    <3> DEFINE gap(i) == IF i = 1 THEN IssueIf(s[1].seq # 1, "SEQUENCE_START", s[1].seq)
                         ELSE IssueIf(s[i].seq # s[i - 1].seq + 1, "SEQUENCE_GAP", s[i].seq)
               parts == {EntryIssues(s[i], IF i = 1 THEN Null ELSE s[i - 1].hash) \cup gap(i) :
                           i \in DOMAIN s}
    <3>1. ChainIssues(b.entries) = UNION parts
      BY Zenon DEF ChainIssues
    <3> HIDE DEF gap
    <3>2. EntryIssues(s[p], prev) \cup gap(p) \in parts
      BY <1>2
    <3> HIDE DEF parts
    <3> QED
      BY <3>1, <3>2
  <2> QED
    BY <1>3, <2>1
<1> QED
  BY <1>4, IssueParts

\* Whatever is wrong with a checkpoint is among the issues.
LEMMA CheckpointIssueFound ==
  ASSUME NEW b, NEW c \in DOMAIN b.checkpoints,
         CheckpointIssues(b.entries, b.checkpoints[c]) # {}
  PROVE  Issues(b) # {}
BY IssueParts

\* So is whatever is wrong with a sealing entry's graph.
LEMMA BearingIssueFound ==
  ASSUME NEW b, NEW k \in GraphBearing(b), BearingIssues(b, k) # {}
  PROVE  Issues(b) # {}
BY IssueParts

\* And whatever is wrong with an exported graph, which an entry or nothing
\* but the export refers to.
LEMMA GraphIssueFound ==
  ASSUME NEW b, NEW e \in DOMAIN b.graphs, \A graph, n : GraphIssues(b, e, graph, n) # {}
  PROVE  Issues(b) # {}
<1>1. CASE \E k \in GraphBearing(b) : b.entries[k].exec = e
  <2>1. PICK k \in GraphBearing(b) : b.entries[k].exec = e
    BY <1>1
  <2>2. BearingIssues(b, k) # {}
    BY <2>1 DEF BearingIssues, IssueIf
  <2> QED
    BY <2>2, BearingIssueFound
<1>2. CASE ~\E k \in GraphBearing(b) : b.entries[k].exec = e
  <2>1. e \in DOMAIN b.graphs \ {b.entries[k].exec : k \in GraphBearing(b)}
    BY <1>2
  <2>2. OtherGraphIssues(b, e) # {}
    BY DEF OtherGraphIssues
  <2> QED
    BY <2>1, <2>2, IssueParts
<1> QED
  BY <1>1, <1>2

\* The proof of the entry of a sequence.
ExportProof(n, cs) ==
  IF CheckpointOf(n, cs) = {} THEN <<>>
  ELSE LET k == CHOOSE k \in CheckpointOf(n, cs) : TRUE
       IN  MerkleProof(cs[k].leaves, LeafIndex(n, cs[k].from))

\* The fields of an exported entry.
LEMMA ExportFields ==
  ASSUME NEW entry, DOMAIN entry = EntryFields, NEW cs
  PROVE  /\ DOMAIN ExportEntry(entry, cs) = EntryFields \cup {"created", "proof"}
         /\ \A f \in EntryFields : ExportEntry(entry, cs)[f] = entry[f]
         /\ ExportEntry(entry, cs).created = entry.at
         /\ ExportEntry(entry, cs).proof = ExportProof(entry.seq, cs)
<1> PICK x : x = ExportEntry(entry, cs)
  OBVIOUS
<1> PICK p : p = ExportProof(entry.seq, cs)
  OBVIOUS
<1>1. x = [f \in EntryFields \cup {"created", "proof"} |->
             CASE f = "created" -> entry.at [] f = "proof" -> p [] OTHER -> entry[f]]
  BY DEF ExportEntry, ExportProof
<1>2. "created" \notin EntryFields /\ "proof" \notin EntryFields
  BY DEF EntryFields
<1>3. \A f \in EntryFields \cup {"created", "proof"} :
        x[f] = CASE f = "created" -> entry.at [] f = "proof" -> p [] OTHER -> entry[f]
  BY <1>1
<1> QED
  BY <1>1, <1>2, <1>3

\* An entry of a finished export: that of the chain, its timestamp and its
\* proof, which is one of a checkpoint that covers it.
Exported(n) ==
  LET x == bundle.entries[n]
  IN  /\ DOMAIN x = EntryFields \cup {"created", "proof"}
      /\ \A f \in EntryFields : x[f] = ledger[n][f]
      /\ x.seq = n
      /\ x.exec \in Executions
      /\ x.created = x.at
      /\ x.hash = EntryHash(x)
      /\ x.prev = IF n = 1 THEN Null ELSE bundle.entries[n - 1].hash
      /\ \/ x.proof = <<>>
         \/ \E c \in 1..Len(bundle.checkpoints) :
              /\ c \in CheckpointOf(n, bundle.checkpoints)
              /\ x.proof = MerkleProof(bundle.checkpoints[c].leaves,
                                       LeafIndex(n, bundle.checkpoints[c].from))

\* Every entry of a finished export is such an entry.
LEMMA EntriesExported ==
  ASSUME DbInv, ExportInv, pc = "done"
  PROVE  \A n \in 1..Len(bundle.entries) : Exported(n)
<1>1. /\ IsRow(bundle.entries, Len(bundle.entries))
      /\ Len(bundle.entries) \in Nat
      /\ Len(bundle.entries) <= Len(ledger) /\ Len(ledger) \in Nat
      /\ \A n \in 1..Len(bundle.entries) :
           bundle.entries[n] = ExportEntry(ledger[n], bundle.checkpoints)
  BY DEF ExportInv, EntriesRead, DbInv, ChainShape, IsRow
<1>2. ASSUME NEW n \in 1..Len(bundle.entries)
      PROVE  /\ n \in 1..Len(ledger) /\ EntryShape(ledger, n) /\ DOMAIN ledger[n] = EntryFields
             /\ bundle.entries[n] = ExportEntry(ledger[n], bundle.checkpoints)
             /\ \A f \in EntryFields : bundle.entries[n][f] = ledger[n][f]
  <2>1. n \in 1..Len(ledger) /\ EntryShape(ledger, n)
    BY <1>1 DEF DbInv, ChainShape
  <2>2. ledger[n] = [f \in EntryFields |-> ledger[n][f]]
    BY <2>1 DEF EntryShape
  <2>3. DOMAIN ledger[n] = EntryFields
    BY <2>2, Zenon
  <2>4. bundle.entries[n] = ExportEntry(ledger[n], bundle.checkpoints)
    BY <1>1
  <2>5. \A f \in EntryFields : ExportEntry(ledger[n], bundle.checkpoints)[f] = ledger[n][f]
    BY <2>3, ExportFields, Zenon
  <2> QED
    BY <2>1, <2>3, <2>4, <2>5
<1> TAKE n \in 1..Len(bundle.entries)
<1> PICK x : x = bundle.entries[n]
  OBVIOUS
<1> PICK cs : cs = bundle.checkpoints
  OBVIOUS
<1>3. /\ DOMAIN x = EntryFields \cup {"created", "proof"}
      /\ \A f \in EntryFields : x[f] = ledger[n][f]
      /\ x.created = ledger[n].at
      /\ x.proof = ExportProof(ledger[n].seq, cs)
  <2> PICK entry : entry = ledger[n]
    OBVIOUS
  <2>1. DOMAIN entry = EntryFields /\ x = ExportEntry(entry, cs)
    BY <1>2
  <2>2. DOMAIN ExportEntry(entry, cs) = EntryFields \cup {"created", "proof"}
    BY <2>1, ExportFields
  <2>3. ExportEntry(entry, cs).created = entry.at
    BY <2>1, ExportFields
  <2>4. ExportEntry(entry, cs).proof = ExportProof(entry.seq, cs)
    BY <2>1, ExportFields
  <2>5. \A f \in EntryFields : ExportEntry(entry, cs)[f] = entry[f]
    BY <2>1, ExportFields
  <2> QED
    BY <2>1, <2>2, <2>3, <2>4, <2>5
<1>4. /\ ledger[n].seq = n /\ ledger[n].exec \in Executions
      /\ ledger[n].hash = EntryHash(ledger[n])
      /\ ledger[n].prev = IF n = 1 THEN Null ELSE ledger[n - 1].hash
  BY <1>2 DEF EntryShape
<1>5. /\ x.org = ledger[n].org /\ x.seq = n /\ x.exec = ledger[n].exec
      /\ x.type = ledger[n].type /\ x.content = ledger[n].content
      /\ x.graph = ledger[n].graph /\ x.prev = ledger[n].prev /\ x.at = ledger[n].at
      /\ x.hash = ledger[n].hash
  BY <1>3, <1>4 DEF EntryFields
<1>6. x.hash = EntryHash(x)
  BY <1>4, <1>5 DEF EntryHash
<1>7. x.prev = IF n = 1 THEN Null ELSE bundle.entries[n - 1].hash
  <2>1. n # 1 => bundle.entries[n - 1].hash = ledger[n - 1].hash
    <3> SUFFICES ASSUME n # 1 PROVE bundle.entries[n - 1].hash = ledger[n - 1].hash
      OBVIOUS
    <3>1. n - 1 \in 1..Len(bundle.entries) /\ "hash" \in EntryFields
      BY <1>1 DEF EntryFields
    <3> QED
      BY <1>2, <3>1
  <2> QED
    BY <1>4, <1>5, <2>1
<1>8. \/ x.proof = <<>>
      \/ \E c \in 1..Len(cs) : /\ c \in CheckpointOf(n, cs)
                               /\ x.proof = MerkleProof(cs[c].leaves, LeafIndex(n, cs[c].from))
  <2> SUFFICES ASSUME CheckpointOf(n, cs) # {}
               PROVE  \E c \in 1..Len(cs) :
                        /\ c \in CheckpointOf(n, cs)
                        /\ x.proof = MerkleProof(cs[c].leaves, LeafIndex(n, cs[c].from))
    BY <1>3, <1>4 DEF ExportProof
  <2> PICK c : c = CHOOSE k \in CheckpointOf(n, cs) : TRUE
    OBVIOUS
  <2>1. c \in CheckpointOf(n, cs)
    OBVIOUS
  <2>2. x.proof = MerkleProof(cs[c].leaves, LeafIndex(n, cs[c].from))
    BY <1>3, <1>4 DEF ExportProof
  <2>3. IsRow(cs, Len(cs))
    BY DEF ExportInv, CheckpointsRead, Prefix
  <2>4. c \in 1..Len(cs)
    BY <2>1, <2>3, RowLength DEF CheckpointOf
  <2> QED
    BY <2>1, <2>2, <2>4
<1> QED
  BY <1>3, <1>4, <1>5, <1>6, <1>7, <1>8 DEF Exported

\* "Provenance Verified" is about the events in the bundle.
LEMMA InductiveVerified ==
  ASSUME IInv
  PROVE  VerifiedRecordIsSound
<1> SUFFICES ASSUME pc = "done", altered = "none", linked = TRUE, Issues(bundle) = {}
             PROVE  /\ record.exec \in DOMAIN bundle.rows
                    /\ \E k \in DOMAIN bundle.entries :
                         /\ bundle.entries[k].exec = record.exec
                         /\ bundle.entries[k].graph =
                              GraphHash(record.exec, bundle.rows[record.exec],
                                        bundle.events[record.exec])
  BY DEF VerifiedRecordIsSound, IInv, FlagsTyped
<1>1. DbInv /\ ExportInv
  BY DEF IInv
<1>2. PICK k \in 1..Len(ledger) :
        /\ ledger[k].exec = record.exec /\ ledger[k].graph # Null
        /\ k <= Len(bundle.entries)
  BY <1>1 DEF ExportInv, SealRead, Got
<1> PICK e : e = record.exec
  OBVIOUS
<1> PICK graph : graph = ledger[k].graph
  OBVIOUS
<1>3. k \in 1..Len(bundle.entries) /\ DOMAIN bundle.entries = 1..Len(bundle.entries)
  <2>1. IsRow(bundle.entries, Len(bundle.entries)) /\ Len(bundle.entries) \in Nat
    BY <1>1 DEF ExportInv, EntriesRead, IsRow
  <2> QED
    BY <1>2, <2>1, RowLength
<1>4. /\ bundle.entries[k].exec = e /\ bundle.entries[k].graph = graph
      /\ bundle.entries[k].type = ledger[k].type
  BY <1>1, <1>2, <1>3, EntriesExported DEF Exported, EntryFields
<1>5. ledger[k].type \in {"final", "failure"}
  BY <1>1, <1>2 DEF DbInv, ChainShape, EntryShape
<1>6. k \in GraphBearing(bundle)
  BY <1>2, <1>3, <1>4, <1>5 DEF GraphBearing
<1>7. BearingIssues(bundle, k) = {}
  BY <1>6, BearingIssueFound
<1>8. e \in DOMAIN bundle.rows /\ e \in DOMAIN bundle.graphs /\ HasEvents(bundle, e)
  BY <1>4, <1>7 DEF BearingIssues, IssueIf
<1>9. GraphIssues(bundle, e, graph, bundle.entries[k].seq) = {}
  BY <1>4, <1>7, <1>8 DEF BearingIssues
<1>10. ~LedgerDiffers(graph, GraphHash(e, bundle.rows[e], bundle.events[e]))
  BY <1>9 DEF GraphIssues, IssueIf
<1>11. graph = GraphHash(e, bundle.rows[e], bundle.events[e])
  BY <1>2, <1>10 DEF LedgerDiffers
<1> QED
  BY <1>3, <1>4, <1>8, <1>11

-----------------------------------------------------------------------------
(* What an alteration does to a bundle.                                    *)

\* A finished export is a row of entries, each from the chain.
LEMMA ExportedEntries ==
  ASSUME DbInv, ExportInv, pc = "done"
  PROVE  /\ IsRow(bundle.entries, Len(bundle.entries)) /\ Len(bundle.entries) \in Nat
         /\ DOMAIN bundle.entries = 1..Len(bundle.entries)
         /\ Len(bundle.entries) <= Len(ledger) /\ Len(ledger) \in Nat
         /\ \A n \in 1..Len(bundle.entries) :
              /\ n \in 1..Len(ledger) /\ EntryShape(ledger, n) /\ Exported(n)
              /\ bundle.entries[n].seq = n
<1>1. /\ IsRow(bundle.entries, Len(bundle.entries)) /\ Len(bundle.entries) \in Nat
      /\ Len(bundle.entries) <= Len(ledger) /\ Len(ledger) \in Nat
  BY DEF ExportInv, EntriesRead, DbInv, ChainShape, IsRow
<1>2. DOMAIN bundle.entries = 1..Len(bundle.entries)
  BY <1>1, RowLength
<1>3. \A n \in 1..Len(bundle.entries) : n \in 1..Len(ledger) /\ EntryShape(ledger, n)
  BY <1>1 DEF DbInv, ChainShape
<1>4. \A n \in 1..Len(bundle.entries) : Exported(n) /\ bundle.entries[n].seq = n
  BY EntriesExported DEF Exported
<1> QED
  BY <1>1, <1>2, <1>3, <1>4

\* One item of a row put in place of another.
LEMMA RowReplaced ==
  ASSUME NEW m, NEW row, IsRow(row, m), NEW k \in 1..m, NEW x, NEW other,
         other = [row EXCEPT ![k] = x]
  PROVE  /\ IsRow(other, m) /\ other[k] = x
         /\ \A i \in 1..m : i # k => other[i] = row[i]
<1>1. DOMAIN row = 1..m /\ m \in Nat
  BY RowLength DEF IsRow
<1>2. other = [i \in 1..m |-> IF i = k THEN x ELSE row[i]]
  BY <1>1
<1>3. other = [i \in 1..m |-> other[i]]
  BY <1>2
<1> QED
  BY <1>1, <1>2, <1>3 DEF IsRow

\* What stands for another hash is no hash of an entry, a graph or a pair of
\* nodes, and not NULL.
LEMMA OtherTuples ==
  /\ <<"altered">> # Null
  /\ \A e : EntryHash(e) # <<"altered">>
  /\ \A e, st, es : GraphHash(e, st, es) # <<"altered">>
  /\ \A l, r : HashPair(l, r) # <<"altered">>
<1>1. <<"altered">> # Null
  <2>1. Len(<<"altered">>) = 1 /\ Len(Null) = 0
    BY DEF Null
  <2> QED
    BY <2>1
<1>2. \A e : EntryHash(e) # <<"altered">>
  BY DEF EntryHash
<1>3. \A e, st, es : GraphHash(e, st, es) # <<"altered">>
  BY DEF GraphHash
<1>4. \A l, r : HashPair(l, r) # <<"altered">>
  BY DEF HashPair
<1> QED
  BY <1>1, <1>2, <1>3, <1>4

\* An exported entry's fields are of the kinds that an alteration leaves.
LEMMA ExportedKinds ==
  ASSUME DbInv, ExportInv, pc = "done", NEW n \in 1..Len(bundle.entries)
  PROVE  LET x == bundle.entries[n]
         IN  /\ x.org = Organization /\ x.seq = n /\ x.exec \in Executions
             /\ x.type \in EntryTypes /\ x.content = "content" /\ x.at = "now"
             /\ x.created = "now" /\ x.hash = EntryHash(x)
             /\ x.graph # <<"altered">> /\ x.prev # <<"altered">>
<1> PICK x : x = bundle.entries[n]
  OBVIOUS
<1>1. /\ Exported(n) /\ EntryShape(ledger, n) /\ n \in 1..Len(ledger)
      /\ Len(bundle.entries) <= Len(ledger) /\ Len(ledger) \in Nat
      /\ Len(bundle.entries) \in Nat
  BY ExportedEntries
<1>2. /\ x.org = ledger[n].org /\ x.seq = n /\ x.exec = ledger[n].exec
      /\ x.type = ledger[n].type /\ x.content = ledger[n].content
      /\ x.graph = ledger[n].graph /\ x.prev = ledger[n].prev /\ x.at = ledger[n].at
      /\ x.created = x.at /\ x.hash = EntryHash(x)
  BY <1>1 DEF Exported, EntryFields
<1>3. x.graph # <<"altered">>
  <2>1. x.graph = Null \/ IsGraph(x.exec, x.graph)
    BY <1>1, <1>2 DEF EntryShape
  <2>2. ASSUME IsGraph(x.exec, x.graph) PROVE x.graph # <<"altered">>
    <3> PICK st, es : x.graph = GraphHash(x.exec, st, es)
      BY <2>2 DEF IsGraph
    <3> QED
      BY OtherTuples
  <2> QED
    BY <2>1, <2>2, OtherTuples
<1>4. x.prev # <<"altered">>
  <2>1. n # 1 => ledger[n].prev = EntryHash(ledger[n - 1])
    <3> SUFFICES ASSUME n # 1 PROVE ledger[n].prev = EntryHash(ledger[n - 1])
      OBVIOUS
    <3>1. n - 1 \in 1..Len(ledger)
      BY <1>1
    <3>2. EntryShape(ledger, n - 1)
      BY <3>1 DEF DbInv, ChainShape
    <3> QED
      BY <1>1, <3>2 DEF EntryShape
  <2>2. n = 1 => ledger[n].prev = Null
    BY <1>1 DEF EntryShape
  <2> QED
    BY <1>2, <2>1, <2>2, OtherTuples
<1> QED
  BY <1>1, <1>2, <1>3, <1>4 DEF EntryShape

\* Another value in a field of an entry is noticed wherever it is.
LEMMA EntryAlterationFails ==
  ASSUME DbInv, ExportInv, pc = "done", AlterEntry
  PROVE  altered' = "field" /\ Issues(bundle') # {}
<1>1. PICK k \in DOMAIN bundle.entries, field \in HashedFields \cup {"hash", "created"} :
        Alter("field", [bundle EXCEPT !.entries[k][field] = AlteredValue(field, @)])
  BY DEF AlterEntry
<1> PICK m : m = Len(bundle.entries)
  OBVIOUS
<1>2. /\ IsRow(bundle.entries, m) /\ m \in Nat /\ k \in 1..m /\ Exported(k)
      /\ \A n \in 1..m : bundle.entries[n].seq = n
  BY ExportedEntries
<1> PICK x : x = bundle.entries[k]
  OBVIOUS
<1> PICK new : new = AlteredValue(field, x[field])
  OBVIOUS
<1> PICK y : y = [x EXCEPT ![field] = new]
  OBVIOUS
<1> PICK es : es = [bundle.entries EXCEPT ![k] = y]
  OBVIOUS
<1>3. altered' = "field" /\ bundle' = [bundle EXCEPT !["entries"] = es]
  BY <1>1 DEF Alter
<1>4. bundle'.entries = es
  <2>1. "entries" \in BundleFields /\ bundle = [f \in BundleFields |-> bundle[f]]
    BY DEF BundleFields, ExportInv
  <2> QED
    BY <1>3, <2>1, BundleField
<1>5. /\ DOMAIN x = EntryFields \cup {"created", "proof"} /\ field \in DOMAIN x
  BY <1>2 DEF Exported, HashedFields, EntryFields
<1>6. y[field] = new /\ \A f \in DOMAIN x : f # field => y[f] = x[f]
  BY <1>5
<1>7. /\ x.org = Organization /\ x.seq = k /\ x.exec \in Executions
      /\ x.type \in EntryTypes /\ x.content = "content" /\ x.at = "now"
      /\ x.created = "now" /\ x.hash = EntryHash(x)
      /\ x.graph # <<"altered">> /\ x.prev # <<"altered">>
  BY <1>2, ExportedKinds
<1>8. field \in HashedFields => new # x[field]
  <2>1. "altered" # Organization /\ "altered" \notin EntryTypes /\ "altered" \notin Executions
    BY AlteredAssumption DEF Organization, EntryTypes
  <2> QED
    BY <1>2, <1>7, <2>1 DEF HashedFields, AlteredValue
<1>9. y.seq \in Int
  <2>1. CASE field = "seq"
    BY <1>2, <1>6, <1>7, <2>1 DEF AlteredValue
  <2>2. CASE field # "seq"
    BY <1>2, <1>5, <1>6, <1>7, <2>2 DEF EntryFields
  <2> QED
    BY <2>1, <2>2
<1>10. IsRow(es, m) /\ es[k] = y /\ \A i \in 1..m : i # k => es[i] = bundle.entries[i]
  BY <1>2, RowReplaced
<1>11. Numbered(es, m)
  BY <1>2, <1>9, <1>10 DEF Numbered
<1>12. EntryHash(y) # y.hash \/ y.created # y.at
  <2>1. CASE field = "hash"
    BY <1>6, <2>1 DEF EntryHash, AlteredValue
  <2>2. CASE field = "created"
    BY <1>5, <1>6, <1>7, <2>2 DEF EntryFields, AlteredValue
  <2>3. CASE field \in HashedFields
    <3>1. y.hash = EntryHash(x)
      BY <1>5, <1>6, <1>7, <2>3 DEF EntryFields, HashedFields
    <3>2. y[field] # x[field]
      BY <1>6, <1>8, <2>3
    <3>3. EntryHash(y) # EntryHash(x)
      BY <2>3, <3>2 DEF EntryHash, HashedFields
    <3> QED
      BY <3>1, <3>3
  <2> QED
    BY <2>1, <2>2, <2>3
<1>13. \A prev : EntryIssues(y, prev) # {}
  BY <1>12 DEF EntryIssues, IssueIf
<1>14. Issues(bundle') # {}
  <2> PICK b : b = bundle'
    OBVIOUS
  <2>1. Numbered(b.entries, m) /\ \A prev : EntryIssues(b.entries[k], prev) # {}
    BY <1>4, <1>10, <1>11, <1>13
  <2>2. Issues(b) # {}
    BY <1>2, <2>1, EntryIssueFound
  <2> QED
    BY <2>2
<1> QED
  BY <1>3, <1>14

\* An exported checkpoint is that of its interval of the chain, and its root is
\* over its leaves.
LEMMA ExportedCheckpoints ==
  ASSUME DbInv, ExportInv
  PROVE  /\ IsRow(bundle.checkpoints, Len(bundle.checkpoints))
         /\ DOMAIN bundle.checkpoints = 1..Len(bundle.checkpoints)
         /\ \A c \in 1..Len(bundle.checkpoints) :
              LET cp == bundle.checkpoints[c]
              IN  /\ cp = SpanCheckpoint(ledger, c)
                  /\ (c - 1) * Interval \in Nat
                  /\ cp.from = (c - 1) * Interval + 1
                  /\ cp.through = (c - 1) * Interval + Interval
                  /\ IsRow(cp.leaves, Interval)
                  /\ cp.root = MerkleRoot(cp.leaves)
                  /\ \A i \in 1..Interval :
                       /\ (c - 1) * Interval + i \in 1..Len(ledger)
                       /\ cp.leaves[i] = ledger[(c - 1) * Interval + i].hash
                       /\ cp.leaves[i] = EntryHash(ledger[(c - 1) * Interval + i])
<1> PICK m : m = Len(bundle.checkpoints)
  OBVIOUS
<1>1. /\ IsRow(bundle.checkpoints, m) /\ m <= Len(checkpoints) /\ m \in Nat
      /\ \A c \in 1..m : checkpoints[c] = bundle.checkpoints[c]
  BY DEF ExportInv, CheckpointsRead, Prefix, IsRow
<1>2. DOMAIN bundle.checkpoints = 1..m
  BY <1>1, RowLength
<1> PICK q \in Nat : q = Len(checkpoints)
  BY DEF DbInv, CheckpointShape, IsRow
<1> PICK n \in Nat : n = Len(ledger)
  BY DEF DbInv, ChainShape, IsRow
<1> PICK I \in Nat \ {0} : I = Interval
  BY EvidenceIntervalAssumption
<1>3. q * I <= n /\ \A c \in 1..q : checkpoints[c] = SpanCheckpoint(ledger, c)
  BY DEF DbInv, CheckpointShape
<1>4. ASSUME NEW c \in 1..m
      PROVE  LET cp == bundle.checkpoints[c]
             IN  /\ cp = SpanCheckpoint(ledger, c)
                 /\ (c - 1) * I \in Nat
                 /\ cp.from = (c - 1) * I + 1
                 /\ cp.through = (c - 1) * I + I
                 /\ IsRow(cp.leaves, I)
                 /\ cp.root = MerkleRoot(cp.leaves)
                 /\ \A i \in 1..I :
                      /\ (c - 1) * I + i \in 1..n
                      /\ cp.leaves[i] = ledger[(c - 1) * I + i].hash
                      /\ cp.leaves[i] = EntryHash(ledger[(c - 1) * I + i])
  <2> PICK cp : cp = bundle.checkpoints[c]
    OBVIOUS
  <2>1. c \in 1..q
    BY <1>1
  <2>2. cp = SpanCheckpoint(ledger, c)
    BY <1>1, <1>3, <2>1
  <2>3. (c - 1) * I \in Nat /\ (c - 1) * I + I = c * I
        /\ \A i \in 1..I : (c - 1) * I + i \in 1..n
    BY <1>3, <2>1, SpanBounds
  <2>4. /\ cp.from = (c - 1) * I + 1 /\ cp.through = c * I
        /\ cp.leaves = SpanLeaves(ledger, c) /\ cp.root = MerkleRoot(cp.leaves)
    BY <2>2 DEF SpanCheckpoint
  <2>5. cp.leaves = [i \in 1..I |-> ledger[(c - 1) * I + i].hash]
    BY <2>4 DEF SpanLeaves
  <2>6. IsRow(cp.leaves, I)
    BY <2>5 DEF IsRow
  <2>7. ASSUME NEW i \in 1..I
        PROVE  /\ (c - 1) * I + i \in 1..n
               /\ cp.leaves[i] = ledger[(c - 1) * I + i].hash
               /\ cp.leaves[i] = EntryHash(ledger[(c - 1) * I + i])
    <3> PICK j : j = (c - 1) * I + i
      OBVIOUS
    <3>1. j \in 1..n
      BY <2>3
    <3>2. ledger[j].hash = EntryHash(ledger[j])
      BY <3>1 DEF DbInv, ChainShape, EntryShape
    <3>3. cp.leaves[i] = ledger[j].hash
      BY <2>5
    <3> QED
      BY <3>1, <3>2, <3>3
  <2> QED
    BY <2>2, <2>3, <2>4, <2>6, <2>7
<1> QED
  BY <1>1, <1>2, <1>4

\* Nothing is wrong with a leaf if it is of an entry that is there, where the
\* sequences are the places, and the entry's proof verifies.
LEMMA LeafInOrder ==
  ASSUME NEW m, NEW entries, IsRow(entries, m), \A j \in 1..m : entries[j].seq = j,
         NEW cp, NEW i, NEW n, n = cp.from + i - 1
  PROVE  LeafIssues(entries, cp, i) = {} <=>
           /\ n \in 1..m
           /\ entries[n].hash = cp.leaves[i]
           /\ \/ entries[n].proof = <<>>
              \/ VerifyMerkleProof(entries[n].hash, entries[n].proof, cp.root)
<1> PICK found : found = {k \in DOMAIN entries : entries[k].seq = n}
  OBVIOUS
<1>1. DOMAIN entries = 1..m /\ m \in Nat
  BY RowLength DEF IsRow
<1>2. n \notin 1..m => found = {}
  BY <1>1
<1>3. n \in 1..m => found = {n}
  BY <1>1
<1> PICK last : last = CHOOSE k \in found : \A j \in found : j <= k
  OBVIOUS
<1>4. n \in 1..m => last = n
  BY <1>3
<1>5. LeafIssues(entries, cp, i) =
        IF found = {} THEN {Issue("MERKLE_LEAF_MISSING", n)}
        ELSE IssueIf(entries[last].hash # cp.leaves[i], "MERKLE_LEAF_MISMATCH", n)
               \cup IssueIf(/\ entries[last].proof # <<>>
                            /\ ~VerifyMerkleProof(entries[last].hash, entries[last].proof,
                                                  cp.root), "MERKLE_PROOF_INVALID", n)
  BY Zenon DEF LeafIssues
<1>6. CASE n \notin 1..m
  BY <1>2, <1>5, <1>6
<1>7. CASE n \in 1..m
  <2>1. found # {} /\ last = n
    BY <1>3, <1>4, <1>7
  <2> QED
    BY <1>5, <1>7, <2>1 DEF IssueIf
<1> QED
  BY <1>6, <1>7

\* A leaf that no entry has is noticed.
LEMMA LeafDiffers ==
  ASSUME NEW m, NEW entries, IsRow(entries, m), \A j \in 1..m : entries[j].seq = j,
         NEW cp, NEW i, \A j \in 1..m : entries[j].hash # cp.leaves[i]
  PROVE  LeafIssues(entries, cp, i) # {}
<1> PICK n : n = cp.from + i - 1
  OBVIOUS
<1> QED
  BY LeafInOrder

\* Whatever is wrong with a leaf is among the issues.
LEMMA LeafIssueFound ==
  ASSUME NEW b, NEW c \in DOMAIN b.checkpoints, NEW i \in DOMAIN b.checkpoints[c].leaves,
         LeafIssues(b.entries, b.checkpoints[c], i) # {}
  PROVE  Issues(b) # {}
<1> PICK cp : cp = b.checkpoints[c]
  OBVIOUS
<1> PICK o : o = LeafIssues(b.entries, cp, i)
  OBVIOUS
<1> PICK all : all = {LeafIssues(b.entries, cp, j) : j \in DOMAIN cp.leaves}
  OBVIOUS
<1>1. o \in all
  OBVIOUS
<1>2. CheckpointIssues(b.entries, cp)
        = IssueIf(MerkleRoot(cp.leaves) # cp.root, "MERKLE_ROOT_MISMATCH", cp.through)
            \cup UNION all
  BY DEF CheckpointIssues
<1>3. CheckpointIssues(b.entries, cp) # {}
  BY <1>1, <1>2
<1> QED
  BY <1>3, CheckpointIssueFound

\* Another root, or another leaf, is noticed against the leaves, or the
\* entries, it is over.
LEMMA CheckpointAlterationFails ==
  ASSUME DbInv, ExportInv, pc = "done", AlterCheckpoint
  PROVE  altered' \in {"root", "leaf"} /\ Issues(bundle') # {}
<1>1. PICK k \in DOMAIN bundle.checkpoints :
        \/ Alter("root", [bundle EXCEPT !.checkpoints[k].root = <<"altered">>])
        \/ \E i \in DOMAIN bundle.checkpoints[k].leaves :
             Alter("leaf", [bundle EXCEPT !.checkpoints[k].leaves[i] = <<"altered">>])
  BY DEF AlterCheckpoint
<1> PICK m : m = Len(bundle.checkpoints)
  OBVIOUS
<1> PICK cp : cp = bundle.checkpoints[k]
  OBVIOUS
<1> PICK I \in Nat \ {0} : I = Interval
  BY EvidenceIntervalAssumption
<1>2. /\ IsRow(bundle.checkpoints, m) /\ k \in 1..m
      /\ DOMAIN bundle.checkpoints = 1..m
      /\ cp = SpanCheckpoint(ledger, k)
      /\ IsRow(cp.leaves, I) /\ cp.root = MerkleRoot(cp.leaves)
      /\ \A i \in 1..I : cp.leaves[i] # <<"altered">>
  <2>1. k \in 1..m /\ IsRow(bundle.checkpoints, m) /\ DOMAIN bundle.checkpoints = 1..m
    BY ExportedCheckpoints
  <2>2. cp = SpanCheckpoint(ledger, k) /\ IsRow(cp.leaves, I) /\ cp.root = MerkleRoot(cp.leaves)
    BY <2>1, ExportedCheckpoints
  <2>3. \A i \in 1..I : cp.leaves[i] = EntryHash(ledger[(k - 1) * I + i])
    BY <2>1, ExportedCheckpoints
  <2>4. \A i \in 1..I : cp.leaves[i] # <<"altered">>
    BY <2>3, OtherTuples
  <2> QED
    BY <2>1, <2>2, <2>4
<1>3. DOMAIN cp = {"from", "through", "leaves", "root"}
  BY <1>2 DEF SpanCheckpoint
<1>4. "checkpoints" \in BundleFields /\ "entries" \in BundleFields
      /\ bundle = [f \in BundleFields |-> bundle[f]]
  BY DEF BundleFields, ExportInv
<1>5. CASE Alter("root", [bundle EXCEPT !.checkpoints[k].root = <<"altered">>])
  <2> PICK new : new = [cp EXCEPT !["root"] = <<"altered">>]
    OBVIOUS
  <2> PICK cs : cs = [bundle.checkpoints EXCEPT ![k] = new]
    OBVIOUS
  <2> PICK b : b = bundle'
    OBVIOUS
  <2>1. altered' = "root" /\ bundle' = [bundle EXCEPT !["checkpoints"] = cs]
    BY <1>5 DEF Alter
  <2>2. bundle'.checkpoints = cs
    BY <1>4, <2>1, BundleField
  <2>3. b.checkpoints[k] = new /\ k \in DOMAIN b.checkpoints
    BY <1>2, <2>2
  <2>4. new.leaves = cp.leaves /\ new.root = <<"altered">>
    BY <1>3
  <2>5. MerkleRoot(cp.leaves) # <<"altered">>
    BY <1>2, RootIsHash, OtherTuples
  <2>6. CheckpointIssues(b.entries, b.checkpoints[k]) # {}
    BY <2>3, <2>4, <2>5 DEF CheckpointIssues, IssueIf
  <2>7. Issues(b) # {}
    BY <2>3, <2>6, CheckpointIssueFound
  <2> QED
    BY <2>1, <2>7
<1>6. CASE \E i \in DOMAIN bundle.checkpoints[k].leaves :
             Alter("leaf", [bundle EXCEPT !.checkpoints[k].leaves[i] = <<"altered">>])
  <2> PICK i \in DOMAIN cp.leaves :
        Alter("leaf", [bundle EXCEPT !.checkpoints[k].leaves[i] = <<"altered">>])
    BY <1>6
  <2> PICK leaves : leaves = [cp.leaves EXCEPT ![i] = <<"altered">>]
    OBVIOUS
  <2> PICK new : new = [cp EXCEPT !["leaves"] = leaves]
    OBVIOUS
  <2> PICK cs : cs = [bundle.checkpoints EXCEPT ![k] = new]
    OBVIOUS
  <2> PICK b : b = bundle'
    OBVIOUS
  <2>1. altered' = "leaf" /\ bundle' = [bundle EXCEPT !["checkpoints"] = cs]
    BY DEF Alter
  <2>2. bundle'.checkpoints = cs /\ bundle'.entries = bundle.entries
    <3>1. bundle'.checkpoints = cs
      BY <1>4, <2>1, BundleField
    <3>2. \A f \in BundleFields \ {"checkpoints"} : bundle'[f] = bundle[f]
      BY <1>4, <2>1, BundleField
    <3> QED
      BY <1>4, <3>1, <3>2
  <2>3. b.checkpoints[k] = new /\ k \in DOMAIN b.checkpoints
    BY <1>2, <2>2
  <2>4. new.leaves = leaves /\ i \in DOMAIN leaves /\ leaves[i] = <<"altered">>
    BY <1>3
  <2> PICK w : w = Len(bundle.entries)
    OBVIOUS
  <2> PICK es : es = bundle.entries
    OBVIOUS
  <2>5. /\ IsRow(es, w) /\ \A n \in 1..w : es[n].seq = n
        /\ \A n \in 1..w : es[n].hash # <<"altered">>
    <3>1. IsRow(es, w) /\ \A n \in 1..w : es[n].seq = n
      BY ExportedEntries
    <3>2. \A n \in 1..w : es[n].hash = EntryHash(es[n])
      BY ExportedEntries DEF Exported
    <3> QED
      BY <3>1, <3>2, OtherTuples
  <2>6. LeafIssues(es, new, i) # {}
    <3>1. \A j \in 1..w : es[j].hash # new.leaves[i]
      BY <2>4, <2>5
    <3>2. IsRow(es, w) /\ \A j \in 1..w : es[j].seq = j
      BY <2>5
    <3> QED
      BY <3>1, <3>2, LeafDiffers
  <2>7. Issues(b) # {}
    BY <2>2, <2>3, <2>4, <2>6, LeafIssueFound
  <2> QED
    BY <2>1, <2>7
<1> QED
  BY <1>1, <1>5, <1>6

\* The checkpoint that covers an entry has the entry's hash among its leaves,
\* so that the entry's proof verifies against its root.
LEMMA CoveredEntry ==
  ASSUME DbInv, ExportInv, pc = "done", NEW k \in 1..Len(bundle.entries),
         NEW c \in 1..Len(bundle.checkpoints), c \in CheckpointOf(k, bundle.checkpoints),
         NEW cp, cp = bundle.checkpoints[c], NEW i, i = LeafIndex(k, cp.from)
  PROVE  /\ i \in 1..Interval /\ k = cp.from + i - 1
         /\ k = (c - 1) * Interval + i
         /\ IsRow(cp.leaves, Interval) /\ cp.root = MerkleRoot(cp.leaves)
         /\ cp.leaves[i] = bundle.entries[k].hash
         /\ VerifyMerkleProof(bundle.entries[k].hash, MerkleProof(cp.leaves, i), cp.root)
<1> PICK I \in Nat \ {0} : I = Interval
  BY EvidenceIntervalAssumption
<1>0. PICK s : s = (c - 1) * I
  OBVIOUS
<1>1. /\ s \in Nat /\ cp.from = s + 1 /\ cp.through = s + I
      /\ IsRow(cp.leaves, I) /\ cp.root = MerkleRoot(cp.leaves)
      /\ \A j \in 1..I : cp.leaves[j] = ledger[s + j].hash
  BY <1>0, ExportedCheckpoints
<1>2. k \in Nat
  BY ExportedEntries
<1>3. cp.from <= k /\ k <= cp.through
  BY DEF CheckpointOf
<1>4. i = k - s
  BY <1>1, <1>2 DEF LeafIndex
<1>5. i \in 1..I /\ k = cp.from + i - 1 /\ k = s + i
  <2>1. s \in Nat /\ k \in Nat /\ s + 1 <= k /\ k <= s + I /\ i = k - s
    BY <1>1, <1>2, <1>3, <1>4
  <2>2. i \in 1..I /\ k = (s + 1) + i - 1 /\ k = s + i
    BY <2>1
  <2> QED
    BY <1>1, <2>2
<1>6. bundle.entries[k].hash = ledger[k].hash
  BY ExportedEntries DEF Exported, EntryFields
<1>7. cp.leaves[i] = bundle.entries[k].hash
  BY <1>1, <1>5, <1>6
<1>8. VerifyMerkleProof(cp.leaves[i], MerkleProof(cp.leaves, i), MerkleRoot(cp.leaves))
  BY <1>1, <1>5, ProofsVerify
<1>9. VerifyMerkleProof(bundle.entries[k].hash, MerkleProof(cp.leaves, i), cp.root)
  BY <1>1, <1>7, <1>8, Zenon
<1> QED
  BY <1>0, <1>1, <1>5, <1>7, <1>9

\* A step of a proof on the other side leads to another root.
LEMMA ProofAlterationFails ==
  ASSUME DbInv, ExportInv, pc = "done", AlterProof
  PROVE  altered' = "sibling" /\ Issues(bundle') # {}
<1>0. PICK k \in DOMAIN bundle.entries : \E r \in DOMAIN bundle.entries[k].proof :
        /\ bundle.entries[k].proof[r].sibling
             # Nodes(bundle.entries[k].hash, bundle.entries[k].proof)[r - 1]
        /\ Alter("sibling", [bundle EXCEPT !.entries[k].proof[r].position = Opposite(@)])
  BY DEF AlterProof
<1>1. PICK r \in DOMAIN bundle.entries[k].proof :
        /\ bundle.entries[k].proof[r].sibling
             # Nodes(bundle.entries[k].hash, bundle.entries[k].proof)[r - 1]
        /\ Alter("sibling", [bundle EXCEPT !.entries[k].proof[r].position = Opposite(@)])
  BY <1>0
<1>m. PICK m : m = Len(bundle.entries)
  OBVIOUS
<1>x. PICK x : x = bundle.entries[k]
  OBVIOUS
<1>2. /\ IsRow(bundle.entries, m) /\ m \in Nat /\ k \in 1..m /\ Exported(k)
      /\ \A n \in 1..m : bundle.entries[n].seq = n
  BY <1>m, ExportedEntries
<1>p. PICK proof : proof = x.proof
  OBVIOUS
<1>3. proof # <<>> /\ r \in DOMAIN proof
  BY <1>1, <1>p, <1>x
<1>4. PICK c \in 1..Len(bundle.checkpoints) :
        /\ c \in CheckpointOf(k, bundle.checkpoints)
        /\ proof = MerkleProof(bundle.checkpoints[c].leaves,
                               LeafIndex(k, bundle.checkpoints[c].from))
  BY <1>2, <1>3, <1>p, <1>x DEF Exported
<1>c. PICK cp : cp = bundle.checkpoints[c]
  OBVIOUS
<1>l. PICK p : p = LeafIndex(k, cp.from)
  OBVIOUS
<1>i. PICK I \in Nat \ {0} : I = Interval
  BY EvidenceIntervalAssumption
<1>5. /\ p \in 1..I /\ k = cp.from + p - 1
      /\ IsRow(cp.leaves, I) /\ cp.root = MerkleRoot(cp.leaves)
      /\ proof = MerkleProof(cp.leaves, p)
      /\ VerifyMerkleProof(x.hash, proof, cp.root)
  <2>1. proof = MerkleProof(cp.leaves, p)
    BY <1>4, <1>c, <1>l
  <2>2. k \in 1..Len(bundle.entries)
    BY <1>2, <1>m
  <2>3. /\ p \in 1..Interval /\ k = cp.from + p - 1
        /\ IsRow(cp.leaves, Interval) /\ cp.root = MerkleRoot(cp.leaves)
    BY <1>4, <1>c, <1>l, <2>2, CoveredEntry
  <2>4. VerifyMerkleProof(bundle.entries[k].hash, MerkleProof(cp.leaves, p), cp.root)
    BY <1>4, <1>c, <1>l, <2>2, CoveredEntry
  <2> QED
    BY <1>x, <1>i, <2>1, <2>3, <2>4
<1>d. PICK d : d = Depth(cp.leaves)
  OBVIOUS
<1>6. /\ d \in Nat /\ IsRow(proof, d) /\ Len(proof) = d
      /\ \A j \in 1..d : proof[j] = SiblingStep(Layers(cp.leaves)[j - 1], Places(p, d)[j - 1])
  <2>1. d \in 0..I
    BY <1>5, <1>d, DepthIsLeast
  <2>2. IsRow(proof, d)
    BY <1>5, <1>d, ProofShape
  <2>3. \A j \in 1..d : proof[j] = SiblingStep(Layers(cp.leaves)[j - 1], Places(p, d)[j - 1])
    BY <1>5, <1>d, ProofShape
  <2>4. Len(proof) = d
    BY <2>2, RowLength
  <2> QED
    BY <2>1, <2>2, <2>3, <2>4
<1>7. r \in 1..d
  BY <1>3, <1>6, RowLength
<1>s. PICK step : step = proof[r]
  OBVIOUS
<1>z. PICK sibling : sibling = step.sibling
  OBVIOUS
<1>8. \/ step = [sibling |-> sibling, position |-> "left"]
      \/ step = [sibling |-> sibling, position |-> "right"]
  BY <1>6, <1>7, <1>s, <1>z DEF SiblingStep
<1>t. PICK turned : turned = [step EXCEPT !["position"] = Opposite(step["position"])]
  OBVIOUS
<1>o. PICK other : other = [proof EXCEPT ![r] = turned]
  OBVIOUS
<1>y. PICK y : y = [x EXCEPT !["proof"] = other]
  OBVIOUS
<1>e. PICK es : es = [bundle.entries EXCEPT ![k] = y]
  OBVIOUS
<1>9. altered' = "sibling" /\ bundle' = [bundle EXCEPT !["entries"] = es]
  BY <1>1, <1>x, <1>p, <1>s, <1>t, <1>o, <1>y, <1>e DEF Alter
<1>10. bundle'.entries = es /\ bundle'.checkpoints = bundle.checkpoints
  <2>1. /\ "entries" \in BundleFields /\ "checkpoints" \in BundleFields \ {"entries"}
        /\ bundle = [f \in BundleFields |-> bundle[f]]
    BY DEF BundleFields, ExportInv
  <2>2. bundle'.entries = es
    BY <1>9, <2>1, BundleField
  <2>3. \A f \in BundleFields \ {"entries"} : bundle'[f] = bundle[f]
    BY <1>9, <2>1, BundleField
  <2> QED
    BY <2>1, <2>2, <2>3
<1>11. DOMAIN x = EntryFields \cup {"created", "proof"} /\ x.seq = k
  BY <1>2, <1>x DEF Exported
<1>12. y.hash = x.hash /\ y.proof = other /\ y.seq = k
  BY <1>11, <1>y DEF EntryFields
<1>13. IsRow(es, m) /\ es[k] = y /\ \A j \in 1..m : j # k => es[j] = bundle.entries[j]
  BY <1>2, <1>e, RowReplaced
<1>14. IsRow(other, d) /\ other[r] = turned /\ \A j \in 1..d : j # r => other[j] = proof[j]
  <2>1. IsRow(proof, d)
    BY <1>6
  <2>2. IsRow(other, d)
    BY <1>7, <1>o, <2>1, RowReplaced
  <2>3. other[r] = turned
    BY <1>3, <1>o, Zenon
  <2>4. \A j \in 1..d : j # r => other[j] = proof[j]
    BY <1>7, <1>o, <2>1, RowReplaced
  <2> QED
    BY <2>2, <2>3, <2>4
<1>15. \/ proof[r] = [sibling |-> sibling, position |-> "left"]
          /\ other[r] = [sibling |-> sibling, position |-> "right"]
       \/ proof[r] = [sibling |-> sibling, position |-> "right"]
          /\ other[r] = [sibling |-> sibling, position |-> "left"]
  <2>1. CASE step = [sibling |-> sibling, position |-> "left"]
    <3>1. turned = [sibling |-> sibling, position |-> "right"]
      BY <1>t, <2>1 DEF Opposite
    <3> QED
      BY <1>14, <1>s, <2>1, <3>1
  <2>2. CASE step = [sibling |-> sibling, position |-> "right"]
    <3>1. turned = [sibling |-> sibling, position |-> "left"]
      BY <1>t, <2>2 DEF Opposite
    <3> QED
      BY <1>14, <1>s, <2>2, <3>1
  <2> QED
    BY <1>8, <2>1, <2>2
<1>16. Nodes(x.hash, other)[d] # Nodes(x.hash, proof)[d]
  <2>1. sibling # Nodes(x.hash, proof)[r - 1]
    BY <1>1, <1>x, <1>p, <1>s, <1>z
  <2>2. d \in Nat /\ IsRow(proof, d) /\ r \in 1..d
    BY <1>6, <1>7
  <2>3. IsRow(other, d) /\ \A j \in 1..d : j # r => other[j] = proof[j]
    BY <1>14
  <2> QED
    BY <1>15, <2>1, <2>2, <2>3, SwappedStepFails
<1>17. other # <<>> /\ ~VerifyMerkleProof(y.hash, other, cp.root)
  <2>1. Len(other) = d /\ DOMAIN other = 1..d
    BY <1>14, RowLength
  <2>2. Nodes(x.hash, proof)[d] = cp.root
    BY <1>5, <1>6 DEF VerifyMerkleProof
  <2>3. other # <<>>
    BY <1>7, <2>1
  <2> QED
    BY <1>12, <1>16, <2>1, <2>2, <2>3 DEF VerifyMerkleProof
<1>18. LeafIssues(es, cp, p) # {}
  <2>1. \A j \in 1..m : es[j].seq = j
    BY <1>2, <1>12, <1>13
  <2>2. es[k].proof = other /\ es[k].hash = y.hash
    BY <1>12, <1>13
  <2>3. LeafIssues(es, cp, p) = {} =>
          es[k].proof = <<>> \/ VerifyMerkleProof(es[k].hash, es[k].proof, cp.root)
    BY <1>5, <1>13, <2>1, LeafInOrder
  <2> QED
    BY <1>17, <2>2, <2>3
<1>19. Issues(bundle') # {}
  <2>b. PICK b : b = bundle'
    OBVIOUS
  <2>1. c \in DOMAIN b.checkpoints /\ b.checkpoints[c] = cp /\ b.entries = es
    BY <1>4, <1>10, <1>c, <2>b, ExportedCheckpoints
  <2>2. p \in DOMAIN b.checkpoints[c].leaves
    BY <1>5, <2>1, RowLength
  <2>3. Issues(b) # {}
    BY <1>18, <2>1, <2>2, LeafIssueFound
  <2> QED
    BY <2>b, <2>3
<1> QED
  BY <1>9, <1>19

\* An exported graph that is not the one rebuilt from the export is noticed.
LEMMA GraphDiffers ==
  ASSUME NEW b, NEW e \in DOMAIN b.graphs, NEW rebuilt,
         rebuilt = GraphHash(e, b.rows[e], b.events[e]),
         rebuilt # b.graphs[e].hash \/ rebuilt # b.graphs[e].graph
  PROVE  Issues(b) # {}
<1>1. ASSUME NEW graph, NEW n
      PROVE  GraphIssues(b, e, graph, n) # {}
  BY DEF GraphIssues, IssueIf
<1> QED
  BY <1>1, GraphIssueFound

\* Another hash, graph, status or event is noticed: the graph no longer is the
\* one of its execution.
LEMMA GraphAlterationFails ==
  ASSUME DbInv, ExportInv, pc = "done", AlterGraph
  PROVE  altered' = "graph" /\ Issues(bundle') # {}
<1>1. PICK e \in DOMAIN bundle.graphs :
        \/ Alter("graph", [bundle EXCEPT !.graphs[e].hash = <<"altered">>])
        \/ Alter("graph", [bundle EXCEPT !.graphs[e].graph = <<"altered">>])
        \/ Alter("graph", [bundle EXCEPT !.rows[e] = "altered"])
        \/ Alter("graph", [bundle EXCEPT !.events[e] = Tail(@)])
        \/ \E i \in DOMAIN bundle.events[e] :
             Alter("graph", [bundle EXCEPT !.events[e][i].type = "altered"])
  BY DEF AlterGraph
<1>r. PICK rows : rows = bundle.rows
  OBVIOUS
<1>v. PICK evs : evs = bundle.events
  OBVIOUS
<1>s. PICK graphs : graphs = bundle.graphs
  OBVIOUS
<1>b. PICK b : b = bundle'
  OBVIOUS
<1>g. PICK g : g = GraphHash(e, rows[e], evs[e])
  OBVIOUS
<1>2. /\ e \in DOMAIN graphs /\ e \in DOMAIN rows /\ e \in DOMAIN evs
      /\ evs[e] \in Seq(EventRecord) /\ evs[e] # <<>>
      /\ rows[e] \in Statuses
      /\ graphs[e] = [hash |-> g, graph |-> g]
  <2>1. e \in DOMAIN graphs /\ e \in DOMAIN evs /\ evs[e] # <<>> /\ e \in DOMAIN rows
    BY <1>r, <1>v, <1>s DEF ExportInv, GraphsRead, EventsDone
  <2>2. evs[e] \in Seq(EventRecord)
    BY <2>1, <1>v DEF ExportInv, GraphsRead
  <2>3. rows[e] \in Statuses
    BY <2>1, <1>r DEF ExportInv, RowsRead
  <2>4. graphs[e] = [hash |-> g, graph |-> g]
    BY <2>1, <1>r, <1>v, <1>s, <1>g DEF ExportInv, GraphsRead
  <2> QED
    BY <2>1, <2>2, <2>3, <2>4
<1>3. /\ bundle = [f \in BundleFields |-> bundle[f]]
      /\ "graphs" \in BundleFields /\ "rows" \in BundleFields /\ "events" \in BundleFields
  BY DEF ExportInv, BundleFields
<1>4. ASSUME NEW field \in {"graphs", "rows", "events"}, NEW value,
             bundle' = [bundle EXCEPT ![field] = value]
      PROVE  /\ b.graphs = IF field = "graphs" THEN value ELSE graphs
             /\ b.rows = IF field = "rows" THEN value ELSE rows
             /\ b.events = IF field = "events" THEN value ELSE evs
  <2>1. field \in BundleFields
    BY <1>3
  <2>2. b[field] = value
    BY <1>3, <1>4, <2>1, <1>b, BundleField
  <2>3. \A f \in BundleFields \ {field} : b[f] = bundle[f]
    BY <1>3, <1>4, <2>1, <1>b, BundleField
  <2> QED
    BY <1>3, <2>2, <2>3, <1>r, <1>v, <1>s
<1>5. ASSUME NEW value, bundle' = [bundle EXCEPT !["graphs"] = value],
             e \in DOMAIN value, value[e].hash # g \/ value[e].graph # g
      PROVE  Issues(b) # {}
  <2>1. b.graphs = value /\ b.rows = rows /\ b.events = evs
    BY <1>4, <1>5
  <2>2. g = GraphHash(e, b.rows[e], b.events[e]) /\ e \in DOMAIN b.graphs
    BY <2>1, <1>g, <1>5
  <2>3. g # b.graphs[e].hash \/ g # b.graphs[e].graph
    BY <2>1, <1>5
  <2> QED
    BY <2>2, <2>3, GraphDiffers
<1>6. ASSUME NEW other, other # g, other = GraphHash(e, b.rows[e], b.events[e]),
             b.graphs = graphs
      PROVE  Issues(b) # {}
  <2>1. e \in DOMAIN b.graphs /\ other # b.graphs[e].hash
    BY <1>2, <1>6
  <2> QED
    BY <2>1, <1>6, GraphDiffers
<1>7. g # <<"altered">>
  BY <1>g, OtherTuples
<1>8. CASE Alter("graph", [bundle EXCEPT !.graphs[e].hash = <<"altered">>])
  <2> PICK new : new = [graphs[e] EXCEPT !["hash"] = <<"altered">>]
    OBVIOUS
  <2> PICK value : value = [graphs EXCEPT ![e] = new]
    OBVIOUS
  <2>1. altered' = "graph" /\ bundle' = [bundle EXCEPT !["graphs"] = value]
    BY <1>8, <1>s DEF Alter
  <2>2. e \in DOMAIN value /\ value[e].hash = <<"altered">>
    BY <1>2
  <2> QED
    BY <1>5, <1>7, <1>b, <2>1, <2>2
<1>9. CASE Alter("graph", [bundle EXCEPT !.graphs[e].graph = <<"altered">>])
  <2> PICK new : new = [graphs[e] EXCEPT !["graph"] = <<"altered">>]
    OBVIOUS
  <2> PICK value : value = [graphs EXCEPT ![e] = new]
    OBVIOUS
  <2>1. altered' = "graph" /\ bundle' = [bundle EXCEPT !["graphs"] = value]
    BY <1>9, <1>s DEF Alter
  <2>2. e \in DOMAIN value /\ value[e].graph = <<"altered">>
    BY <1>2
  <2> QED
    BY <1>5, <1>7, <1>b, <2>1, <2>2
<1>10. CASE Alter("graph", [bundle EXCEPT !.rows[e] = "altered"])
  <2> PICK value : value = [rows EXCEPT ![e] = "altered"]
    OBVIOUS
  <2>1. altered' = "graph" /\ bundle' = [bundle EXCEPT !["rows"] = value]
    BY <1>10, <1>r DEF Alter
  <2>2. b.graphs = graphs /\ b.rows = value /\ b.events = evs
    BY <1>4, <2>1
  <2>3. rows[e] # "altered" /\ value[e] = "altered"
    BY <1>2 DEF Statuses, TerminalStatuses
  <2> PICK other : other = GraphHash(e, b.rows[e], b.events[e])
    OBVIOUS
  <2>4. other # g
    BY <2>2, <2>3, <1>g DEF GraphHash
  <2> QED
    BY <1>6, <1>b, <2>1, <2>2, <2>4
<1>11. ASSUME NEW es, es # evs[e],
              Alter("graph", [bundle EXCEPT !["events"] = [evs EXCEPT ![e] = es]])
       PROVE  altered' = "graph" /\ Issues(b) # {}
  <2> PICK value : value = [evs EXCEPT ![e] = es]
    OBVIOUS
  <2>1. altered' = "graph" /\ bundle' = [bundle EXCEPT !["events"] = value]
    BY <1>11 DEF Alter
  <2>2. b.graphs = graphs /\ b.rows = rows /\ b.events = value
    BY <1>4, <2>1
  <2>3. value[e] = es
    BY <1>2
  <2> PICK other : other = GraphHash(e, b.rows[e], b.events[e])
    OBVIOUS
  <2>4. other # g
    BY <2>2, <2>3, <1>g, <1>11 DEF GraphHash
  <2> QED
    BY <1>6, <2>1, <2>2, <2>4
<1>12. CASE Alter("graph", [bundle EXCEPT !.events[e] = Tail(@)])
  <2> PICK es : es = Tail(evs[e])
    OBVIOUS
  <2>1. Alter("graph", [bundle EXCEPT !["events"] = [evs EXCEPT ![e] = es]])
    BY <1>12, <1>v
  <2>2. es # evs[e]
    <3>1. evs[e] \in Seq(EventRecord) /\ evs[e] # <<>>
      BY <1>2
    <3>2. Len(es) = Len(evs[e]) - 1 /\ Len(evs[e]) \in Nat
      BY <3>1, HeadTailProperties
    <3>3. Len(es) # Len(evs[e])
      BY <3>2
    <3> QED
      BY <3>3, Zenon
  <2> QED
    BY <1>11, <1>b, <2>1, <2>2
<1>13. CASE \E i \in DOMAIN bundle.events[e] :
              Alter("graph", [bundle EXCEPT !.events[e][i].type = "altered"])
  <2>1. PICK i \in DOMAIN bundle.events[e] :
          Alter("graph", [bundle EXCEPT !.events[e][i].type = "altered"])
    BY <1>13
  <2> PICK ev : ev = [evs[e][i] EXCEPT !["type"] = "altered"]
    OBVIOUS
  <2> PICK es : es = [evs[e] EXCEPT ![i] = ev]
    OBVIOUS
  <2>2. Alter("graph", [bundle EXCEPT !["events"] = [evs EXCEPT ![e] = es]])
    BY <2>1, <1>v
  <2>3. es # evs[e]
    <3>1. i \in DOMAIN evs[e] /\ evs[e][i] \in EventRecord
      BY <1>2, <1>v
    <3>2. evs[e][i].type # "altered" /\ ev.type = "altered"
      BY <3>1 DEF EventRecord
    <3> QED
      BY <3>1, <3>2
  <2> QED
    BY <1>11, <1>b, <2>2, <2>3
<1> QED
  BY <1>1, <1>8, <1>9, <1>10, <1>12, <1>13, <1>b

\* One alteration of a bundle that verified before makes it fail.
LEMMA AlterStep ==
  ASSUME DbInv, FlagsTyped, ExportInv, AlterBundle
  PROVE  FlagsTyped' /\ altered' # "none" /\ Issues(bundle') # {} /\ UNCHANGED dbVars
<1>1. pc = "done" /\ (AlterEntry \/ AlterProof \/ AlterCheckpoint \/ AlterGraph)
  BY DEF AlterBundle
<1>2. /\ altered' \in {"field", "sibling", "root", "leaf", "graph"}
      /\ Issues(bundle') # {}
  <2>1. CASE AlterEntry
    BY <1>1, <2>1, EntryAlterationFails
  <2>2. CASE AlterProof
    BY <1>1, <2>2, ProofAlterationFails
  <2>3. CASE AlterCheckpoint
    BY <1>1, <2>3, CheckpointAlterationFails
  <2>4. CASE AlterGraph
    BY <1>1, <2>4, GraphAlterationFails
  <2> QED
    BY <1>1, <2>1, <2>2, <2>3, <2>4
<1>3. UNCHANGED <<dbVars, pc, record, linked, todo, races, stale>>
  <2>1. \A kind, b : Alter(kind, b) => UNCHANGED <<dbVars, pc, record, linked, todo, races, stale>>
    BY DEF Alter, raceVars
  <2>2. CASE AlterEntry
    BY <2>1, <2>2 DEF AlterEntry
  <2>3. CASE AlterProof
    BY <2>1, <2>3 DEF AlterProof
  <2>4. CASE AlterCheckpoint
    BY <2>1, <2>4 DEF AlterCheckpoint
  <2>5. CASE AlterGraph
    BY <2>1, <2>5 DEF AlterGraph
  <2> QED
    BY <1>1, <2>2, <2>3, <2>4, <2>5
<1>4. FlagsTyped'
  BY <1>1, <1>2, <1>3 DEF FlagsTyped
<1> QED
  BY <1>2, <1>3, <1>4

-----------------------------------------------------------------------------
(* The inductive invariant.                                                *)

\* A step of the request that reads what the tables hold keeps the tables and
\* what was read before.
LEMMA RequestStep ==
  ASSUME DbInv, FlagsTyped, ExportInv, altered = "none",
         \/ \E e \in Executions : ReadRow(e) \/ ReadEvents(e)
         \/ ReadRecordEvents \/ ReadRecordEntries \/ ReadTable \/ BeginEvents \/ FinishExport
  PROVE  DbInv' /\ FlagsTyped' /\ ExportInv' /\ altered' = "none"
<1>1. UNCHANGED dbVars
  BY DEF ReadRow, ReadEvents, ReadRecordEvents, ReadRecordEntries, ReadTable, BeginEvents,
         FinishExport
<1>2. DbInv'
  BY <1>1, DbKept
<1>3. FlagsTyped' /\ ExportInv' /\ altered' = "none"
  BY ReadRowStep, ReadEventsStep, ReadRecordEventsStep, ReadRecordEntriesStep, ReadTableStep,
     BeginEventsStep, FinishExportStep
<1> QED
  BY <1>2, <1>3

\* Only a finished export is altered, and then no step is left to take.
LEMMA AlteredStays ==
  ASSUME FlagsTyped, altered # "none", Next
  PROVE  FALSE
<1>1. pc = "done"
  BY DEF FlagsTyped
<1> QED
  BY <1>1 DEF Next, OpenExecution, RecordEvent, AppendEntry, Resume, Seal, Commits, ReadRow,
              ReadRecordEvents, ReadRecordEntries, ReadTable, Read, BeginEvents, ReadEvents,
              FinishExport, AlterBundle, AlterEntry, AlterProof, AlterCheckpoint, AlterGraph,
              Alter

\* The tables are in shape at every moment, what an export has read is the
\* first part of them, and an altered bundle fails.
THEOREM EvidenceInductive == Spec => []IInv
<1>1. Init => IInv
  BY DbInit, RequestInit DEF IInv
<1>2. ASSUME IInv, [Next]_vars PROVE IInv'
  <2>1. DbInv /\ FlagsTyped
    BY <1>2 DEF IInv
  <2>2. CASE UNCHANGED vars
    <3>1. UNCHANGED dbVars /\ UNCHANGED requestVars /\ races' = races /\ stale' = stale
      BY <2>2 DEF vars, raceVars
    <3>2. DbInv'
      BY <2>1, <3>1, DbKept
    <3>3. /\ status' = status /\ events' = events /\ ledger' = ledger
          /\ checkpoints' = checkpoints /\ pc' = pc /\ record' = record /\ linked' = linked
          /\ todo' = todo /\ bundle' = bundle /\ altered' = altered
      BY <3>1 DEF dbVars, requestVars
    <3>4. FlagsTyped'
      BY <2>1, <3>1, <3>3 DEF FlagsTyped
    <3>5. ExportInv => ExportInv'
      <4>1. SealRead => SealRead'
        BY <3>3 DEF SealRead, Got
      <4>2. EntriesRead => EntriesRead'
        BY <3>1, <3>3 DEF EntriesRead, Got
      <4>3. CheckpointsRead => CheckpointsRead'
        BY <3>1, <3>3 DEF CheckpointsRead, Got
      <4>4. RowsRead => RowsRead'
        BY <3>1, <3>3 DEF RowsRead, Got
      <4>5. GraphsRead => GraphsRead'
        BY <3>1, <3>3 DEF GraphsRead, EventsDone, Linked
      <4>6. bundle = [f \in BundleFields |-> bundle[f]]
              => bundle' = [f \in BundleFields |-> bundle'[f]]
        BY <3>3
      <4> QED
        BY <4>1, <4>2, <4>3, <4>4, <4>5, <4>6 DEF ExportInv
    <3>6. Issues(bundle') = Issues(bundle)
      BY <3>3
    <3> QED
      BY <1>2, <3>2, <3>3, <3>4, <3>5, <3>6 DEF IInv
  <2>3. CASE Next
    <3>1. altered = "none" /\ ExportInv
      BY <1>2, <2>1, <2>3, AlteredStays DEF IInv
    <3>2. CASE OtherCommit
      <4>1. DbInv' /\ Grows
        BY <2>1, <3>2, CommitStep
      <4>2. ChainShape(ledger)'
        BY <4>1 DEF DbInv
      <4>3. FlagsTyped' /\ ExportInv' /\ altered' = "none"
        BY <2>1, <3>1, <4>1, <4>2, GrowsKeepsExport
      <4> QED
        BY <4>1, <4>3 DEF IInv
    <3>3. CASE \/ \E e \in Executions : ReadRow(e) \/ ReadEvents(e)
               \/ ReadRecordEvents \/ ReadRecordEntries \/ ReadTable \/ BeginEvents
               \/ FinishExport
      BY <2>1, <3>1, <3>3, RequestStep DEF IInv
    <3>4. CASE AlterBundle
      <4>1. FlagsTyped' /\ altered' # "none" /\ Issues(bundle') # {} /\ UNCHANGED dbVars
        BY <2>1, <3>1, <3>4, AlterStep
      <4>2. DbInv'
        BY <2>1, <4>1, DbKept
      <4> QED
        BY <4>1, <4>2 DEF IInv
    <3> QED
      BY <2>3, <3>2, <3>3, <3>4 DEF Next, OtherCommit
  <2> QED
    BY <1>2, <2>2, <2>3
<1> QED
  BY <1>1, <1>2, PTL DEF Spec

\* The type invariant, from the shape of the tables.
LEMMA InductiveTypes ==
  ASSUME IInv
  PROVE  TypeOK
<1>1. DbInv /\ FlagsTyped
  BY DEF IInv
<1>2. PICK n \in Nat : n = Len(ledger)
  BY <1>1 DEF DbInv, ChainShape, IsRow
<1>3. PICK q \in Nat : q = Len(checkpoints)
  BY <1>1 DEF DbInv, CheckpointShape, IsRow
<1>4. PICK I \in Nat \ {0} : I = Interval
  BY EvidenceIntervalAssumption
<1>5. finalEntry \in [Executions -> 0..Len(ledger)]
  BY <1>1, <1>2 DEF DbInv, RowsTyped
<1>6. Len(checkpoints) = Len(ledger) \div Interval
  <2>1. q * I <= n /\ n < (q + 1) * I
    BY <1>1, <1>2, <1>3, <1>4 DEF DbInv, CheckpointShape
  <2>2. n \div I = q
    BY <2>1, SpanQuotient
  <2> QED
    BY <1>2, <1>3, <1>4, <2>2
<1>7. DOMAIN checkpoints = 1..Len(checkpoints)
  BY <1>1, RowLength DEF DbInv, CheckpointShape
<1>8. \A k \in DOMAIN checkpoints :
        checkpoints[k].from = (k - 1) * Interval + 1 /\ checkpoints[k].through = k * Interval
  BY <1>1, <1>7 DEF DbInv, CheckpointShape, SpanCheckpoint
<1> QED
  BY <1>1, <1>5, <1>6, <1>8 DEF TypeOK, FlagsTyped, DbInv, RowsTyped

\* final_entry_id refers to an entry of the chain and every completed interval
\* of it has its checkpoint (appendLedgerEntry, maybeCreateMerkleCheckpoint),
\* whatever the interval and however many executions there are.
THEOREM EvidenceTypes == Spec => []TypeOK
BY EvidenceInductive, InductiveTypes, PTL

\* "Provenance Verified" is about the events in the bundle, whatever is
\* committed between the statements of getVerityRecord and of the export.
THEOREM EvidenceVerified == Spec => []VerifiedRecordIsSound
BY EvidenceInductive, InductiveVerified, PTL

\* A bundle that verified before fails verifyEvidenceBundle after any one
\* alteration of a hashed field, a proof, a checkpoint or a graph.
THEOREM EvidenceAlterations == Spec => []AlterationFails
<1>1. IInv => AlterationFails
  BY DEF IInv, AlterationFails
<1> QED
  BY <1>1, EvidenceInductive, PTL

-----------------------------------------------------------------------------
(* The verdict on an export that no commit fell into.                      *)

\* A union of nothing but empty sets.
LEMMA EmptyUnion ==
  ASSUME NEW S, \A s \in S : s = {}
  PROVE  UNION S = {}
OBVIOUS

\* An entry is in one interval only.
LEMMA OneCheckpoint ==
  ASSUME NEW I \in Nat \ {0}, NEW c \in Nat \ {0}, NEW d \in Nat \ {0},
         NEW i \in 1..I, NEW j \in 1..I, (c - 1) * I + i = (d - 1) * I + j
  PROVE  c = d
<1>1. PICK p \in Nat : p = c - 1
  OBVIOUS
<1>2. PICK q \in Nat : q = d - 1
  OBVIOUS
<1>3. p * I \in Nat /\ q * I \in Nat
  OBVIOUS
<1>4. PICK n \in Nat : n = p * I + i - 1
  BY <1>3
<1>5. n = q * I + j - 1
  BY <1>1, <1>2, <1>4
<1>6. p * I <= n /\ n < (p + 1) * I
  <2>1. (p + 1) * I = p * I + I
    OBVIOUS
  <2> QED
    BY <1>3, <1>4, <2>1
<1>7. q * I <= n /\ n < (q + 1) * I
  <2>1. (q + 1) * I = q * I + I
    OBVIOUS
  <2> QED
    BY <1>3, <1>5, <2>1
<1>8. n \div I = p /\ n \div I = q
  BY <1>6, <1>7, SpanQuotient
<1> QED
  BY <1>1, <1>2, <1>8

\* The chain of an export is in order.
LEMMA ExportedChainVerifies ==
  ASSUME DbInv, ExportInv, pc = "done"
  PROVE  ChainIssues(bundle.entries) = {}
<1>m. PICK m \in Nat : m = Len(bundle.entries)
  BY ExportedEntries
<1>e. PICK es : es = bundle.entries
  OBVIOUS
<1>s. PICK s : s = Sorted(es)
  OBVIOUS
<1>3. s = es
  <2>1. IsRow(es, m) /\ \A n \in 1..m : es[n].seq = n
    BY <1>m, <1>e, ExportedEntries
  <2> QED
    BY <1>s, <2>1, SortedInOrder
<1>1. DOMAIN s = 1..m /\ \A n \in 1..m : s[n].seq = n
  BY <1>3, <1>m, <1>e, ExportedEntries
<1>2. \A n \in 1..m : /\ s[n].created = s[n].at /\ s[n].hash = EntryHash(s[n])
                      /\ s[n].prev = IF n = 1 THEN Null ELSE s[n - 1].hash
  BY <1>3, <1>m, <1>e, ExportedEntries DEF Exported
<1> DEFINE gap(i) == IF i = 1 THEN IssueIf(s[1].seq # 1, "SEQUENCE_START", s[1].seq)
                     ELSE IssueIf(s[i].seq # s[i - 1].seq + 1, "SEQUENCE_GAP", s[i].seq)
           parts == {EntryIssues(s[i], IF i = 1 THEN Null ELSE s[i - 1].hash) \cup gap(i) :
                       i \in DOMAIN s}
<1>4. ChainIssues(es) = UNION parts
  BY <1>s, Zenon DEF ChainIssues
<1>5. ASSUME NEW i \in 1..m PROVE gap(i) = {}
  <2>1. i # 1 => i - 1 \in 1..m
    BY <1>m
  <2>2. s[i].seq = i /\ (i # 1 => s[i - 1].seq = i - 1)
    BY <1>1, <2>1
  <2>3. CASE i = 1
    BY <2>2, <2>3 DEF IssueIf
  <2>4. CASE i # 1
    <3>1. s[i].seq = s[i - 1].seq + 1
      BY <2>2, <2>4
    <3> QED
      BY <2>4, <3>1 DEF IssueIf
  <2> QED
    BY <2>3, <2>4
<1>6. ASSUME NEW i \in 1..m
      PROVE  EntryIssues(s[i], IF i = 1 THEN Null ELSE s[i - 1].hash) = {}
  <2> PICK prev : prev = IF i = 1 THEN Null ELSE s[i - 1].hash
    OBVIOUS
  <2>1. EntryHash(s[i]) = s[i].hash /\ s[i].prev = prev /\ s[i].created = s[i].at
    BY <1>2
  <2>2. EntryIssues(s[i], prev) = {}
    BY <2>1 DEF EntryIssues, IssueIf
  <2> QED
    BY <2>2
<1> HIDE DEF gap
<1>7. \A part \in parts : part = {}
  BY <1>1, <1>5, <1>6
<1> HIDE DEF parts
<1> QED
  BY <1>3, <1>4, <1>7, <1>e, EmptyUnion

\* The checkpoints of an export agree with its entries, if all of those were
\* read that they cover.
LEMMA ExportedCheckpointsVerify ==
  ASSUME DbInv, ExportInv, pc = "done", Len(bundle.entries) = Len(ledger),
         NEW c \in DOMAIN bundle.checkpoints
  PROVE  CheckpointIssues(bundle.entries, bundle.checkpoints[c]) = {}
<1>m. PICK m \in Nat : m = Len(bundle.entries)
  BY ExportedEntries
<1>e. PICK es : es = bundle.entries
  OBVIOUS
<1>c. PICK cp : cp = bundle.checkpoints[c]
  OBVIOUS
<1>i. PICK I \in Nat \ {0} : I = Interval
  BY EvidenceIntervalAssumption
<1>s. PICK s : s = (c - 1) * I
  OBVIOUS
<1>1. IsRow(es, m) /\ DOMAIN es = 1..m /\ \A n \in 1..m : es[n].seq = n
  BY <1>m, <1>e, ExportedEntries
<1>2. /\ c \in 1..Len(bundle.checkpoints) /\ s \in Nat /\ cp.from = s + 1
      /\ IsRow(cp.leaves, I) /\ cp.root = MerkleRoot(cp.leaves)
      /\ \A i \in 1..I : s + i \in 1..m /\ cp.leaves[i] = ledger[s + i].hash
  <2>1. c \in 1..Len(bundle.checkpoints)
    BY ExportedCheckpoints
  <2> QED
    BY <1>m, <1>c, <1>i, <1>s, <2>1, ExportedCheckpoints
<1>3. DOMAIN cp.leaves = 1..I
  BY <1>2, RowLength
<1>4. ASSUME NEW i \in 1..I PROVE LeafIssues(es, cp, i) = {}
  <2>n. PICK n : n = s + i
    OBVIOUS
  <2>1. n \in 1..m /\ cp.leaves[i] = ledger[n].hash /\ n = cp.from + i - 1
    BY <1>2, <2>n
  <2>2. es[n].hash = ledger[n].hash /\ Exported(n) /\ n \in 1..Len(bundle.entries)
    BY <2>1, <1>m, <1>e, ExportedEntries DEF Exported, EntryFields
  <2>3. es[n].proof = <<>> \/ VerifyMerkleProof(es[n].hash, es[n].proof, cp.root)
    <3>1. SUFFICES ASSUME es[n].proof # <<>>
                   PROVE  VerifyMerkleProof(es[n].hash, es[n].proof, cp.root)
      BY Zenon
    <3>2. PICK d \in 1..Len(bundle.checkpoints) :
            /\ d \in CheckpointOf(n, bundle.checkpoints)
            /\ es[n].proof = MerkleProof(bundle.checkpoints[d].leaves,
                                         LeafIndex(n, bundle.checkpoints[d].from))
      BY <2>2, <3>1, <1>e DEF Exported
    <3>p. PICK dp : dp = bundle.checkpoints[d]
      OBVIOUS
    <3>j. PICK j : j = LeafIndex(n, dp.from)
      OBVIOUS
    <3>3. j \in 1..Interval /\ n = (d - 1) * Interval + j
      BY <2>2, <3>2, <3>p, <3>j, CoveredEntry
    <3>4. VerifyMerkleProof(bundle.entries[n].hash, MerkleProof(dp.leaves, j), dp.root)
      BY <2>2, <3>2, <3>p, <3>j, CoveredEntry
    <3>5. d = c
      <4>1. (c - 1) * I + i = (d - 1) * I + j /\ j \in 1..I
        BY <1>i, <1>s, <2>n, <3>3
      <4>2. c \in Nat \ {0} /\ d \in Nat \ {0}
        <5>1. Len(bundle.checkpoints) \in Nat
          BY ExportedCheckpoints DEF IsRow
        <5> QED
          BY <1>2, <5>1
      <4> QED
        BY <4>1, <4>2, OneCheckpoint
    <3>6. es[n].proof = MerkleProof(dp.leaves, j) /\ dp = cp
      BY <1>c, <3>2, <3>p, <3>j, <3>5
    <3> QED
      BY <1>e, <3>4, <3>6, Zenon
  <2>4. es[n].hash = cp.leaves[i]
    BY <2>1, <2>2
  <2>5. IsRow(es, m) /\ \A k \in 1..m : es[k].seq = k
    BY <1>1
  <2> QED
    BY <2>1, <2>3, <2>4, <2>5, LeafInOrder
<1>5. \A o \in {LeafIssues(es, cp, i) : i \in DOMAIN cp.leaves} : o = {}
  BY <1>3, <1>4
<1>6. UNION {LeafIssues(es, cp, i) : i \in DOMAIN cp.leaves} = {}
  BY <1>5, EmptyUnion
<1>7. IssueIf(MerkleRoot(cp.leaves) # cp.root, "MERKLE_ROOT_MISMATCH", cp.through) = {}
  BY <1>2 DEF IssueIf
<1> QED
  BY <1>6, <1>7, <1>c, <1>e DEF CheckpointIssues

\* Each graph of an export that no commit fell into is the one rebuilt from it:
\* only an entry can differ.
LEMMA ExportedGraph ==
  ASSUME DbInv, ExportInv, pc = "done", stale = FALSE, NEW e \in DOMAIN bundle.graphs,
         NEW rebuilt, rebuilt = GraphHash(e, status[e], events[e])
  PROVE  /\ e \in DOMAIN bundle.rows /\ HasEvents(bundle, e)
         /\ \A graph, n : GraphIssues(bundle, e, graph, n)
                            = IssueIf(LedgerDiffers(graph, rebuilt), "GRAPH_LEDGER_MISMATCH", n)
<1>1. e \in DOMAIN bundle.events /\ bundle.events[e] # <<>> /\ e \in DOMAIN bundle.rows
  BY DEF ExportInv, GraphsRead, EventsDone
<1>2. bundle.rows[e] = status[e] /\ bundle.events[e] = events[e]
  BY <1>1 DEF ExportInv, GraphsRead, RowsRead, Got
<1>3. bundle.graphs[e] = [hash |-> rebuilt, graph |-> rebuilt]
  BY <1>2 DEF ExportInv, GraphsRead
<1>4. ~Unresolved(bundle.events[e])
  <2> PICK es : es = bundle.events[e]
    OBVIOUS
  <2>1. es \in Seq(EventRecord) /\ \A i \in 1..Len(es) : es[i].id = i /\ es[i].parents \subseteq 1..(i - 1)
    BY <1>1 DEF ExportInv, GraphsRead, Linked
  <2>2. DOMAIN es = 1..Len(es) /\ Len(es) \in Nat
    BY <2>1, LenProperties
  <2>3. 1..Len(es) \subseteq {es[j].id : j \in DOMAIN es}
    BY <2>1, <2>2
  <2>4. \A i \in DOMAIN es : es[i].parents \subseteq {es[j].id : j \in DOMAIN es}
    <3> TAKE i \in DOMAIN es
    <3>1. es[i].parents \subseteq 1..(i - 1) /\ 1..(i - 1) \subseteq 1..Len(es)
      BY <2>1, <2>2
    <3> QED
      BY <2>3, <3>1
  <2>5. ~Unresolved(es)
    BY <2>4, Zenon DEF Unresolved
  <2> QED
    BY <2>5
<1>5. rebuilt = GraphHash(e, bundle.rows[e], bundle.events[e])
  BY <1>2
<1>6. bundle.graphs[e].hash = rebuilt /\ bundle.graphs[e].graph = rebuilt
  BY <1>3
<1>7. ASSUME NEW graph, NEW n
      PROVE  GraphIssues(bundle, e, graph, n)
               = IssueIf(LedgerDiffers(graph, rebuilt), "GRAPH_LEDGER_MISMATCH", n)
  <2>1. GraphIssues(bundle, e, graph, n)
          = (IssueIf(rebuilt # bundle.graphs[e].hash, "GRAPH_HASH_MISMATCH", n)
             \cup IssueIf(\/ bundle.graphs[e].graph # bundle.graphs[e].hash
                          \/ bundle.graphs[e].graph # rebuilt, "GRAPH_EVIDENCE_MISMATCH", n))
             \cup IssueIf(LedgerDiffers(graph, rebuilt), "GRAPH_LEDGER_MISMATCH", n)
    BY <1>4, <1>5, Zenon DEF GraphIssues
  <2>2. IssueIf(rebuilt # bundle.graphs[e].hash, "GRAPH_HASH_MISMATCH", n) = {}
    BY <1>6 DEF IssueIf
  <2>3. IssueIf(\/ bundle.graphs[e].graph # bundle.graphs[e].hash
                \/ bundle.graphs[e].graph # rebuilt, "GRAPH_EVIDENCE_MISMATCH", n) = {}
    BY <1>6 DEF IssueIf
  <2> QED
    BY <2>1, <2>2, <2>3
<1> QED
  BY <1>1, <1>7 DEF HasEvents

\* A sealing entry that was exported has its execution's graph with it.
LEMMA BearingExported ==
  ASSUME DbInv, ExportInv, pc = "done", stale = FALSE
  PROVE  /\ GraphBearing(bundle) = {n \in DOMAIN ledger : ledger[n].graph # Null}
         /\ \A k \in GraphBearing(bundle) :
              /\ k \in DOMAIN ledger
              /\ bundle.entries[k].exec = ledger[k].exec
              /\ bundle.entries[k].graph = ledger[k].graph
              /\ bundle.entries[k].seq = k
              /\ ledger[k].exec \in DOMAIN bundle.graphs
<1>1. Len(bundle.entries) = Len(ledger)
  BY DEF ExportInv, EntriesRead, Got
<1>2. DOMAIN bundle.entries = 1..Len(ledger) /\ DOMAIN ledger = 1..Len(ledger)
  <2>1. DOMAIN ledger = 1..Len(ledger)
    BY RowLength DEF DbInv, ChainShape
  <2> QED
    BY <1>1, <2>1, ExportedEntries
<1>3. ASSUME NEW n \in 1..Len(ledger)
      PROVE  /\ bundle.entries[n].exec = ledger[n].exec
             /\ bundle.entries[n].type = ledger[n].type
             /\ bundle.entries[n].graph = ledger[n].graph
             /\ bundle.entries[n].seq = n
             /\ ledger[n].graph # Null => ledger[n].type \in {"final", "failure"}
             /\ ledger[n].exec \in Executions
  <2>1. Exported(n) /\ EntryShape(ledger, n)
    BY <1>1, ExportedEntries
  <2> QED
    BY <2>1 DEF Exported, EntryFields, EntryShape
<1>4. GraphBearing(bundle) = {n \in DOMAIN ledger : ledger[n].graph # Null}
  BY <1>2, <1>3 DEF GraphBearing
<1>5. ASSUME NEW n \in 1..Len(ledger), ledger[n].graph # Null
      PROVE  ledger[n].exec \in DOMAIN bundle.graphs
  <2> PICK e : e = ledger[n].exec
    OBVIOUS
  <2>1. e \in Executions /\ status[e] # Absent /\ events[e] # <<>>
    BY <1>3, <1>5 DEF DbInv, Owned
  <2>2. e \in DOMAIN bundle.rows
    BY <2>1 DEF ExportInv, RowsRead, Got
  <2>3. e \in DOMAIN bundle.events
    BY <2>2 DEF ExportInv, GraphsRead, EventsDone
  <2>4. bundle.events[e] = events[e]
    BY <2>3 DEF ExportInv, GraphsRead
  <2> QED
    BY <2>1, <2>3, <2>4 DEF ExportInv, GraphsRead
<1> QED
  BY <1>2, <1>3, <1>4, <1>5

\* All that is reported of the graphs is what changed after it was sealed.
LEMMA ExportedGraphsVerify ==
  ASSUME DbInv, ExportInv, pc = "done", stale = FALSE
  PROVE  ExecutionGraphIssues(bundle) = {Issue("GRAPH_LEDGER_MISMATCH", n) : n \in Outdated}
<1>k. PICK bearing : bearing = GraphBearing(bundle)
  OBVIOUS
<1>1. /\ bearing = {n \in DOMAIN ledger : ledger[n].graph # Null}
      /\ \A k \in bearing :
           /\ k \in DOMAIN ledger
           /\ bundle.entries[k].exec = ledger[k].exec
           /\ bundle.entries[k].graph = ledger[k].graph
           /\ bundle.entries[k].seq = k
           /\ ledger[k].exec \in DOMAIN bundle.graphs
  BY <1>k, BearingExported
<1>2. ASSUME NEW k \in bearing
      PROVE  BearingIssues(bundle, k)
               = IF k \in Outdated THEN {Issue("GRAPH_LEDGER_MISMATCH", k)} ELSE {}
  <2>e. PICK e : e = ledger[k].exec
    OBVIOUS
  <2>g. PICK graph : graph = ledger[k].graph
    OBVIOUS
  <2>r. PICK rebuilt : rebuilt = GraphHash(e, status[e], events[e])
    OBVIOUS
  <2>1. bundle.entries[k].exec = e /\ bundle.entries[k].graph = graph
        /\ bundle.entries[k].seq = k /\ e \in DOMAIN bundle.graphs
        /\ graph # Null
    BY <1>1, <2>e, <2>g
  <2>2. e \in DOMAIN bundle.rows /\ HasEvents(bundle, e)
    BY <2>1, <2>r, ExportedGraph
  <2>3. GraphIssues(bundle, e, graph, k)
          = IssueIf(LedgerDiffers(graph, rebuilt), "GRAPH_LEDGER_MISMATCH", k)
    <3>1. e \in DOMAIN bundle.graphs
      BY <2>1
    <3>2. \A h, n : GraphIssues(bundle, e, h, n)
                      = IssueIf(LedgerDiffers(h, rebuilt), "GRAPH_LEDGER_MISMATCH", n)
      BY <2>r, <3>1, ExportedGraph
    <3> QED
      BY <3>2, Zenon
  <2>4. BearingIssues(bundle, k) = GraphIssues(bundle, e, graph, k)
    BY <2>1, <2>2 DEF BearingIssues, IssueIf
  <2>5. k \in Outdated <=> graph # rebuilt
    BY <1>1, <2>1, <2>e, <2>g, <2>r DEF Outdated
  <2>6. LedgerDiffers(graph, rebuilt) <=> k \in Outdated
    BY <2>1, <2>5 DEF LedgerDiffers
  <2> QED
    BY <2>3, <2>4, <2>6 DEF IssueIf
<1>3. ASSUME NEW e \in DOMAIN bundle.graphs
      PROVE  OtherGraphIssues(bundle, e) = {}
  <2>r. PICK rebuilt : rebuilt = GraphHash(e, status[e], events[e])
    OBVIOUS
  <2>1. e \in DOMAIN bundle.rows /\ HasEvents(bundle, e)
    BY <2>r, ExportedGraph
  <2>2. GraphIssues(bundle, e, Null, 0)
          = IssueIf(LedgerDiffers(Null, rebuilt), "GRAPH_LEDGER_MISMATCH", 0)
    BY <2>r, ExportedGraph
  <2>3. ~LedgerDiffers(Null, rebuilt)
    BY DEF LedgerDiffers
  <2> QED
    BY <2>1, <2>2, <2>3 DEF OtherGraphIssues, IssueIf
<1>4. Outdated \subseteq bearing
  BY <1>1 DEF Outdated
<1> DEFINE graphs == {BearingIssues(bundle, k) : k \in bearing}
           others == {OtherGraphIssues(bundle, e) :
                        e \in DOMAIN bundle.graphs \ {bundle.entries[k].exec : k \in bearing}}
<1>5. ExecutionGraphIssues(bundle) = (UNION graphs) \cup (UNION others)
  BY <1>k DEF ExecutionGraphIssues
<1>6. UNION others = {}
  <2>1. \A o \in others : o = {}
    BY <1>3
  <2> HIDE DEF others
  <2> QED
    BY <2>1, EmptyUnion
<1>7. UNION graphs = {Issue("GRAPH_LEDGER_MISMATCH", n) : n \in Outdated}
  <2>1. ASSUME NEW x \in UNION graphs
        PROVE  x \in {Issue("GRAPH_LEDGER_MISMATCH", n) : n \in Outdated}
    <3>1. PICK k \in bearing : x \in BearingIssues(bundle, k)
      BY <2>1
    <3> QED
      BY <1>2, <3>1
  <2>2. ASSUME NEW n \in Outdated
        PROVE  Issue("GRAPH_LEDGER_MISMATCH", n) \in UNION graphs
    <3>1. n \in bearing /\ Issue("GRAPH_LEDGER_MISMATCH", n) \in BearingIssues(bundle, n)
      BY <1>2, <1>4, <2>2
    <3>2. BearingIssues(bundle, n) \in graphs
      BY <3>1
    <3> HIDE DEF graphs
    <3> QED
      BY <3>1, <3>2
  <2> QED
    BY <2>1, <2>2
<1> QED
  BY <1>5, <1>6, <1>7

\* The verdict on an export that no commit fell into.
LEMMA InductiveVerdict ==
  ASSUME IInv
  PROVE  CleanVerdict
<1> SUFFICES ASSUME pc = "done", stale = FALSE, altered = "none"
             PROVE  Issues(bundle) = {Issue("GRAPH_LEDGER_MISMATCH", n) : n \in Outdated}
  BY DEF CleanVerdict, IInv, FlagsTyped
<1>1. DbInv /\ ExportInv
  BY DEF IInv
<1>2. Len(bundle.entries) = Len(ledger)
  BY <1>1 DEF ExportInv, EntriesRead, Got
<1> DEFINE orgs == {IssueIf(bundle.entries[k].org # Organization, "ORG_MISMATCH",
                            bundle.entries[k].seq) : k \in DOMAIN bundle.entries}
           cps == {CheckpointIssues(bundle.entries, bundle.checkpoints[k]) :
                     k \in DOMAIN bundle.checkpoints}
<1>3. Issues(bundle) = (((UNION orgs) \cup ChainIssues(bundle.entries)) \cup (UNION cps))
                          \cup ExecutionGraphIssues(bundle)
  BY DEF Issues
<1>4. UNION orgs = {}
  <2>1. \A k \in DOMAIN bundle.entries : bundle.entries[k].org = Organization
    BY <1>1, ExportedEntries, ExportedKinds
  <2>2. \A o \in orgs : o = {}
    BY <2>1 DEF IssueIf
  <2> HIDE DEF orgs
  <2> QED
    BY <2>2, EmptyUnion
<1>5. UNION cps = {}
  <2>1. \A o \in cps : o = {}
    BY <1>1, <1>2, ExportedCheckpointsVerify
  <2> HIDE DEF cps
  <2> QED
    BY <2>1, EmptyUnion
<1>6. ChainIssues(bundle.entries) = {}
  BY <1>1, ExportedChainVerifies
<1>7. ExecutionGraphIssues(bundle) = {Issue("GRAPH_LEDGER_MISMATCH", n) : n \in Outdated}
  BY <1>1, ExportedGraphsVerify
<1> HIDE DEF orgs, cps
<1> QED
  BY <1>3, <1>4, <1>5, <1>6, <1>7

\* exportOrganizationEvidence and verifyEvidenceBundle agree: an export that
\* nothing was committed during verifies, but for the sealing entries whose
\* execution has changed since, whatever the interval and however long the
\* chain.
THEOREM EvidenceVerdict == Spec => []CleanVerdict
BY EvidenceInductive, InductiveVerdict, PTL
=============================================================================
