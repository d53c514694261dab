-------------------------- MODULE MerkleTreeProofs ---------------------------
(***************************************************************************)
(* Proofs about the two Merkle trees, for every depth and every list of    *)
(* leaves: that insertion by insertion, in bulk and by rebuilding, they    *)
(* come to the same nodes, that proofs lead to the root, and what a root   *)
(* says of the leaves below it.                                            *)
(*                                                                         *)
(* What a recursive function computes is shown by the least number for     *)
(* which it would not hold: UpTo, from the well-foundedness of < on Nat.   *)
(***************************************************************************)
EXTENDS MerkleTree, WellFoundedInduction, TLAPS

-----------------------------------------------------------------------------
(* Induction *)

(* Every set of natural numbers has a least element.                       *)
LEMMA LeastNat ==
  ASSUME NEW T \in SUBSET Nat, T # {}
  PROVE \E x \in T : \A y \in T : x <= y
<1>1. PICK x \in T : \A y \in T : ~ (<<y, x>> \in OpToRel(<, Nat))
  BY NatLessThanWellFounded, WFMin
<1>2. \A y \in T : ~(y < x)
  BY <1>1 DEF OpToRel
<1>3. QED BY <1>2

(* Induction up to n, for a property given as a set.                       *)
LEMMA UpTo ==
  ASSUME NEW n \in Nat, NEW T, 0 \in T, \A m \in 0..(n - 1) : m \in T => m + 1 \in T
  PROVE 0..n \subseteq T
<1> SUFFICES ASSUME (0..n) \ T # {} PROVE FALSE OBVIOUS
<1>1. PICK x \in (0..n) \ T : \A y \in (0..n) \ T : x <= y
  BY LeastNat, (0..n) \ T \in SUBSET Nat
<1>2. x # 0 /\ x - 1 \in 0..(n-1) /\ x - 1 \in T BY <1>1
<1> QED BY <1>1, <1>2

-----------------------------------------------------------------------------
(* The recursive functions of MerkleTree satisfy their equations           *)

(* zeroValues, of the constructor.                                         *)
LEMMA ZeroValues ==
  zeroValues =
    [level \in 0..Depth |-> IF level = 0 THEN <<>>
                           ELSE Poseidon(zeroValues[level - 1], zeroValues[level - 1])]
<1> DEFINE Base == <<>>
           Step(x, level) == Poseidon(x, x)
           IsUpTo(f, m) == f = [level \in 0..m |-> IF level = 0 THEN Base
                                                  ELSE Step(f[level - 1], level)]
           T == {m \in 0..Depth : \E f : IsUpTo(f, m)}
<1>1. 0 \in T
  <2> DEFINE g == [level \in 0..0 |-> Base]
  <2> HIDE DEF Base, Step
  <2>1. IsUpTo(g, 0)
    OBVIOUS
  <2> HIDE DEF g
  <2> QED BY <2>1, DepthAssumption
<1>2. ASSUME NEW m \in 0..(Depth - 1), m \in T PROVE m + 1 \in T
  <2> HIDE DEF Base, Step
  <2>1. PICK f : IsUpTo(f, m)
    BY <1>2
  <2> DEFINE g == [level \in 0..(m + 1) |->
                      IF level = m + 1 THEN Step(f[m], level) ELSE f[level]]
  <2>2. IsUpTo(g, m + 1)
    BY <2>1
  <2> HIDE DEF g
  <2> QED BY <2>2, DepthAssumption
<1>3. \E f : IsUpTo(f, Depth)
  <2> HIDE DEF IsUpTo
  <2>1. 0..Depth \subseteq T
    <3> HIDE DEF T
    <3> QED BY <1>1, <1>2, UpTo, DepthAssumption
  <2> QED BY <2>1, DepthAssumption
<1> QED BY <1>3 DEF zeroValues

(* The halving of currentIndex.                                            *)
LEMMA Ancestors ==
  ASSUME NEW i
  PROVE  ancestors(i) =
           [level \in 0..Depth |-> IF level = 0 THEN i ELSE ancestors(i)[level - 1] \div 2]
<1> DEFINE Base == i
           Step(x, level) == x \div 2
           IsUpTo(f, m) == f = [level \in 0..m |-> IF level = 0 THEN Base
                                                  ELSE Step(f[level - 1], level)]
           T == {m \in 0..Depth : \E f : IsUpTo(f, m)}
<1>1. 0 \in T
  <2> DEFINE g == [level \in 0..0 |-> Base]
  <2> HIDE DEF Base, Step
  <2>1. IsUpTo(g, 0)
    OBVIOUS
  <2> HIDE DEF g
  <2> QED BY <2>1, DepthAssumption
<1>2. ASSUME NEW m \in 0..(Depth - 1), m \in T PROVE m + 1 \in T
  <2> HIDE DEF Base, Step
  <2>1. PICK f : IsUpTo(f, m)
    BY <1>2
  <2> DEFINE g == [level \in 0..(m + 1) |->
                      IF level = m + 1 THEN Step(f[m], level) ELSE f[level]]
  <2>2. IsUpTo(g, m + 1)
    BY <2>1
  <2> HIDE DEF g
  <2> QED BY <2>2, DepthAssumption
<1>3. \E f : IsUpTo(f, Depth)
  <2> HIDE DEF IsUpTo
  <2>1. 0..Depth \subseteq T
    <3> HIDE DEF T
    <3> QED BY <1>1, <1>2, UpTo, DepthAssumption
  <2> QED BY <2>1, DepthAssumption
<1> QED BY <1>3 DEF ancestors

(* updatePath sets one node on each level, the hash of its children.       *)
LEMMA InsertLayers ==
  ASSUME NEW tree, NEW leaf
  PROVE  insert(tree, leaf).layers =
           [level \in 0..Depth |->
               SetNode(tree.layers[level], ancestors(tree.nextIndex)[level],
                       IF level = 0 THEN leaf
                       ELSE HashOfChildren(insert(tree, leaf).layers[level - 1], level,
                                           ancestors(tree.nextIndex)[level]))]
<1> DEFINE path == ancestors(tree.nextIndex)
           Base == SetNode(tree.layers[0], path[0], leaf)
           Step(x, level) == SetNode(tree.layers[level], path[level], HashOfChildren(x, level, path[level]))
           IsUpTo(f, m) == f = [level \in 0..m |-> IF level = 0 THEN Base
                                                  ELSE Step(f[level - 1], level)]
           T == {m \in 0..Depth : \E f : IsUpTo(f, m)}
<1>1. 0 \in T
  <2> DEFINE g == [level \in 0..0 |-> Base]
  <2> HIDE DEF Base, Step
  <2>1. IsUpTo(g, 0)
    OBVIOUS
  <2> HIDE DEF g
  <2> QED BY <2>1, DepthAssumption
<1>2. ASSUME NEW m \in 0..(Depth - 1), m \in T PROVE m + 1 \in T
  <2> HIDE DEF Base, Step
  <2>1. PICK f : IsUpTo(f, m)
    BY <1>2
  <2> DEFINE g == [level \in 0..(m + 1) |->
                      IF level = m + 1 THEN Step(f[m], level) ELSE f[level]]
  <2>2. IsUpTo(g, m + 1)
    BY <2>1
  <2> HIDE DEF g
  <2> QED BY <2>2, DepthAssumption
<1>3. \E f : IsUpTo(f, Depth)
  <2> HIDE DEF IsUpTo
  <2>1. 0..Depth \subseteq T
    <3> HIDE DEF T
    <3> QED BY <1>1, <1>2, UpTo, DepthAssumption
  <2> QED BY <2>1, DepthAssumption
<1>4. PICK f : IsUpTo(f, Depth)
  BY <1>3
<1>5. \A level \in 0..Depth :
          (IF level = 0 THEN Base ELSE Step(f[level - 1], level)) =
              SetNode(tree.layers[level], path[level],
                      IF level = 0 THEN leaf ELSE HashOfChildren(f[level - 1], level, path[level]))
  OBVIOUS
<1>6. f = [level \in 0..Depth |->
              SetNode(tree.layers[level], path[level],
                      IF level = 0 THEN leaf ELSE HashOfChildren(f[level - 1], level, path[level]))]
  <2> HIDE DEF Base, Step
  <2> QED BY <1>4, <1>5
<1> QED BY <1>6 DEF insert

(* The loop of buildOwnershipTree.                                         *)
LEMMA InsertAllTrees ==
  ASSUME NEW tree, NEW leaves, Len(leaves) \in Nat
  PROVE  \E after :
             /\ after = [n \in 0..Len(leaves) |->
                           IF n = 0 THEN tree ELSE insert(after[n - 1], leaves[n])]
             /\ insertAll(tree, leaves) = after[Len(leaves)]
<1> DEFINE Base == tree
           Step(x, level) == insert(x, leaves[level])
           IsUpTo(f, m) == f = [level \in 0..m |-> IF level = 0 THEN Base
                                                  ELSE Step(f[level - 1], level)]
           T == {m \in 0..Len(leaves) : \E f : IsUpTo(f, m)}
<1>1. 0 \in T
  <2> DEFINE g == [level \in 0..0 |-> Base]
  <2> HIDE DEF Base, Step
  <2>1. IsUpTo(g, 0)
    OBVIOUS
  <2> HIDE DEF g
  <2> QED BY <2>1
<1>2. ASSUME NEW m \in 0..(Len(leaves) - 1), m \in T PROVE m + 1 \in T
  <2> HIDE DEF Base, Step
  <2>1. PICK f : IsUpTo(f, m)
    BY <1>2
  <2> DEFINE g == [level \in 0..(m + 1) |->
                      IF level = m + 1 THEN Step(f[m], level) ELSE f[level]]
  <2>2. IsUpTo(g, m + 1)
    BY <2>1
  <2> HIDE DEF g
  <2> QED BY <2>2
<1>3. \E f : IsUpTo(f, Len(leaves))
  <2> HIDE DEF IsUpTo
  <2>1. 0..Len(leaves) \subseteq T
    <3> HIDE DEF T
    <3> QED BY <1>1, <1>2, UpTo
  <2> QED BY <2>1
<1> QED BY <1>3 DEF insertAll

(* bulkInsert sets the nodes above the new leaves, level by level.         *)
LEMMA RebuildLayers ==
  ASSUME NEW layers, NEW start, NEW next, NEW leaves
  PROVE  rebuild(layers, start, next, leaves) =
           [level \in 0..Depth |->
               IF level = 0 THEN Placed(layers[0], start, leaves)
               ELSE RebuiltLayer(layers[level], level,
                                 rebuild(layers, start, next, leaves)[level - 1],
                                 ancestors(start)[level], ancestors(next - 1)[level])]
<1> DEFINE first == ancestors(start)
           last  == ancestors(next - 1)
           Base == Placed(layers[0], start, leaves)
           Step(x, level) == RebuiltLayer(layers[level], level, x, first[level], last[level])
           IsUpTo(f, m) == f = [level \in 0..m |-> IF level = 0 THEN Base
                                                  ELSE Step(f[level - 1], level)]
           T == {m \in 0..Depth : \E f : IsUpTo(f, m)}
<1>1. 0 \in T
  <2> DEFINE g == [level \in 0..0 |-> Base]
  <2> HIDE DEF Base, Step
  <2>1. IsUpTo(g, 0)
    OBVIOUS
  <2> HIDE DEF g
  <2> QED BY <2>1, DepthAssumption
<1>2. ASSUME NEW m \in 0..(Depth - 1), m \in T PROVE m + 1 \in T
  <2> HIDE DEF Base, Step
  <2>1. PICK f : IsUpTo(f, m)
    BY <1>2
  <2> DEFINE g == [level \in 0..(m + 1) |->
                      IF level = m + 1 THEN Step(f[m], level) ELSE f[level]]
  <2>2. IsUpTo(g, m + 1)
    BY <2>1
  <2> HIDE DEF g
  <2> QED BY <2>2, DepthAssumption
<1>3. \E f : IsUpTo(f, Depth)
  <2> HIDE DEF IsUpTo
  <2>1. 0..Depth \subseteq T
    <3> HIDE DEF T
    <3> QED BY <1>1, <1>2, UpTo, DepthAssumption
  <2> QED BY <2>1, DepthAssumption
<1> QED BY <1>3 DEF rebuild

(* The loop of verifyProof.                                                *)
LEMMA ProofHashes ==
  ASSUME NEW leaf, NEW proof
  PROVE  \E hash :
             /\ hash = [level \in 0..Depth |->
                           IF level = 0 THEN leaf ELSE HashWith(hash[level - 1], proof[level - 1])]
             /\ RootOfProof(leaf, proof) = hash[Depth]
<1> DEFINE Base == leaf
           Step(x, level) == HashWith(x, proof[level - 1])
           IsUpTo(f, m) == f = [level \in 0..m |-> IF level = 0 THEN Base
                                                  ELSE Step(f[level - 1], level)]
           T == {m \in 0..Depth : \E f : IsUpTo(f, m)}
<1>1. 0 \in T
  <2> DEFINE g == [level \in 0..0 |-> Base]
  <2> HIDE DEF Base, Step
  <2>1. IsUpTo(g, 0)
    OBVIOUS
  <2> HIDE DEF g
  <2> QED BY <2>1, DepthAssumption
<1>2. ASSUME NEW m \in 0..(Depth - 1), m \in T PROVE m + 1 \in T
  <2> HIDE DEF Base, Step
  <2>1. PICK f : IsUpTo(f, m)
    BY <1>2
  <2> DEFINE g == [level \in 0..(m + 1) |->
                      IF level = m + 1 THEN Step(f[m], level) ELSE f[level]]
  <2>2. IsUpTo(g, m + 1)
    BY <2>1
  <2> HIDE DEF g
  <2> QED BY <2>2, DepthAssumption
<1>3. \E f : IsUpTo(f, Depth)
  <2> HIDE DEF IsUpTo
  <2>1. 0..Depth \subseteq T
    <3> HIDE DEF T
    <3> QED BY <1>1, <1>2, UpTo, DepthAssumption
  <2> QED BY <2>1, DepthAssumption
<1> QED BY <1>3 DEF RootOfProof

(* _buildLayers of the client.                                             *)
LEMMA ClientLayers ==
  ASSUME NEW leaves
  PROVE  fromLeaves(leaves) =
           [level \in 0..Depth |-> IF level = 0 THEN leaves
                                  ELSE LayerAbove(fromLeaves(leaves)[level - 1], level)]
<1> DEFINE Base == leaves
           Step(x, level) == LayerAbove(x, level)
           IsUpTo(f, m) == f = [level \in 0..m |-> IF level = 0 THEN Base
                                                  ELSE Step(f[level - 1], level)]
           T == {m \in 0..Depth : \E f : IsUpTo(f, m)}
<1>1. 0 \in T
  <2> DEFINE g == [level \in 0..0 |-> Base]
  <2> HIDE DEF Base, Step
  <2>1. IsUpTo(g, 0)
    OBVIOUS
  <2> HIDE DEF g
  <2> QED BY <2>1, DepthAssumption
<1>2. ASSUME NEW m \in 0..(Depth - 1), m \in T PROVE m + 1 \in T
  <2> HIDE DEF Base, Step
  <2>1. PICK f : IsUpTo(f, m)
    BY <1>2
  <2> DEFINE g == [level \in 0..(m + 1) |->
                      IF level = m + 1 THEN Step(f[m], level) ELSE f[level]]
  <2>2. IsUpTo(g, m + 1)
    BY <2>1
  <2> HIDE DEF g
  <2> QED BY <2>2, DepthAssumption
<1>3. \E f : IsUpTo(f, Depth)
  <2> HIDE DEF IsUpTo
  <2>1. 0..Depth \subseteq T
    <3> HIDE DEF T
    <3> QED BY <1>1, <1>2, UpTo, DepthAssumption
  <2> QED BY <2>1, DepthAssumption
<1> QED BY <1>3 DEF fromLeaves

-----------------------------------------------------------------------------
(* Powers of two, for the capacity *)

PowUpTo(f, n) == f = [m \in 0..n |-> IF m = 0 THEN 1 ELSE 2 * f[m - 1]]

LEMMA PowUpToExists ==
  \A n \in Nat : \E f : PowUpTo(f, n)
<1> DEFINE T == {m \in Nat : \E f : PowUpTo(f, m)}
<1>1. 0 \in T
  <2> DEFINE g == [m \in 0..0 |-> 1]
  <2>1. PowUpTo(g, 0)
    BY DEF PowUpTo
  <2> QED BY <2>1
<1>2. ASSUME NEW n \in Nat, n \in T PROVE n + 1 \in T
  <2>1. PICK f : PowUpTo(f, n)
    BY <1>2
  <2> DEFINE g == [m \in 0..(n + 1) |-> IF m = n + 1 THEN 2 * f[n] ELSE f[m]]
  <2>2. PowUpTo(g, n + 1)
    BY <2>1 DEF PowUpTo
  <2> HIDE DEF g
  <2> QED BY <2>2
<1>3. \A n \in Nat : n \in T
  <2> TAKE n \in Nat
  <2> HIDE DEF T
  <2>1. 0..n \subseteq T
    BY <1>1, <1>2, UpTo
  <2> QED BY <2>1
<1> QED BY <1>3

(* Pow2 satisfies its equation, and is positive.                           *)
LEMMA Pow2Equation ==
  /\ Pow2[0] = 1
  /\ \A n \in Nat : Pow2[n + 1] = 2 * Pow2[n]
  /\ \A n \in Nat : Pow2[n] \in Nat \ {0}
<1> DEFINE F(n) == CHOOSE f : PowUpTo(f, n)
           H == [n \in Nat |-> F(n)[n]]
<1>1. \A n \in Nat : PowUpTo(F(n), n)
  BY PowUpToExists
<1> HIDE DEF F
<1>2. ASSUME NEW n \in Nat PROVE F(n + 1)[n] = F(n)[n]
  <2> DEFINE T == {m \in 0..n : F(n + 1)[m] = F(n)[m]}
  <2>1. PowUpTo(F(n), n) /\ PowUpTo(F(n + 1), n + 1)
    BY <1>1
  <2>2. 0 \in T
    BY <2>1 DEF PowUpTo
  <2>3. ASSUME NEW m \in 0..(n - 1), m \in T PROVE m + 1 \in T
    <3>1. F(n + 1)[m + 1] = 2 * F(n + 1)[m] /\ F(n)[m + 1] = 2 * F(n)[m]
      BY <2>1 DEF PowUpTo
    <3> QED BY <3>1, <2>3
  <2>4. 0..n \subseteq T
    <3> HIDE DEF T
    <3> QED BY <2>2, <2>3, UpTo
  <2> QED BY <2>4
<1>3. H = [n \in Nat |-> IF n = 0 THEN 1 ELSE 2 * H[n - 1]]
  <2>1. F(0)[0] = 1
    BY <1>1 DEF PowUpTo
  <2>2. ASSUME NEW n \in Nat \ {0} PROVE F(n)[n] = 2 * F(n - 1)[n - 1]
    <3>1. F(n)[n] = 2 * F(n)[n - 1]
      BY <1>1 DEF PowUpTo
    <3>2. F(n)[n - 1] = F(n - 1)[n - 1]
      <4>1. n - 1 \in Nat /\ (n - 1) + 1 = n
        OBVIOUS
      <4> QED BY <4>1, <1>2
    <3> QED BY <3>1, <3>2
  <2> QED BY <2>1, <2>2
<1>4. \E f : f = [n \in Nat |-> IF n = 0 THEN 1 ELSE 2 * f[n - 1]]
  <2> HIDE DEF H
  <2> QED BY <1>3
<1>5. Pow2 = [n \in Nat |-> IF n = 0 THEN 1 ELSE 2 * Pow2[n - 1]]
  BY <1>4 DEF Pow2
<1>6. Pow2[0] = 1 /\ \A n \in Nat : Pow2[n + 1] = 2 * Pow2[n]
  <2>1. \A n \in Nat : Pow2[n] = IF n = 0 THEN 1 ELSE 2 * Pow2[n - 1]
    BY <1>5
  <2>2. ASSUME NEW n \in Nat PROVE Pow2[n + 1] = 2 * Pow2[n]
    <3>1. n + 1 \in Nat /\ n + 1 # 0 /\ (n + 1) - 1 = n
      OBVIOUS
    <3> QED BY <2>1, <3>1
  <2> QED BY <2>1, <2>2
<1>7. ASSUME NEW n \in Nat PROVE Pow2[n] \in Nat \ {0}
  <2> DEFINE T == {m \in Nat : Pow2[m] \in Nat \ {0}}
  <2>1. 0 \in T
    BY <1>6
  <2>2. ASSUME NEW m \in 0..(n - 1), m \in T PROVE m + 1 \in T
    BY <1>6, <2>2
  <2>3. 0..n \subseteq T
    <3> HIDE DEF T
    <3> QED BY <2>1, <2>2, UpTo
  <2> QED BY <2>3
<1> QED BY <1>6, <1>7

-----------------------------------------------------------------------------
(* Trees and their nodes *)

(***************************************************************************)
(* A tree represents a list of leaves if every node, set or not, is the    *)
(* hash of its children, and the leaves follow each other from the left.   *)
(***************************************************************************)
Node(tree, level, i) == getNode(tree.layers[level], level, i)

LeafAt(leaves, i) == IF i < Len(leaves) THEN leaves[i + 1] ELSE zeroValues[0]

Hashed(tree) ==
    \A level \in 1..Depth : \A i \in Nat :
        Node(tree, level, i) =
            Poseidon(Node(tree, level - 1, 2 * i), Node(tree, level - 1, 2 * i + 1))

Represents(tree, leaves) ==
    /\ tree.nextIndex = Len(leaves)
    /\ \A i \in Nat : Node(tree, 0, i) = LeafAt(leaves, i)
    /\ Hashed(tree)

LEMMA ZeroLevels ==
  \A level \in 1..Depth : zeroValues[level] = Poseidon(zeroValues[level - 1], zeroValues[level - 1])
BY ZeroValues, DepthAssumption

LEMMA AncestorLevels ==
  ASSUME NEW i
  PROVE  /\ ancestors(i)[0] = i
         /\ \A level \in 1..Depth : ancestors(i)[level] = ancestors(i)[level - 1] \div 2
BY Ancestors, DepthAssumption

(* Halving keeps integers integers and natural numbers natural.            *)
LEMMA AncestorsType ==
  ASSUME NEW i \in Int
  PROVE  \A level \in 0..Depth : /\ ancestors(i)[level] \in Int
                                 /\ i \in Nat => ancestors(i)[level] \in Nat
<1> DEFINE T == {level \in 0..Depth : /\ ancestors(i)[level] \in Int
                                      /\ i \in Nat => ancestors(i)[level] \in Nat}
<1>1. 0 \in T
  BY AncestorLevels, DepthAssumption
<1>2. ASSUME NEW level \in 0..(Depth - 1), level \in T PROVE level + 1 \in T
  <2>1. ancestors(i)[level + 1] = ancestors(i)[level] \div 2
    <3>1. level + 1 \in 1..Depth /\ (level + 1) - 1 = level
      BY DepthAssumption
    <3> QED BY <3>1, AncestorLevels
  <2> QED BY <2>1, <1>2, DepthAssumption
<1>3. 0..Depth \subseteq T
  <2> HIDE DEF T
  <2> QED BY <1>1, <1>2, UpTo, DepthAssumption
<1> QED BY <1>3

(* Every leaf within the capacity is below the root.                       *)
LEMMA RootIsAbove ==
  ASSUME NEW i \in Nat, i < Capacity
  PROVE  ancestors(i)[Depth] = 0
<1> DEFINE T == {level \in 0..Depth : ancestors(i)[level] < Pow2[Depth - level]}
<1>1. 0 \in T
  BY AncestorLevels, DepthAssumption DEF Capacity
<1>2. ASSUME NEW level \in 0..(Depth - 1), level \in T PROVE level + 1 \in T
  <2>1. ancestors(i)[level + 1] = ancestors(i)[level] \div 2
    <3>1. level + 1 \in 1..Depth /\ (level + 1) - 1 = level
      BY DepthAssumption
    <3> QED BY <3>1, AncestorLevels
  <2>2. Pow2[Depth - level] = 2 * Pow2[Depth - (level + 1)] /\ Pow2[Depth - (level + 1)] \in Nat
    <3>1. Depth - (level + 1) \in Nat /\ (Depth - (level + 1)) + 1 = Depth - level
      BY DepthAssumption
    <3> QED BY <3>1, Pow2Equation
  <2>3. ancestors(i)[level] \in Nat
    BY AncestorsType, DepthAssumption
  <2>4. ancestors(i)[level + 1] < Pow2[Depth - (level + 1)]
    <3> DEFINE a == ancestors(i)[level]
               p == Pow2[Depth - (level + 1)]
    <3>1. a \in Nat /\ p \in Nat /\ a < 2 * p
      BY <1>2, <2>2, <2>3
    <3>2. a \div 2 < p
      <4> HIDE DEF a, p
      <4> QED BY <3>1
    <3> QED BY <3>2, <2>1
  <2> QED BY <2>4, DepthAssumption
<1>3. 0..Depth \subseteq T
  <2> HIDE DEF T
  <2> QED BY <1>1, <1>2, UpTo, DepthAssumption
<1>4. ancestors(i)[Depth] < Pow2[0]
  BY <1>3, DepthAssumption
<1> QED BY <1>4, Pow2Equation, AncestorsType, DepthAssumption

(* A new tree represents no leaves.                                        *)
LEMMA EmptyTreeRepresents ==
  Represents(EmptyTree, <<>>)
<1>1. ASSUME NEW level \in 0..Depth, NEW i \in Nat
      PROVE  Node(EmptyTree, level, i) = zeroValues[level]
  <2>1. EmptyTree.layers[level] = [j \in {} |-> <<>>]
    BY DEF EmptyTree
  <2>2. i \notin DOMAIN EmptyTree.layers[level]
    BY <2>1
  <2> QED BY <2>2 DEF Node, getNode
<1>2. Hashed(EmptyTree)
  BY <1>1, ZeroLevels, DepthAssumption DEF Hashed
<1>3. \A i \in Nat : LeafAt(<<>>, i) = zeroValues[0]
  BY DEF LeafAt
<1>4. \A i \in Nat : Node(EmptyTree, 0, i) = zeroValues[0]
  BY <1>1, DepthAssumption
<1>5. EmptyTree.nextIndex = Len(<<>>)
  BY DEF EmptyTree
<1> QED BY <1>2, <1>3, <1>4, <1>5 DEF Represents

(* insert appends a leaf.                                                  *)
LEMMA InsertRepresents ==
  ASSUME NEW S, NEW tree, NEW leaves \in Seq(S), NEW leaf \in S, Represents(tree, leaves)
  PROVE  Represents(insert(tree, leaf), Append(leaves, leaf))
<1> DEFINE path == ancestors(tree.nextIndex)
           new  == insert(tree, leaf)
<1>1. \A level \in 0..Depth :
          new.layers[level] =
              SetNode(tree.layers[level], path[level],
                      IF level = 0 THEN leaf
                      ELSE HashOfChildren(new.layers[level - 1], level, path[level]))
  <2>1. new.layers =
            [level \in 0..Depth |->
               SetNode(tree.layers[level], path[level],
                       IF level = 0 THEN leaf
                       ELSE HashOfChildren(new.layers[level - 1], level, path[level]))]
    BY InsertLayers
  <2> DEFINE layers == new.layers
             At(x, level) == SetNode(tree.layers[level], path[level],
                                  IF level = 0 THEN leaf ELSE HashOfChildren(x, level, path[level]))
  <2>2. layers = [level \in 0..Depth |-> At(layers[level - 1], level)]
    BY <2>1
  <2>3. \A level \in 0..Depth : layers[level] = At(layers[level - 1], level)
    <3> HIDE DEF layers, At
    <3> QED BY <2>2
  <2> QED BY <2>3
<1>2. tree.nextIndex = Len(leaves) /\ Len(leaves) \in Nat
  BY DEF Represents
<1>3. path[0] = Len(leaves) /\ \A level \in 0..Depth : path[level] \in Nat
  BY <1>2, AncestorLevels, AncestorsType
<1>4. \A level \in 1..Depth : path[level] = path[level - 1] \div 2
  BY AncestorLevels
<1>5. new.nextIndex = Len(Append(leaves, leaf))
  BY <1>2 DEF insert
<1> HIDE DEF new, path
<1>6. \A level \in 0..Depth : \A i \in Nat :
          i # path[level] => Node(new, level, i) = Node(tree, level, i)
  <2> TAKE level \in 0..Depth
  <2>1. PICK node : new.layers[level] = SetNode(tree.layers[level], path[level], node)
    BY <1>1
  <2> QED BY <2>1 DEF Node, getNode, SetNode
<1>7. Node(new, 0, path[0]) = leaf
  <2>1. new.layers[0] = SetNode(tree.layers[0], path[0], leaf)
    BY <1>1, DepthAssumption
  <2> QED BY <2>1 DEF Node, getNode, SetNode
<1>8. ASSUME NEW level \in 1..Depth
      PROVE  Node(new, level, path[level]) =
                 Poseidon(Node(new, level - 1, 2 * path[level]),
                          Node(new, level - 1, 2 * path[level] + 1))
  <2>1. new.layers[level] =
            SetNode(tree.layers[level], path[level],
                    HashOfChildren(new.layers[level - 1], level, path[level]))
    BY <1>1, DepthAssumption
  <2> QED BY <2>1 DEF Node, getNode, SetNode, HashOfChildren
<1>9. Hashed(new)
  <2> SUFFICES ASSUME NEW level \in 1..Depth, NEW i \in Nat, i # path[level]
               PROVE  Node(new, level, i) =
                          Poseidon(Node(new, level - 1, 2 * i), Node(new, level - 1, 2 * i + 1))
    BY <1>8 DEF Hashed
  <2>1. level - 1 \in 0..Depth /\ level \in 0..Depth
    BY DepthAssumption
  <2>2. 2 * i # path[level - 1] /\ 2 * i + 1 # path[level - 1]
    BY <1>3, <1>4, <2>1
  <2>3. /\ Node(new, level - 1, 2 * i) = Node(tree, level - 1, 2 * i)
        /\ Node(new, level - 1, 2 * i + 1) = Node(tree, level - 1, 2 * i + 1)
        /\ Node(new, level, i) = Node(tree, level, i)
    BY <1>6, <2>1, <2>2
  <2> QED BY <2>3 DEF Represents, Hashed
<1>10. ASSUME NEW i \in Nat PROVE Node(new, 0, i) = LeafAt(Append(leaves, leaf), i)
  <2>1. CASE i = Len(leaves)
    BY <2>1, <1>3, <1>7 DEF LeafAt
  <2>2. CASE i # Len(leaves)
    <3>1. Node(new, 0, i) = LeafAt(leaves, i)
      BY <2>2, <1>3, <1>6, DepthAssumption DEF Represents
    <3>2. LeafAt(leaves, i) = LeafAt(Append(leaves, leaf), i)
      BY <2>2 DEF LeafAt
    <3> QED BY <3>1, <3>2
  <2> QED BY <2>1, <2>2
<1> QED BY <1>5, <1>9, <1>10 DEF Represents, new

(* Repeated insertion appends the leaves in their order.                   *)
LEMMA InsertAllRepresents ==
  ASSUME NEW S, NEW tree, NEW leaves \in Seq(S), NEW more \in Seq(S), Represents(tree, leaves)
  PROVE  Represents(insertAll(tree, more), leaves \o more)
<1>0. Len(more) \in Nat
  OBVIOUS
<1>1. PICK after :
         /\ after = [n \in 0..Len(more) |-> IF n = 0 THEN tree ELSE insert(after[n - 1], more[n])]
         /\ insertAll(tree, more) = after[Len(more)]
  BY <1>0, InsertAllTrees
<1> DEFINE So(n) == leaves \o SubSeq(more, 1, n)
           T == {n \in 0..Len(more) : Represents(after[n], So(n))}
<1>2. 0 \in T
  <2>1. So(0) = leaves
    OBVIOUS
  <2> QED BY <1>1, <2>1
<1>3. ASSUME NEW n \in 0..(Len(more) - 1), n \in T PROVE n + 1 \in T
  <2>1. after[n + 1] = insert(after[n], more[n + 1])
    BY <1>1
  <2>2. So(n) \in Seq(S) /\ more[n + 1] \in S
    OBVIOUS
  <2>3. So(n + 1) = Append(So(n), more[n + 1])
    OBVIOUS
  <2>4. Represents(after[n + 1], So(n + 1))
    <3> HIDE DEF So
    <3> QED BY <1>3, <2>1, <2>2, <2>3, InsertRepresents
  <2> QED BY <2>4
<1>4. 0..Len(more) \subseteq T
  <2> HIDE DEF T
  <2> QED BY <1>0, <1>2, <1>3, UpTo
<1>5. So(Len(more)) = leaves \o more
  OBVIOUS
<1>6. Represents(after[Len(more)], So(Len(more)))
  BY <1>0, <1>4
<1> QED
  <2> HIDE DEF So
  <2> QED BY <1>1, <1>5, <1>6

(* bulkInsert appends the leaves in their order.                           *)
LEMMA BulkInsertRepresents ==
  ASSUME NEW S, NEW tree, NEW leaves \in Seq(S), NEW more \in Seq(S), Represents(tree, leaves)
  PROVE  Represents(bulkInsert(tree, more), leaves \o more)
<1> DEFINE start == tree.nextIndex
           next  == start + Len(more)
           first == ancestors(start)
           last  == ancestors(next - 1)
           new   == bulkInsert(tree, more)
<1>1. start = Len(leaves) /\ start \in Nat /\ next \in Nat
  BY DEF Represents
<1>2. /\ new.layers[0] = Placed(tree.layers[0], start, more)
      /\ \A level \in 1..Depth :
            new.layers[level] = RebuiltLayer(tree.layers[level], level, new.layers[level - 1],
                                             first[level], last[level])
  <2>1. new.layers = rebuild(tree.layers, start, next, more)
    BY DEF bulkInsert
  <2> HIDE DEF new, start, next
  <2> QED BY <2>1, RebuildLayers, DepthAssumption
<1>3. new.nextIndex = Len(leaves \o more)
  BY <1>1 DEF bulkInsert
<1>4. /\ first[0] = start /\ last[0] = next - 1
      /\ \A level \in 0..Depth : first[level] \in Nat /\ last[level] \in Int
      /\ \A level \in 1..Depth : /\ first[level] = first[level - 1] \div 2
                                 /\ last[level] = last[level - 1] \div 2
  BY <1>1, AncestorLevels, AncestorsType
<1> DEFINE Above(level) == first[level]..last[level]
<1> HIDE DEF new, first, last
<1>5. \A level \in 0..Depth : \A i \in Nat :
          i \notin Above(level) => Node(new, level, i) = Node(tree, level, i)
  <2>1. ASSUME NEW i \in Nat, i \notin Above(0) PROVE Node(new, 0, i) = Node(tree, 0, i)
    <3>1. i \notin start..(start + Len(more) - 1)
      BY <1>1, <1>4, <2>1
    <3> QED BY <1>2, <3>1 DEF Node, getNode, Placed
  <2>2. ASSUME NEW level \in 1..Depth, NEW i \in Nat, i \notin Above(level)
        PROVE  Node(new, level, i) = Node(tree, level, i)
    <3>1. new.layers[level] = RebuiltLayer(tree.layers[level], level, new.layers[level - 1],
                                           first[level], last[level])
      BY <1>2
    <3> QED BY <2>2, <3>1 DEF Node, getNode, RebuiltLayer
  <2> QED BY <2>1, <2>2, DepthAssumption
<1>6. ASSUME NEW level \in 1..Depth, NEW i \in Above(level)
      PROVE  Node(new, level, i) =
                 Poseidon(Node(new, level - 1, 2 * i), Node(new, level - 1, 2 * i + 1))
  <2>1. new.layers[level] = RebuiltLayer(tree.layers[level], level, new.layers[level - 1],
                                         first[level], last[level])
    BY <1>2
  <2> QED BY <2>1 DEF Node, getNode, RebuiltLayer, HashOfChildren
<1>7. Hashed(new)
  <2> SUFFICES ASSUME NEW level \in 1..Depth, NEW i \in Nat, i \notin Above(level)
               PROVE  Node(new, level, i) =
                          Poseidon(Node(new, level - 1, 2 * i), Node(new, level - 1, 2 * i + 1))
    BY <1>6 DEF Hashed
  <2>1. level - 1 \in 0..Depth /\ level \in 0..Depth
    BY DepthAssumption
  <2>2. /\ first[level - 1] \in Nat /\ last[level - 1] \in Int
        /\ first[level] = first[level - 1] \div 2 /\ last[level] = last[level - 1] \div 2
    BY <1>4, <2>1
  <2>3. 2 * i \notin Above(level - 1) /\ 2 * i + 1 \notin Above(level - 1)
    BY <2>2
  <2>4. /\ Node(new, level - 1, 2 * i) = Node(tree, level - 1, 2 * i)
        /\ Node(new, level - 1, 2 * i + 1) = Node(tree, level - 1, 2 * i + 1)
        /\ Node(new, level, i) = Node(tree, level, i)
    BY <1>5, <2>1, <2>3
  <2> QED BY <2>4 DEF Represents, Hashed
<1>8. ASSUME NEW i \in Nat PROVE Node(new, 0, i) = LeafAt(leaves \o more, i)
  <2>1. CASE i \in Above(0)
    <3>1. i \in start..(start + Len(more) - 1)
      BY <1>1, <1>4, <2>1
    <3>2. Node(new, 0, i) = more[i - start + 1]
      BY <1>2, <3>1 DEF Node, getNode, Placed
    <3> QED BY <1>1, <3>1, <3>2 DEF LeafAt
  <2>2. CASE i \notin Above(0)
    <3>1. Node(new, 0, i) = LeafAt(leaves, i)
      BY <1>5, <2>2, DepthAssumption DEF Represents
    <3> QED BY <1>1, <1>4, <2>2, <3>1 DEF LeafAt
  <2> QED BY <2>1, <2>2
<1> QED BY <1>3, <1>7, <1>8 DEF Represents, new

-----------------------------------------------------------------------------
(* The client's tree has the same nodes *)

ClientNode(layers, level, i) ==
    IF i < Len(layers[level]) THEN layers[level][i + 1] ELSE zeroValues[level]

IsSequence(layer) == \E S : layer \in Seq(S)

(* A layer is as long as the nodes above those below it, one at least.     *)
LEMMA LayerAboveType ==
  ASSUME NEW prev, IsSequence(prev), NEW level \in 1..Depth
  PROVE  /\ IsSequence(LayerAbove(prev, level))
         /\ prev # <<>> => Len(LayerAbove(prev, level)) = (Len(prev) + 1) \div 2
         /\ Len(LayerAbove(prev, level)) >= 1
<1>1. CASE prev = <<>>
  <2>1. LayerAbove(prev, level) = <<zeroValues[level]>>
    BY <1>1 DEF LayerAbove
  <2>2. <<zeroValues[level]>> \in Seq({zeroValues[level]}) /\ Len(<<zeroValues[level]>>) = 1
    OBVIOUS
  <2>3. IsSequence(<<zeroValues[level]>>)
    BY <2>2 DEF IsSequence
  <2>4. Len(LayerAbove(prev, level)) = 1 /\ IsSequence(LayerAbove(prev, level))
    BY <2>1, <2>2, <2>3
  <2>5. Len(LayerAbove(prev, level)) >= 1
    BY <2>4
  <2> HIDE DEF LayerAbove
  <2> QED BY <1>1, <2>4, <2>5, Zenon
<1>2. CASE prev # <<>>
  <2> DEFINE n == (Len(prev) + 1) \div 2
             hash(i) == Poseidon(prev[2 * i - 1],
                                 IF 2 * i <= Len(prev) THEN prev[2 * i] ELSE zeroValues[level - 1])
             above == [i \in 1..n |-> hash(i)]
  <2>1. Len(prev) \in Nat \ {0}
    BY <1>2 DEF IsSequence
  <2>2. n \in Nat \ {0}
    BY <2>1
  <2>3. LayerAbove(prev, level) = above
    BY <1>2 DEF LayerAbove
  <2>4. IsSequence(above) /\ Len(above) = n
    <3> HIDE DEF hash, n
    <3>1. above \in Seq({hash(i) : i \in 1..n}) /\ Len(above) = n
      BY <2>2
    <3> QED BY <3>1 DEF IsSequence
  <2>5. n >= 1
    BY <2>2
  <2> HIDE DEF above
  <2> QED BY <1>2, <2>3, <2>4, <2>5
<1> QED BY <1>1, <1>2

LEMMA ClientLevels ==
  ASSUME NEW leaves
  PROVE  /\ fromLeaves(leaves)[0] = leaves
         /\ \A level \in 1..Depth :
               fromLeaves(leaves)[level] = LayerAbove(fromLeaves(leaves)[level - 1], level)
<1> DEFINE layers == fromLeaves(leaves)
<1>1. layers = [level \in 0..Depth |-> IF level = 0 THEN leaves
                                       ELSE LayerAbove(layers[level - 1], level)]
  BY ClientLayers
<1> DEFINE At(x, level) == IF level = 0 THEN leaves ELSE LayerAbove(x, level)
<1>2. /\ layers[0] = leaves
      /\ \A level \in 1..Depth : layers[level] = LayerAbove(layers[level - 1], level)
  <2>1. layers = [level \in 0..Depth |-> At(layers[level - 1], level)]
    BY <1>1
  <2>2. \A level \in 0..Depth : layers[level] = At(layers[level - 1], level)
    <3> HIDE DEF layers, At
    <3> QED BY <2>1
  <2> QED BY <2>2, DepthAssumption
<1> QED BY <1>2 DEF layers

LEMMA ClientLayersType ==
  ASSUME NEW leaves, IsSequence(leaves)
  PROVE  \A level \in 0..Depth : IsSequence(fromLeaves(leaves)[level])
<1> DEFINE T == {level \in 0..Depth : IsSequence(fromLeaves(leaves)[level])}
<1>1. 0 \in T
  BY ClientLevels, DepthAssumption
<1>2. ASSUME NEW level \in 0..(Depth - 1), level \in T PROVE level + 1 \in T
  <2>1. level + 1 \in 1..Depth /\ (level + 1) - 1 = level
    BY DepthAssumption
  <2>2. fromLeaves(leaves)[level + 1] = LayerAbove(fromLeaves(leaves)[level], level + 1)
    BY <2>1, ClientLevels
  <2> QED BY <1>2, <2>1, <2>2, LayerAboveType
<1>3. 0..Depth \subseteq T
  <2> HIDE DEF T
  <2> QED BY <1>1, <1>2, UpTo, DepthAssumption
<1> QED BY <1>3

(* Every node of the client's tree is the hash of its children.            *)
LEMMA ClientHashed ==
  ASSUME NEW leaves, IsSequence(leaves), NEW level \in 1..Depth, NEW i \in Nat
  PROVE  ClientNode(fromLeaves(leaves), level, i) =
             Poseidon(ClientNode(fromLeaves(leaves), level - 1, 2 * i),
                      ClientNode(fromLeaves(leaves), level - 1, 2 * i + 1))
<1> DEFINE layers == fromLeaves(leaves)
           prev   == layers[level - 1]
           above  == layers[level]
<1>1. above = LayerAbove(prev, level)
  BY ClientLevels
<1>2. IsSequence(prev)
  BY ClientLayersType, DepthAssumption
<1>3. zeroValues[level] = Poseidon(zeroValues[level - 1], zeroValues[level - 1])
  BY ZeroLevels
<1>4. Len(prev) \in Nat
  BY <1>2 DEF IsSequence
<1>5. SUFFICES (IF i < Len(above) THEN above[i + 1] ELSE zeroValues[level]) =
                   Poseidon(IF 2 * i < Len(prev) THEN prev[2 * i + 1] ELSE zeroValues[level - 1],
                            IF 2 * i + 1 < Len(prev) THEN prev[2 * i + 2]
                                                     ELSE zeroValues[level - 1])
  <2>1. 2 * i + 1 + 1 = 2 * i + 2
    OBVIOUS
  <2> QED BY <2>1 DEF ClientNode
<1> HIDE DEF layers, prev, above
<1>6. CASE prev = <<>>
  <2>1. above = <<zeroValues[level]>> /\ Len(prev) = 0
    BY <1>1, <1>6 DEF LayerAbove
  <2>2. (IF i < Len(above) THEN above[i + 1] ELSE zeroValues[level]) = zeroValues[level]
    BY <2>1
  <2> QED BY <1>3, <2>1, <2>2
<1>7. CASE prev # <<>>
  <2> DEFINE n == (Len(prev) + 1) \div 2
  <2>1. Len(above) = n
    BY <1>1, <1>2, <1>7, LayerAboveType
  <2>2. CASE i < n
    <3>1. i + 1 \in 1..n /\ 2 * (i + 1) - 1 = 2 * i + 1 /\ 2 * (i + 1) = 2 * i + 2
      BY <1>4, <2>2
    <3>2. above = [j \in 1..n |->
                     Poseidon(prev[2 * j - 1],
                              IF 2 * j <= Len(prev) THEN prev[2 * j] ELSE zeroValues[level - 1])]
      BY <1>1, <1>7 DEF LayerAbove
    <3>3. above[i + 1] =
              Poseidon(prev[2 * i + 1],
                       IF 2 * i + 2 <= Len(prev) THEN prev[2 * i + 2] ELSE zeroValues[level - 1])
      <4> HIDE DEF n
      <4> QED BY <3>1, <3>2
    <3>4. 2 * i < Len(prev) /\ (2 * i + 2 <= Len(prev) <=> 2 * i + 1 < Len(prev))
      BY <1>4, <2>2
    <3> QED BY <2>1, <2>2, <3>3, <3>4
  <2>3. CASE ~(i < n)
    <3>1. ~(2 * i < Len(prev)) /\ ~(2 * i + 1 < Len(prev))
      BY <1>4, <2>3
    <3> QED BY <1>3, <2>1, <2>3, <3>1
  <2> QED BY <2>2, <2>3
<1> QED BY <1>6, <1>7

(* The two implementations agree on every node.                            *)
LEMMA ClientNodes ==
  ASSUME NEW S, NEW tree, NEW leaves \in Seq(S), Represents(tree, leaves)
  PROVE  \A level \in 0..Depth : \A i \in Nat :
            ClientNode(fromLeaves(leaves), level, i) = Node(tree, level, i)
<1> DEFINE layers == fromLeaves(leaves)
           T == {level \in 0..Depth : \A i \in Nat : ClientNode(layers, level, i) = Node(tree, level, i)}
<1>1. 0 \in T
  <2>1. \A i \in Nat : ClientNode(layers, 0, i) = LeafAt(leaves, i)
    BY ClientLevels DEF ClientNode, LeafAt
  <2> QED BY <2>1, DepthAssumption DEF Represents
<1>2. ASSUME NEW level \in 0..(Depth - 1), level \in T PROVE level + 1 \in T
  <2>1. level + 1 \in 1..Depth /\ (level + 1) - 1 = level
    BY DepthAssumption
  <2>2. IsSequence(leaves)
    BY DEF IsSequence
  <2>3. ASSUME NEW i \in Nat PROVE ClientNode(layers, level + 1, i) = Node(tree, level + 1, i)
    <3>1. ClientNode(layers, level + 1, i) =
              Poseidon(ClientNode(layers, level, 2 * i), ClientNode(layers, level, 2 * i + 1))
      BY <2>1, <2>2, ClientHashed
    <3>2. Node(tree, level + 1, i) = Poseidon(Node(tree, level, 2 * i), Node(tree, level, 2 * i + 1))
      BY <2>1 DEF Represents, Hashed
    <3>3. 2 * i \in Nat /\ 2 * i + 1 \in Nat
      OBVIOUS
    <3> QED BY <1>2, <3>1, <3>2, <3>3
  <2> QED BY <2>1, <2>3
<1>3. 0..Depth \subseteq T
  <2> HIDE DEF T
  <2> QED BY <1>1, <1>2, UpTo, DepthAssumption
<1> QED BY <1>3

-----------------------------------------------------------------------------
(* Roots *)

(* The leaves determine every node, however they were inserted.            *)
LEMMA SameLeavesSameNodes ==
  ASSUME NEW tree, NEW other, NEW leaves, Represents(tree, leaves), Represents(other, leaves)
  PROVE  \A level \in 0..Depth : \A i \in Nat : Node(tree, level, i) = Node(other, level, i)
<1> DEFINE T == {level \in 0..Depth : \A i \in Nat : Node(tree, level, i) = Node(other, level, i)}
<1>1. 0 \in T
  BY DepthAssumption DEF Represents
<1>2. ASSUME NEW level \in 0..(Depth - 1), level \in T PROVE level + 1 \in T
  <2>1. level + 1 \in 1..Depth /\ (level + 1) - 1 = level
    BY DepthAssumption
  <2>2. ASSUME NEW i \in Nat PROVE Node(tree, level + 1, i) = Node(other, level + 1, i)
    <3>1. /\ Node(tree, level + 1, i) = Poseidon(Node(tree, level, 2 * i), Node(tree, level, 2 * i + 1))
          /\ Node(other, level + 1, i) = Poseidon(Node(other, level, 2 * i), Node(other, level, 2 * i + 1))
      BY <2>1 DEF Represents, Hashed
    <3>2. 2 * i \in Nat /\ 2 * i + 1 \in Nat
      OBVIOUS
    <3> QED BY <1>2, <3>1, <3>2
  <2> QED BY <2>1, <2>2
<1>3. 0..Depth \subseteq T
  <2> HIDE DEF T
  <2> QED BY <1>1, <1>2, UpTo, DepthAssumption
<1> QED BY <1>3

LEMMA PoseidonInjective ==
  \A a, b, c, d : Poseidon(a, b) = Poseidon(c, d) => a = c /\ b = d
BY DEF Poseidon

LEMMA ProofLevels ==
  ASSUME NEW leaf, NEW proof
  PROVE  \E hash :
             /\ RootOfProof(leaf, proof) = hash[Depth]
             /\ hash[0] = leaf
             /\ \A level \in 1..Depth : hash[level] = HashWith(hash[level - 1], proof[level - 1])
<1> DEFINE At(x, level) == IF level = 0 THEN leaf ELSE HashWith(x, proof[level - 1])
<1>1. PICK hash : /\ hash = [level \in 0..Depth |-> At(hash[level - 1], level)]
                  /\ RootOfProof(leaf, proof) = hash[Depth]
  BY ProofHashes
<1>2. \A level \in 0..Depth : hash[level] = At(hash[level - 1], level)
  <2> HIDE DEF At
  <2> QED BY <1>1
<1>3. /\ hash[0] = leaf
      /\ \A level \in 1..Depth : hash[level] = HashWith(hash[level - 1], proof[level - 1])
  BY <1>2, DepthAssumption
<1>4. RootOfProof(leaf, proof) = hash[Depth]
  BY <1>1
<1> HIDE DEF At
<1> QED BY <1>3, <1>4

(***************************************************************************)
(* A root stands for its leaves: two trees with the same root have the     *)
(* same leaf, or none, at every index within the capacity (the contracts   *)
(* and the results hold the roots only, see PrivateVoting).                *)
(***************************************************************************)
THEOREM RootBindsLeaves ==
  ASSUME NEW tree, NEW other, NEW leaves, NEW others,
         Represents(tree, leaves), Represents(other, others), getRoot(tree) = getRoot(other)
  PROVE  \A i \in 0..(Capacity - 1) : LeafAt(leaves, i) = LeafAt(others, i)
<1> DEFINE T == {d \in 0..Depth : \A i \in 0..(Pow2[d] - 1) :
                    Node(tree, Depth - d, i) = Node(other, Depth - d, i)}
<1>1. 0 \in T
  <2>1. Node(tree, Depth - 0, 0) = Node(other, Depth - 0, 0)
    BY DepthAssumption DEF getRoot, Node
  <2>2. 0..(Pow2[0] - 1) = {0}
    BY Pow2Equation
  <2> QED BY <2>1, <2>2, DepthAssumption
<1>2. ASSUME NEW d \in 0..(Depth - 1), d \in T PROVE d + 1 \in T
  <2> DEFINE level == Depth - d
  <2>1. level \in 1..Depth /\ level - 1 = Depth - (d + 1) /\ d + 1 \in 0..Depth
    BY DepthAssumption
  <2>2. Pow2[d + 1] = 2 * Pow2[d] /\ Pow2[d] \in Nat
    BY Pow2Equation
  <2>3. ASSUME NEW i \in 0..(Pow2[d + 1] - 1)
        PROVE  Node(tree, level - 1, i) = Node(other, level - 1, i)
    <3> DEFINE j == i \div 2
    <3>1. j \in 0..(Pow2[d] - 1) /\ (i = 2 * j \/ i = 2 * j + 1)
      <4>1. \A p \in Nat : i < 2 * p => i \div 2 < p
        OBVIOUS
      <4>2. i < 2 * Pow2[d] /\ i \in Nat
        BY <2>2
      <4>3. j < Pow2[d]
        BY <2>2, <4>1, <4>2
      <4> QED BY <2>2, <4>2, <4>3
    <3>2. Node(tree, level, j) = Node(other, level, j)
      BY <1>2, <3>1
    <3>3. /\ Node(tree, level, j) = Poseidon(Node(tree, level - 1, 2 * j), Node(tree, level - 1, 2 * j + 1))
          /\ Node(other, level, j) = Poseidon(Node(other, level - 1, 2 * j), Node(other, level - 1, 2 * j + 1))
      <4>1. j \in Nat
        BY <2>2, <3>1
      <4> HIDE DEF j, level
      <4> QED BY <2>1, <4>1 DEF Represents, Hashed
    <3>4. /\ Node(tree, level - 1, 2 * j) = Node(other, level - 1, 2 * j)
          /\ Node(tree, level - 1, 2 * j + 1) = Node(other, level - 1, 2 * j + 1)
      BY <3>2, <3>3, PoseidonInjective
    <3> HIDE DEF j
    <3> QED BY <3>1, <3>4
  <2> QED BY <2>1, <2>3
<1>3. 0..Depth \subseteq T
  <2> HIDE DEF T
  <2> QED BY <1>1, <1>2, UpTo, DepthAssumption
<1>4. \A i \in 0..(Pow2[Depth] - 1) : Node(tree, 0, i) = Node(other, 0, i)
  BY <1>3, DepthAssumption
<1> QED BY <1>4 DEF Represents, Capacity

(***************************************************************************)
(* Only leaves have proofs: whatever leaf and proof lead to the root of a  *)
(* tree, the leaf is one of the tree, or the zero of an unused place       *)
(* (verifyProof and MerkleProof.circom take any proof).                    *)
(***************************************************************************)
THEOREM OnlyLeavesHaveProofs ==
  ASSUME NEW tree, NEW leaves, Represents(tree, leaves),
         NEW leaf, NEW proof, RootOfProof(leaf, proof) = getRoot(tree)
  PROVE  \E i \in 0..(Capacity - 1) : leaf = LeafAt(leaves, i)
<1>1. PICK hash :
         /\ RootOfProof(leaf, proof) = hash[Depth]
         /\ hash[0] = leaf
         /\ \A level \in 1..Depth : hash[level] = HashWith(hash[level - 1], proof[level - 1])
  BY ProofLevels
<1> DEFINE T == {d \in 0..Depth : \E i \in 0..(Pow2[d] - 1) : hash[Depth - d] = Node(tree, Depth - d, i)}
<1>3. 0 \in T
  <2>1. hash[Depth - 0] = Node(tree, Depth - 0, 0)
    BY <1>1, DepthAssumption DEF getRoot, Node
  <2>2. 0 \in 0..(Pow2[0] - 1)
    BY Pow2Equation
  <2> QED BY <2>1, <2>2, DepthAssumption
<1>4. ASSUME NEW d \in 0..(Depth - 1), d \in T PROVE d + 1 \in T
  <2> DEFINE level == Depth - d
  <2>1. level \in 1..Depth /\ level - 1 = Depth - (d + 1) /\ d + 1 \in 0..Depth
    BY DepthAssumption
  <2>2. Pow2[d + 1] = 2 * Pow2[d] /\ Pow2[d] \in Nat
    BY Pow2Equation
  <2>3. PICK i \in 0..(Pow2[d] - 1) : hash[level] = Node(tree, level, i)
    BY <1>4
  <2>4. Node(tree, level, i) = Poseidon(Node(tree, level - 1, 2 * i), Node(tree, level - 1, 2 * i + 1))
    BY <2>1 DEF Represents, Hashed
  <2>5. hash[level] = HashWith(hash[level - 1], proof[level - 1])
    BY <1>1, <2>1
  <2>6. 2 * i \in 0..(Pow2[d + 1] - 1) /\ 2 * i + 1 \in 0..(Pow2[d + 1] - 1)
    BY <2>2
  <2>7. hash[level - 1] \in {Node(tree, level - 1, 2 * i), Node(tree, level - 1, 2 * i + 1)}
    BY <2>3, <2>4, <2>5, PoseidonInjective DEF HashWith
  <2>8. \E j \in 0..(Pow2[d + 1] - 1) : hash[level - 1] = Node(tree, level - 1, j)
    BY <2>6, <2>7
  <2> QED BY <2>1, <2>8
<1>5. 0..Depth \subseteq T
  <2> HIDE DEF T
  <2> QED BY <1>3, <1>4, UpTo, DepthAssumption
<1>6. \E i \in 0..(Pow2[Depth] - 1) : hash[0] = Node(tree, 0, i)
  BY <1>5, DepthAssumption
<1> QED BY <1>1, <1>6 DEF Represents, Capacity

(* The proof of a leaf leads from it to the root.                          *)
LEMMA ProofLeadsToRoot ==
  ASSUME NEW tree, NEW leaves, Represents(tree, leaves), NEW i \in Nat, i < Capacity
  PROVE  RootOfProof(LeafAt(leaves, i), getProof(tree, i)) = getRoot(tree)
<1> DEFINE path  == ancestors(i)
           proof == getProof(tree, i)
           leaf  == LeafAt(leaves, i)
<1>1. PICK hash :
         /\ RootOfProof(leaf, proof) = hash[Depth]
         /\ hash[0] = leaf
         /\ \A level \in 1..Depth : hash[level] = HashWith(hash[level - 1], proof[level - 1])
  BY ProofLevels
<1>2. \A level \in 0..(Depth - 1) :
         /\ proof[level].isRight = path[level] % 2
         /\ proof[level].element = Node(tree, level, Sibling(path[level]))
  BY DEF getProof, Node
<1>3. path[0] = i /\ \A level \in 1..Depth : path[level] = path[level - 1] \div 2
  BY AncestorLevels
<1>4. \A level \in 0..Depth : path[level] \in Nat
  BY AncestorsType
<1>5. path[Depth] = 0
  BY RootIsAbove
<1> HIDE DEF path, proof, leaf
<1> DEFINE T == {level \in 0..Depth : hash[level] = Node(tree, level, path[level])}
<1>7. 0 \in T
  BY <1>1, <1>3, DepthAssumption DEF Represents, leaf
<1>8. ASSUME NEW level \in 0..(Depth - 1), level \in T PROVE level + 1 \in T
  <2> DEFINE p == path[level]
             q == path[level + 1]
  <2>1. level + 1 \in 1..Depth /\ (level + 1) - 1 = level
    BY DepthAssumption
  <2>2. p \in Nat /\ q = p \div 2
    BY <1>3, <1>4, <2>1, DepthAssumption
  <2>3. hash[level + 1] = HashWith(Node(tree, level, p), proof[level])
    BY <1>1, <1>8, <2>1
  <2>4. proof[level].isRight = p % 2 /\ proof[level].element = Node(tree, level, Sibling(p))
    BY <1>2
  <2>5. q \in Nat /\ Node(tree, level + 1, q) =
                         Poseidon(Node(tree, level, 2 * q), Node(tree, level, 2 * q + 1))
    <3>1. q \in Nat
      BY <1>4, <2>1, DepthAssumption
    <3> HIDE DEF q
    <3>2. \A j \in Nat : Node(tree, level + 1, j) =
                             Poseidon(Node(tree, level, 2 * j), Node(tree, level, 2 * j + 1))
      BY <2>1 DEF Represents, Hashed
    <3> QED BY <3>1, <3>2
  <2> HIDE DEF p, q
  <2>6. CASE p % 2 = 0
    <3>1. p = 2 * q /\ Sibling(p) = 2 * q + 1
      BY <2>2, <2>6 DEF Sibling
    <3> QED BY <2>1, <2>3, <2>4, <2>5, <2>6, <3>1 DEF HashWith, q
  <2>7. CASE p % 2 # 0
    <3>1. p = 2 * q + 1 /\ Sibling(p) = 2 * q
      BY <2>2, <2>7 DEF Sibling
    <3> QED BY <2>1, <2>3, <2>4, <2>5, <2>7, <3>1 DEF HashWith, q
  <2> QED BY <2>6, <2>7
<1>9. 0..Depth \subseteq T
  <2> HIDE DEF T
  <2> QED BY <1>7, <1>8, UpTo, DepthAssumption
<1>10. hash[Depth] = Node(tree, Depth, 0)
  BY <1>5, <1>9, DepthAssumption
<1> QED BY <1>1, <1>10 DEF getRoot, Node, leaf, proof

(***************************************************************************)
(* The two implementations agree on every list of leaves that fits: the    *)
(* client's root is the indexer's, and so are its proofs, whatever         *)
(* insertions the indexer's tree comes from; and each proof leads from its *)
(* leaf to the root.                                                       *)
(***************************************************************************)
THEOREM TreesOfLeavesAgree ==
  ASSUME NEW S, NEW tree, NEW leaves \in Seq(S), Len(leaves) <= Capacity, Represents(tree, leaves)
  PROVE  /\ clientRoot(fromLeaves(leaves)) = getRoot(tree)
         /\ \A other : Represents(other, leaves) => getRoot(other) = getRoot(tree)
         /\ \A i \in 1..Len(leaves) :
               /\ clientProof(fromLeaves(leaves), i - 1) = getProof(tree, i - 1)
               /\ RootOfProof(leaves[i], getProof(tree, i - 1)) = getRoot(tree)
<1> DEFINE client == fromLeaves(leaves)
<1>1. \A level \in 0..Depth : \A i \in Nat : ClientNode(client, level, i) = Node(tree, level, i)
  BY ClientNodes
<1>2. clientRoot(client) = getRoot(tree)
  <2>1. Len(client[Depth]) >= 1 /\ Len(client[Depth]) \in Nat
    <3>1. client[Depth] = LayerAbove(client[Depth - 1], Depth)
      BY ClientLevels, DepthAssumption
    <3>2. IsSequence(leaves)
      BY DEF IsSequence
    <3>3. IsSequence(client[Depth - 1]) /\ IsSequence(client[Depth])
      BY <3>2, ClientLayersType, DepthAssumption
    <3>4. Len(LayerAbove(client[Depth - 1], Depth)) >= 1
      <4>1. Depth \in 1..Depth
        BY DepthAssumption
      <4> HIDE DEF client
      <4> QED BY <3>3, <4>1, LayerAboveType
    <3>5. Len(client[Depth]) \in Nat
      BY <3>3 DEF IsSequence
    <3> QED BY <3>1, <3>4, <3>5
  <2> HIDE DEF client
  <2>2. ClientNode(client, Depth, 0) = client[Depth][1]
    BY <2>1 DEF ClientNode
  <2> QED BY <1>1, <2>2, DepthAssumption DEF clientRoot, getRoot, Node
<1>3. ASSUME NEW other, Represents(other, leaves) PROVE getRoot(other) = getRoot(tree)
  <2>1. Node(other, Depth, 0) = Node(tree, Depth, 0)
    BY <1>3, SameLeavesSameNodes, DepthAssumption
  <2> QED BY <2>1 DEF getRoot, Node
<1>4. ASSUME NEW i \in 1..Len(leaves)
      PROVE  /\ clientProof(client, i - 1) = getProof(tree, i - 1)
             /\ RootOfProof(leaves[i], getProof(tree, i - 1)) = getRoot(tree)
  <2> DEFINE path == ancestors(i - 1)
  <2>1. i - 1 \in Nat /\ i - 1 < Len(leaves) /\ (i - 1) + 1 = i /\ Len(leaves) \in Nat
    OBVIOUS
  <2>2. i - 1 < Capacity
    <3>1. Depth \in Nat
      BY DepthAssumption
    <3>2. Capacity \in Nat
      BY <3>1, Pow2Equation DEF Capacity
    <3> QED BY <2>1, <3>2
  <2>3. LeafAt(leaves, i - 1) = leaves[i]
    BY <2>1 DEF LeafAt
  <2>4. RootOfProof(leaves[i], getProof(tree, i - 1)) = getRoot(tree)
    BY <2>1, <2>2, <2>3, ProofLeadsToRoot
  <2>5. \A level \in 0..Depth : path[level] \in Nat
    BY <2>1, AncestorsType
  <2>6. ASSUME NEW level \in 0..(Depth - 1)
        PROVE  ClientNode(client, level, Sibling(path[level])) = Node(tree, level, Sibling(path[level]))
    <3>1. Sibling(path[level]) \in Nat
      BY <2>5, DepthAssumption DEF Sibling
    <3> QED BY <1>1, <3>1, DepthAssumption
  <2>7. clientProof(client, i - 1) = getProof(tree, i - 1)
    BY <2>6 DEF clientProof, getProof, ClientNode, Node
  <2> QED BY <2>4, <2>7
<1> QED BY <1>2, <1>3, <1>4

=============================================================================
