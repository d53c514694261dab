----------------------------- MODULE MerkleTree ------------------------------
(***************************************************************************)
(* The two implementations of the Poseidon Merkle tree and the check of a  *)
(* proof: the indexer's (indexer/src/trees/PoseidonMerkleTree.ts), which   *)
(* is updated in place, and the client's (client-lib/src/merkle-tree.ts),  *)
(* which is rebuilt from its leaves.                                       *)
(*                                                                         *)
(* Poseidon is taken to be free of collisions: a hash is the pair of what  *)
(* was hashed.  The field element 0 of an empty leaf is the empty tuple.   *)
(***************************************************************************)
EXTENDS Integers, Sequences

CONSTANT Depth

ASSUME DepthAssumption == Depth \in 1..32

Pow2[n \in Nat] == IF n = 0 THEN 1 ELSE 2 * Pow2[n - 1]

Capacity == Pow2[Depth]

Poseidon(left, right) == <<left, right>>

zeroValues[level \in 0..Depth] ==
    IF level = 0 THEN <<>> ELSE Poseidon(zeroValues[level - 1], zeroValues[level - 1])

(* The index on each level of the node above leaf i.                       *)
ancestors(i) ==
    LET above[level \in 0..Depth] == IF level = 0 THEN i ELSE above[level - 1] \div 2
    IN  above

-----------------------------------------------------------------------------
(* The indexer's tree: layers[level] maps the indices set so far, from 0   *)

EmptyTree == [nextIndex |-> 0, layers |-> [level \in 0..Depth |-> [i \in {} |-> <<>>]]]

(* A node that was never set reads as the zero value of its level.         *)
getNode(layer, level, i) == IF i \in DOMAIN layer THEN layer[i] ELSE zeroValues[level]

getRoot(tree) == getNode(tree.layers[Depth], Depth, 0)

HashOfChildren(below, level, i) ==
    Poseidon(getNode(below, level - 1, 2 * i), getNode(below, level - 1, 2 * i + 1))

(* A full tree throws: there is no such tree.                              *)
CanInsert(tree, n) == tree.nextIndex + n <= Capacity

SetNode(layer, i, node) ==
    [j \in DOMAIN layer \cup {i} |-> IF j = i THEN node ELSE layer[j]]

(* insert with updatePath: one node is set on each level.                  *)
insert(tree, leaf) ==
    LET path == ancestors(tree.nextIndex)
        updated[level \in 0..Depth] ==
            SetNode(tree.layers[level], path[level],
                    IF level = 0 THEN leaf
                    ELSE HashOfChildren(updated[level - 1], level, path[level]))
    IN  [nextIndex |-> tree.nextIndex + 1, layers |-> updated]

insertAll(tree, leaves) ==
    LET after[n \in 0..Len(leaves)] ==
            IF n = 0 THEN tree ELSE insert(after[n - 1], leaves[n])
    IN  after[Len(leaves)]

Placed(layer, start, leaves) ==
    LET places == start..(start + Len(leaves) - 1)
    IN  [i \in DOMAIN layer \cup places |->
            IF i \in places THEN leaves[i - start + 1] ELSE layer[i]]

RebuiltLayer(layer, level, below, first, last) ==
    [i \in DOMAIN layer \cup (first..last) |->
        IF i \in first..last THEN HashOfChildren(below, level, i) ELSE layer[i]]

(* Mutant: the first node rebuilt on a level is rounded up.                *)
rebuildFromNext(layers, start, next, leaves) ==
    LET up[level \in 0..Depth] ==
            IF level = 0 THEN Placed(layers[0], start, leaves)
            ELSE RebuiltLayer(layers[level], level, up[level - 1],
                              (ancestors(start)[level - 1] + 1) \div 2, ancestors(next - 1)[level])
    IN  up

(* All leaves are placed, then each level is rebuilt from the first to the *)
(* last node above a new leaf.                                             *)
rebuild(layers, start, next, leaves) ==
    LET up[level \in 0..Depth] ==
            IF level = 0 THEN Placed(layers[0], start, leaves)
            ELSE RebuiltLayer(layers[level], level, up[level - 1],
                              ancestors(start)[level], ancestors(next - 1)[level])
    IN  up

bulkInsert(tree, leaves) ==
    LET next == tree.nextIndex + Len(leaves)
    IN  [nextIndex |-> next, layers |-> rebuild(tree.layers, tree.nextIndex, next, leaves)]

Sibling(i) == IF i % 2 = 1 THEN i - 1 ELSE i + 1

getProof(tree, index) ==
    [level \in 0..(Depth - 1) |->
        LET i == ancestors(index)[level]
        IN  [isRight |-> i % 2, element |-> getNode(tree.layers[level], level, Sibling(i))]]

HashWith(hash, step) == IF step.isRight = 0 THEN Poseidon(hash, step.element)
                                            ELSE Poseidon(step.element, hash)

(* verifyProof, and what MerkleProof.circom constrains.                    *)
RootOfProof(leaf, proof) ==
    LET hash[level \in 0..Depth] ==
            IF level = 0 THEN leaf ELSE HashWith(hash[level - 1], proof[level - 1])
    IN  hash[Depth]

-----------------------------------------------------------------------------
(* The client's tree: layers as long as their nodes, indexed from 1 *)

LayerAbove(prev, level) ==
    IF prev = <<>>
    THEN <<zeroValues[level]>>
    ELSE [i \in 1..((Len(prev) + 1) \div 2) |->
             Poseidon(prev[2 * i - 1],
                      IF 2 * i <= Len(prev) THEN prev[2 * i] ELSE zeroValues[level - 1])]

fromLeaves(leaves) ==
    LET build[level \in 0..Depth] ==
            IF level = 0 THEN leaves ELSE LayerAbove(build[level - 1], level)
    IN  build

clientRoot(layers) == layers[Depth][1]

clientProof(layers, index) ==
    [level \in 0..(Depth - 1) |->
        LET i == ancestors(index)[level]
        IN  [isRight |-> i % 2,
             element |-> IF Sibling(i) < Len(layers[level]) THEN layers[level][Sibling(i) + 1]
                                                            ELSE zeroValues[level]]]

=============================================================================
