------------------------- MODULE PrivateVoteCircuit -------------------------
(***************************************************************************)
(* The relation the PrivateVote circuit proves (circuits/PrivateVote.circom*)
(* with lib/MerkleProof and lib/RangeProof), and the public inputs the     *)
(* client library derives a proof for (client-lib/src/prover.ts).          *)
(*                                                                         *)
(* Poseidon is injective on the values in use, so a hash is the record of  *)
(* its inputs.  A Merkle root is likewise the tree's contents: the         *)
(* ownership root is the sequence of leaves, the balances root is the      *)
(* function from the accounts of the snapshot to their balances; a leaf    *)
(* has a Merkle proof exactly when it is in the tree.  Where the circuit   *)
(* calculates, it does so in the field.                                    *)
(***************************************************************************)
EXTENDS Integers, Sequences

CONSTANTS
    TwoTo128,       \* the shift of the packed tier bounds
    CompareRange,   \* 2^252: RangeProof compares 252-bit numbers
    FieldPrime,     \* the order r of BN254, between 2^253 and 2^254
    ClientTiers     \* TIERS of client-lib/src/tiers.ts: <<[min, max], ...>>

PackTierConfig(min, max) == min * TwoTo128 + max

ASSUME CircuitAssumption ==
    /\ TwoTo128 \in Nat \ {0}
    /\ CompareRange \in Nat /\ TwoTo128 <= CompareRange
    /\ FieldPrime \in Nat /\ 2 * CompareRange < FieldPrime
    /\ ClientTiers \in Seq([min : Nat, max : Nat])
    /\ \A i \in 1..Len(ClientTiers) :
           /\ ClientTiers[i].max <= TwoTo128
           /\ PackTierConfig(ClientTiers[i].min, ClientTiers[i].max) < FieldPrime

FieldElement == 0..(FieldPrime - 1)

CommitmentOf(secret) == [secret |-> secret]

NullifierOf(secret, proposalId) == [secret |-> secret, proposalId |-> proposalId]

OwnershipLeaf(address, commitment) == [account |-> address, commitment |-> commitment]

(* Mutant: the leaf does not bind the commitment.                          *)
AccountInOwnershipTree(root, leaf) == \E i \in 1..Len(root) : root[i].account = leaf.account

InOwnershipTree(root, leaf) == \E i \in 1..Len(root) : root[i] = leaf

InBalancesTree(root, address, balance) ==
    address \in DOMAIN root /\ root[address] = balance

(***************************************************************************)
(* LessThan(252) decides a < b by the top bit of a + 2^252 - b, which it   *)
(* splits into 253 bits: no inputs satisfy it when that field element has  *)
(* more.                                                                   *)
(***************************************************************************)
LessThan(a, b, out) ==
    LET difference == (a + CompareRange - b) % FieldPrime
    IN  /\ difference < 2 * CompareRange
        /\ out = (difference < CompareRange)

RangeProof(value, lower, upper) ==
    /\ LessThan(value, lower, FALSE)
    /\ LessThan(value, upper, TRUE)

(***************************************************************************)
(* The constraints of PrivateVote on public inputs pub and private w.      *)
(***************************************************************************)
PrivateVote(pub, w) ==
    /\ pub.nullifier = NullifierOf(w.secret, pub.proposalId)
    /\ InOwnershipTree(pub.ownershipRoot, OwnershipLeaf(w.address, CommitmentOf(w.secret)))
    /\ InBalancesTree(pub.balancesRoot, w.address, w.balance)
    /\ RangeProof(w.balance, w.tierMin, w.tierMax)
    /\ pub.tierConfig = PackTierConfig(w.tierMin, w.tierMax) % FieldPrime
    /\ pub.voteChoice \in 0..2

(***************************************************************************)
(* Whoever knows the secret can prove pub for the account: the private     *)
(* inputs are the prover's to choose, the bounds of the tier among them.   *)
(* Any tierMin will do, and the last constraint gives the tierMax to it.   *)
(***************************************************************************)
Provable(address, secret, pub) ==
    /\ address \in DOMAIN pub.balancesRoot
    /\ \E tierMin \in FieldElement :
          PrivateVote(pub, [secret  |-> secret,
                            address |-> address,
                            balance |-> pub.balancesRoot[address],
                            tierMin |-> tierMin,
                            tierMax |-> (pub.tierConfig - tierMin * TwoTo128) % FieldPrime])

-----------------------------------------------------------------------------
(* The client library *)

InBounds(balance, t) == t.min <= balance /\ balance < t.max

(* determineTier returns t: the first tier whose range holds the balance.  *)
(* It throws when there is none.  Tier ids count from 0.                   *)
DeterminesTier(balance, t) ==
    LET Holds(i) == InBounds(balance, ClientTiers[i])
    IN  /\ t + 1 \in 1..Len(ClientTiers)
        /\ Holds(t + 1)
        /\ \A i \in 1..t : ~Holds(i)

(* The public inputs generateVoteProof asks a proof for.                   *)
VoteInputs(secret, ownershipRoot, balancesRoot, proposalId, voteChoice, tier) ==
    [ownershipRoot |-> ownershipRoot,
     balancesRoot  |-> balancesRoot,
     proposalId    |-> proposalId,
     voteChoice    |-> voteChoice,
     tier          |-> tier,
     nullifier     |-> NullifierOf(secret, proposalId),
     tierConfig    |-> PackTierConfig(ClientTiers[tier + 1].min, ClientTiers[tier + 1].max)]

(***************************************************************************)
(* generateVoteProof yields a proof for pub to the voter who holds address *)
(* and secret.  It throws when the address is missing from one of the two  *)
(* trees, when no tier holds its balance, or when fullProve finds the      *)
(* constraints unsatisfied, as it does when the leaf of the address        *)
(* commits to another secret.                                              *)
(***************************************************************************)
GeneratesVoteProof(address, secret, pub) ==
    /\ \E i \in 1..Len(pub.ownershipRoot) : pub.ownershipRoot[i].account = address
    /\ address \in DOMAIN pub.balancesRoot
    /\ DeterminesTier(pub.balancesRoot[address], pub.tier)
    /\ PrivateVote(pub, [secret  |-> secret,
                         address |-> address,
                         balance |-> pub.balancesRoot[address],
                         tierMin |-> ClientTiers[pub.tier + 1].min,
                         tierMax |-> ClientTiers[pub.tier + 1].max])

=============================================================================
