-------------------------- MODULE MCPrivateVoting ---------------------------
(***************************************************************************)
(* Two accounts and two secrets, either of which either account may commit *)
(* to; two blocks with different balances of account a1, in the first of   *)
(* which a2 has none.  The tier is configured as the client has it, with a *)
(* higher lower bound, or with an upper bound that does not fit its half   *)
(* of the packed form.  All bounds are those of the constants: the state   *)
(* space is finite as it is.                                               *)
(***************************************************************************)
EXTENDS PrivateVoting, TLC

CONSTANTS a1, a2

MCBlock == {1, 2}

Tree1 == [a \in {a1} |-> 1]
Tree2 == [a \in {a1, a2} |-> 2]

MCBalancesRoot == {Tree1, Tree2}
MCBalancesAt   == <<Tree1, Tree2>>
MCCommitment   == {CommitmentOf(s) : s \in Secret}

(* Proposals differ in nothing but their names, and so do secrets.         *)
MCSymmetry == Permutations(ProposalId) \cup Permutations(Secret)

MCLeaf == [account : Account, commitment : MCCommitment]
MCOwnershipRoot ==
    {regs \in UNION {[1..n -> MCLeaf] : n \in 0..Cardinality(Account)} : DistinctAccounts(regs)}

(* The client's last tier ends at TwoTo128 itself, as in tiers.ts.         *)
MCClientTiers == <<[min |-> 1, max |-> 3], [min |-> 3, max |-> 4]>>

MCTierInput ==
    {[min |-> 1, max |-> 3, weight |-> 1],
     [min |-> 2, max |-> 3, weight |-> 3],
     [min |-> 3, max |-> 7, weight |-> 2]}

=============================================================================
