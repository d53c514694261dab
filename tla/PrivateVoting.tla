--------------------------- MODULE PrivateVoting ----------------------------
(***************************************************************************)
(* The two contracts together with the parties that use them: voters who   *)
(* register commitments and cast votes, the tree builder (the indexer and  *)
(* script/backfill-roots.ts) and the owner who configures tiers.  Anyone   *)
(* may send a vote, with any proof the circuit accepts.                    *)
(*                                                                         *)
(* The tree builder publishes correct trees, which is a theorem about the  *)
(* indexer: OwnershipIndexerProofs for the ownership tree, and for the     *)
(* balances BalancesIndexerProofs and BalancesSnapshotProofs.              *)
(***************************************************************************)
EXTENDS VotingBooth

CONSTANT BalancesAt     \* block => the balances tree of the chain state there

DistinctAccounts(regs) ==
    \A i, j \in DOMAIN regs : regs[i].account = regs[j].account => i = j

(***************************************************************************)
(* Commitments and ownership trees are those the voters' secrets and the   *)
(* registrations give rise to.                                             *)
(***************************************************************************)
ASSUME VotingAssumption ==
    /\ BalancesAt \in [Block -> BalancesRoot]
    /\ {CommitmentOf(s) : s \in Secret} \subseteq Commitment
    /\ \A n \in 0..Cardinality(Account) : \A regs \in [1..n -> Registration] :
           DistinctAccounts(regs) => regs \in OwnershipRoot
    /\ \A root \in OwnershipRoot : Len(root) \in Nat
    /\ \A root \in BalancesRoot : \A a \in DOMAIN root : root[a] \in Nat

vars == <<registryVars, boothVars>>

TypeOK == RegistryTypeOK /\ BoothTypeOK

Init == RegistryInit /\ BoothInit

-----------------------------------------------------------------------------
Register ==
    /\ \E sender \in Account, secret \in Secret : register(sender, CommitmentOf(secret))
    /\ UNCHANGED boothVars

PublishOwnershipRoot ==
    /\ submitOwnershipRoot(treeBuilder, registrations, Len(registrations))
    /\ UNCHANGED boothVars

PublishBalancesRoot ==
    /\ \E b \in Block : submitBalancesRoot(treeBuilder, BalancesAt[b], b)
    /\ UNCHANGED boothVars

RegisterProposal ==
    /\ \E p \in ProposalId, b \in Block : registerProposal(treeBuilder, p, b)
    /\ UNCHANGED boothVars

ReplaceTreeBuilder ==
    /\ \E newBuilder \in Account : setTreeBuilder(Owner, newBuilder)
    /\ UNCHANGED boothVars

ConfigureTier ==
    /\ \E t \in TierInput : configureTier(Owner, t.min, t.max, t.weight)
    /\ UNCHANGED registryVars

(***************************************************************************)
(* A proof reaches the contract, through the relayer or directly.  It was  *)
(* made from whatever trees the voter has: the indexer uploads its         *)
(* ownership tree before it submits the root, and also when it has missed  *)
(* a registration (indexer/src/index.ts), so the trees need not be ones    *)
(* whose roots are, or will ever be, on chain.  A proof for other bounds   *)
(* than those the contract holds for the tier does not verify.             *)
(***************************************************************************)
CastVote ==
    /\ \E secret \in Secret, p \in ProposalId, choice \in Choice,
          ownershipTree \in OwnershipRoot, balancesTree \in BalancesRoot, tier \in Tier :
          LET pub == [ownershipRoot |-> ownershipTree,
                      balancesRoot  |-> balancesTree,
                      proposalId    |-> p,
                      voteChoice    |-> choice,
                      tier          |-> tier,
                      nullifier     |-> NullifierOf(secret, p),
                      tierConfig    |-> packedConfig(tiers[tier + 1])]
          IN  /\ tier < Len(tiers)
              /\ vote(pub, pub)
              /\ {address \in Account : Provable(address, secret, pub)} # {}
    /\ UNCHANGED registryVars

Next ==
    \/ Register
    \/ PublishOwnershipRoot
    \/ PublishBalancesRoot
    \/ RegisterProposal
    \/ ReplaceTreeBuilder
    \/ ConfigureTier
    \/ CastVote

Spec == Init /\ [][Next]_vars

-----------------------------------------------------------------------------
(* Properties *)

BallotsOf(p) == {e \in voteCast : e.proposalId = p}

(***************************************************************************)
(* Three records of a proposal's votes agree (vote, lines 159-163): the    *)
(* count, the set of used nullifiers and the events.  No two events share  *)
(* a nullifier, so no vote is counted twice and none is lost.              *)
(***************************************************************************)
VotesCountedOnce ==
    \A p \in ProposalId :
        /\ totalVotes[p] = Cardinality(BallotsOf(p))
        /\ nullifierUsed[p] = {e.nullifier : e \in BallotsOf(p)}
        /\ \A e, f \in BallotsOf(p) : e.nullifier = f.nullifier => e = f

(***************************************************************************)
(* Every known ownership root is the root of the registrations up to some  *)
(* moment.  This is what ties a proof of membership to a registration.     *)
(***************************************************************************)
KnownRootsArePrefixes ==
    \A root \in knownOwnershipRoots :
        /\ Len(root) <= Len(registrations)
        /\ \A i \in 1..Len(root) : root[i] = registrations[i]

(***************************************************************************)
(* Ballot e belongs to an account: its nullifier comes from the secret the *)
(* account committed to when it registered, and the account is in the      *)
(* submitted snapshot s, not after the proposal's block.                   *)
(***************************************************************************)
BelongsTo(e, i, s) ==
    /\ i \in 1..Len(registrations)
    /\ s \in submittedBlockSet
    /\ \E secret \in Secret :
          /\ registrations[i].commitment = CommitmentOf(secret)
          /\ e.nullifier = NullifierOf(secret, e.proposalId)
    /\ s <= proposalBlock[e.proposalId]
    /\ registrations[i].account \in DOMAIN blockToBalancesRoot[s]

(***************************************************************************)
(* A ballot is counted only for a registered account that the balances of  *)
(* the proposal know, and in a tier that exists, whoever made the proof    *)
(* and from whatever trees (vote and PrivateVote.circom).                  *)
(* That the balance is in the tier does not follow for a proof made        *)
(* without the client library: the circuit leaves both bounds to the       *)
(* prover and binds only their packed form, which other bounds have too.   *)
(***************************************************************************)
OnlyRegisteredBallots ==
    \A e \in voteCast :
        /\ e.tier < Len(tiers)
        /\ \E i \in 1..Len(registrations), s \in submittedBlockSet : BelongsTo(e, i, s)

(* The account's balance there lies in the bounds the contract holds for   *)
(* the tier the ballot is counted in.                                      *)
IsEligible(e) ==
    /\ e.tier < Len(tiers)
    /\ \E i \in 1..Len(registrations), s \in submittedBlockSet :
          /\ BelongsTo(e, i, s)
          /\ InBounds(blockToBalancesRoot[s][registrations[i].account], tiers[e.tier + 1])

(***************************************************************************)
(* The ballot a step counts is one generateVoteProof made the proof of, in *)
(* a tier whose bounds are in order and fit the 128 bits the packed form   *)
(* has for each.                                                           *)
(***************************************************************************)
CastByClient(e) ==
    /\ e \notin voteCast
    /\ tiers[e.tier + 1].min < tiers[e.tier + 1].max
    /\ tiers[e.tier + 1].max < TwoTo128
    /\ e.tier < Len(ClientTiers)
    /\ \E secret \in Secret, root \in knownOwnershipRoots, s \in submittedBlockSet,
          address \in Account :
          LET pub == VoteInputs(secret, root, blockToBalancesRoot[s],
                                e.proposalId, e.choice, e.tier)
          IN  vote(pub, pub) /\ GeneratesVoteProof(address, secret, pub)

(***************************************************************************)
(* A vote made with the client library is counted in a tier the voter's    *)
(* balance is in, although library and contract each have a table of tiers *)
(* and only their packed bounds are compared.  And an eligible ballot      *)
(* stays one, whatever is registered, submitted or configured later.       *)
(***************************************************************************)
ClientVotesAreEligible ==
    [][\A e \in voteCast' :
          (IF e \in voteCast THEN IsEligible(e) ELSE CastByClient(e)) => IsEligible(e)']_vars

(***************************************************************************)
(* A proposal never gets more votes than there are distinct commitments    *)
(* registered: whatever trees a voter proves against, and however often,   *)
(* the secret gives one vote.                                              *)
(***************************************************************************)
VotesBoundedByCommitments ==
    \A p \in ProposalId :
        totalVotes[p] <= Cardinality({registrations[i].commitment : i \in 1..Len(registrations)})

(***************************************************************************)
(* The contracts implement the ballot box: the events are the ballots, the *)
(* tally is their weighted count by tier and choice, and a step of the     *)
(* contracts casts at most one ballot or adds at most one tier.            *)
(***************************************************************************)
TierWeights == [i \in 1..Len(tiers) |-> tiers[i].weight]

Box == INSTANCE BallotBox WITH
           Weight    <- {t.weight : t \in TierInput},
           ballots   <- voteCast,
           weights   <- TierWeights,
           results   <- tally,
           voteCount <- totalVotes

ImplementsBallotBox == Box!Spec

(***************************************************************************)
(* What makes the properties above inductive: a ballot's tier exists, and  *)
(* the tally is the count.                                                 *)
(***************************************************************************)
TallyIsCount ==
    /\ tally = Box!ResultsOf(voteCast, TierWeights)
    /\ \A i \in 1..Len(tiers) : tiers[i].weight \in {t.weight : t \in TierInput}
    /\ \A e \in voteCast : e.tier < Len(tiers)
    /\ IsFiniteSet(voteCast)

VotingInv ==
    /\ BoothTypeOK
    /\ VotesCountedOnce
    /\ TallyIsCount
    /\ KnownRootsArePrefixes
    /\ OnlyRegisteredBallots

=============================================================================
