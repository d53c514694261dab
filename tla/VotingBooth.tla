---------------------------- MODULE VotingBooth -----------------------------
(***************************************************************************)
(* The VotingBooth contract (contracts/src/VotingBooth.sol): the tiers, and*)
(* vote(), which checks a proof against the registry's roots and counts it.*)
(* As in VotingRegistry, an action is a transaction that did not revert.   *)
(***************************************************************************)
EXTENDS VotingRegistry, PrivateVoteCircuit

CONSTANTS
    Secret,         \* voters' secrets
    TierInput,      \* arguments configureTier is called with, uint256 each
    MaxTiers        \* bound on configured tiers; the contract has none

ASSUME BoothAssumption ==
    /\ TierInput \subseteq [min : Nat, max : Nat, weight : Nat]
    /\ MaxTiers \in Nat \ {0}

VARIABLES
    tiers,          \* TierConfig[], without packedConfig, which they determine
    tally,          \* proposal => tier => choice => weighted count
    nullifierUsed,  \* proposal => the nullifiers used
    totalVotes,     \* proposal => votes counted
    voteCast        \* the VoteCast events emitted

boothVars == <<tiers, tally, nullifierUsed, totalVotes, voteCast>>

(* vote takes the tier as a uint8.                                         *)
Tier      == {t \in 0..255 : t < MaxTiers}
Choice    == 0..2           \* nay, aye, abstain
Nullifier == {NullifierOf(s, p) : s \in Secret, p \in ProposalId}

TierConfig == [min : Nat, max : Nat, weight : Nat]
VoteCast   == [proposalId : ProposalId, tier : Tier, choice : Choice, nullifier : Nullifier]

BoothTypeOK ==
    /\ tiers \in Seq(TierConfig)
    /\ Len(tiers) <= MaxTiers
    /\ tally \in [ProposalId -> [Tier -> [Choice -> Nat]]]
    /\ nullifierUsed \in [ProposalId -> SUBSET Nullifier]
    /\ totalVotes \in [ProposalId -> Nat]
    /\ voteCast \in SUBSET VoteCast

BoothInit ==
    /\ tiers = <<>>
    /\ tally = [p \in ProposalId |-> [t \in Tier |-> [c \in Choice |-> 0]]]
    /\ nullifierUsed = [p \in ProposalId |-> {}]
    /\ totalVotes = [p \in ProposalId |-> 0]
    /\ voteCast = {}

configureTier(sender, min, max, weight) ==
    /\ sender = Owner
    /\ Len(tiers) < MaxTiers
    /\ tiers' = Append(tiers, [min |-> min, max |-> max, weight |-> weight])
    /\ UNCHANGED <<tally, nullifierUsed, totalVotes, voteCast>>

(* Bitwise or.                                                             *)
bitOr[a \in Nat, b \in Nat] ==
    IF a = 0 THEN b
             ELSE 2 * bitOr[a \div 2, b \div 2] + (IF 1 \in {a % 2, b % 2} THEN 1 ELSE 0)

(* Mutant: the lower bound is shifted too little.                          *)
packedShort(t) == t.min * (TwoTo128 \div 2) + t.max

(***************************************************************************)
(* The packed bounds configureTier stores with a tier, (min << 128) | max  *)
(* in 256 bits.  The bits of min beyond 128 are shifted out, and a max     *)
(* below 2^128 overlaps no bit of the shifted min.                         *)
(***************************************************************************)
packedConfig(t) ==
    LET shifted == (t.min % TwoTo128) * TwoTo128
    IN  IF t.max < TwoTo128 THEN shifted + t.max ELSE bitOr[shifted, t.max]

(* Groth16 verification: a proof holds for the public inputs it was made   *)
(* for, and is represented by them.  They must be elements of the field.   *)
verifyProof(proof, pubInputs) ==
    /\ pubInputs.tierConfig < FieldPrime
    /\ proof = pubInputs

IsUnused(p, n) == n \notin nullifierUsed[p]

(* Mutant: a vote weighs one, whatever its tier.                           *)
recordUnweighted(call, weight) ==
    LET p == call.proposalId
    IN  /\ nullifierUsed' = [nullifierUsed EXCEPT ![p] = @ \cup {call.nullifier}]
        /\ tally' = [tally EXCEPT ![p][call.tier][call.voteChoice] = @ + 1]
        /\ totalVotes' = [totalVotes EXCEPT ![p] = @ + 1]
        /\ voteCast' = voteCast \cup {[proposalId |-> p, tier |-> call.tier,
                                       choice |-> call.voteChoice,
                                       nullifier |-> call.nullifier]}

(* Mutant: the event's tier and choice are swapped.                        *)
recordSwapped(call, weight) ==
    LET p == call.proposalId
    IN  /\ nullifierUsed' = [nullifierUsed EXCEPT ![p] = @ \cup {call.nullifier}]
        /\ tally' = [tally EXCEPT ![p][call.tier][call.voteChoice] = @ + weight]
        /\ totalVotes' = [totalVotes EXCEPT ![p] = @ + 1]
        /\ voteCast' = voteCast \cup {[proposalId |-> p, tier |-> call.voteChoice,
                                       choice |-> call.tier,
                                       nullifier |-> call.nullifier]}

(* Mutant: nullifiers are used up on every proposal at once.               *)
recordOnAll(call, weight) ==
    LET p == call.proposalId
    IN  /\ nullifierUsed' = [q \in ProposalId |-> nullifierUsed[q] \cup {call.nullifier}]
        /\ tally' = [tally EXCEPT ![p][call.tier][call.voteChoice] = @ + weight]
        /\ totalVotes' = [totalVotes EXCEPT ![p] = @ + 1]
        /\ voteCast' = voteCast \cup {[proposalId |-> p, tier |-> call.tier,
                                       choice |-> call.voteChoice,
                                       nullifier |-> call.nullifier]}

(* What a vote that passed every check changes.                            *)
recordVote(call, weight) ==
    LET p == call.proposalId
    IN  /\ nullifierUsed' = [nullifierUsed EXCEPT ![p] = @ \cup {call.nullifier}]
        /\ tally' = [tally EXCEPT ![p][call.tier][call.voteChoice] = @ + weight]
        /\ totalVotes' = [totalVotes EXCEPT ![p] = @ + 1]
        /\ voteCast' = voteCast \cup {[proposalId |-> p, tier |-> call.tier,
                                       choice |-> call.voteChoice,
                                       nullifier |-> call.nullifier]}

(***************************************************************************)
(* vote: call carries the arguments that are not the proof.                *)
(***************************************************************************)
vote(proof, call) ==
    LET p == call.proposalId
        config == tiers[call.tier + 1]
    IN  /\ IsUnused(p, call.nullifier)
        /\ isKnownOwnershipRoot(call.ownershipRoot)
        /\ proposalBlock[p] > 0
        /\ \E s \in submittedBlockSet :
              /\ IsSnapshotFor(proposalBlock[p], s)
              /\ call.balancesRoot = blockToBalancesRoot[s]
        /\ call.tier < Len(tiers)
        /\ call.voteChoice <= 2
        /\ verifyProof(proof, [ownershipRoot |-> call.ownershipRoot,
                               balancesRoot  |-> call.balancesRoot,
                               proposalId    |-> p,
                               voteChoice    |-> call.voteChoice,
                               tier          |-> call.tier,
                               nullifier     |-> call.nullifier,
                               tierConfig    |-> packedConfig(config)])
        /\ recordVote(call, config.weight)
        /\ UNCHANGED tiers

=============================================================================
