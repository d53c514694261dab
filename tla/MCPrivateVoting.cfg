SPECIFICATION Spec
CONSTANTS
    a1 = a1
    a2 = a2
    Account = {a1, a2}
    Owner = a1
    Secret = {s1, s2}
    Commitment <- MCCommitment
    NoCommitment = zero
    OwnershipRoot <- MCOwnershipRoot
    BalancesRoot <- MCBalancesRoot
    NoRoot = zero
    Block <- MCBlock
    ProposalId = {p1, p2}
    BalancesAt <- MCBalancesAt
    TwoTo128 = 4
    CompareRange = 8
    FieldPrime = 17
    ClientTiers <- MCClientTiers
    TierInput <- MCTierInput
    MaxTiers = 1
INVARIANTS
    TypeOK
    VotesCountedOnce
    KnownRootsArePrefixes
    OnlyRegisteredBallots
    VotesBoundedByCommitments
PROPERTIES
    ImplementsBallotBox
    ClientVotesAreEligible
SYMMETRY MCSymmetry
