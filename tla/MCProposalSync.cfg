SPECIFICATION Spec
CONSTANTS
    Account = {builder}
    Owner = builder
    Commitment = {}
    NoCommitment = zero
    OwnershipRoot = {}
    BalancesRoot = {}
    NoRoot = zero
    Block = {1, 2, 3}
    ProposalId <- MCProposalId
    TreeBuilderKey = builder
    ProposalIdOf <- MCProposalIdOf
    PageSize = 2
    MinProposalBlock = 2
    Slot = {s1, s2}
    MaxReferenda = 3
    MaxFailures = 1
INVARIANTS
    SyncTypeOK
    RegisteredAtItsBlock
PROPERTIES
    EventuallyRegistered
