SPECIFICATION Spec
CONSTANTS
    a1 = a1
    a2 = a2
    a3 = a3
    Account = {a1, a2}
    Owner = a1
    Commitment = {c1}
    NoCommitment = zero
    OwnershipRoot <- MCOwnershipRoot
    BalancesRoot = {}
    NoRoot = zero
    Block = {}
    ProposalId = {}
    TreeBuilderKey = a1
    Slot = {s1, s2}
    MaxFailures = 2
    MaxCrashes = 2
INVARIANTS
    IndexerTypeOK
    EventsInOrder
PROPERTIES
    PublishesAllRegistrations
    EventuallyPublished
