SPECIFICATION Spec
CONSTANTS
    Account = {builder}
    Owner = builder
    Commitment = {}
    NoCommitment = "none"
    OwnershipRoot = {}
    BalancesRoot <- MCBalancesRoot
    NoRoot = "none"
    Block <- MCBlock
    ProposalId = {}
    BalancesAt <- MCBalancesAt
    HalfFile = "half a file"
    TreeBuilderKey = builder
    StaleAfter = 0
    DailyJobs = {"monday", "tuesday"}
    MaxFaults = 1
INVARIANTS
    BalancesTypeOK
    StoredUnderItsBlock
PROPERTIES
    PublishesBalancesOfTheBlock
    RootsGetTheirTree
    SnapshotReachesTheChain
CHECK_DEADLOCK FALSE
