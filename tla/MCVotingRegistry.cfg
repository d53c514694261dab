SPECIFICATION RegistrySpec
CONSTANTS
    Account = {a1, a2}
    Owner = a1
    Commitment = {c1, c2}
    NoCommitment = zero
    OwnershipRoot = {or1, or2}
    BalancesRoot = {br1, br2}
    NoRoot = zero
    Block <- MCBlock
    ProposalId = {p1}
INVARIANTS
    RegistryTypeOK
    OneRegistrationPerAccount
    SnapshotRecordsAgree
PROPERTIES
    SnapshotOnlyAdvances
    ReadyIsForever
