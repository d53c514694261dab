SPECIFICATION Spec
CONSTANTS
    TwoTo128 = 8
    CompareRange = 16
    FieldPrime = 53
    ClientTiers <- MCClientTiers
    Account = {a1, a2}
    NoAccount = none
    MaxSecrets = 2
    MaxMoves = 4
    ProposalId = p1
    Choice = {0, 1}
    BalancesRoot <- MCBalancesRoot
    WalletElsewhere = TRUE
INVARIANTS
    StoredSecretIsRegistered
CHECK_DEADLOCK FALSE
