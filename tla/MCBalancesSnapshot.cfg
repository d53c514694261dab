SPECIFICATION Spec
CONSTANTS
    Depth = 2
    Chain <- MCChain
    Margin = 1
    MaxExpansions = 3
    AccountsAt <- MCAccountsAt
    Derived <- MCDerived
    OriginalAt <- MCOriginalAt
    MinBalance = 1
    Bounds <- MCBounds
    Concurrency = 2
    PageSize = 2
    BatchSize = 1
    MaxRetries = 2
    MaxTimeouts = 2
    MaxUnwritten = 1
INVARIANTS
    SnapshotTypeOK
    SnapshotIsFirstOfToday
    ScanIsComplete
    TreesAgree
PROPERTIES
    SnapshotEnds
CHECK_DEADLOCK FALSE
