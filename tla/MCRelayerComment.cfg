SPECIFICATION Spec
CONSTANTS
    r1 = r1
    r2 = r2
    r3 = r3
    n1 = n1
    n2 = n2
    Request = {r1, r2, r3}
    Nullifier = {n1, n2}
    NullifierOf <- MCNullifierOf
    MaxQueueSize = 1
    MaxCrashes = 0
INVARIANT WaitsForPrevious
