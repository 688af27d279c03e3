SPECIFICATION FairSpec
CONSTANTS
    Requests = {r1, r2}
    Operators = {o1}
    Rotates = TRUE
    MaxAttempts = 2
    OperationTime = 2
    BackoffTime = 1
    LockTTL = 1
    MaxFaults = 1
    NoOne = NoOne
INVARIANTS
    TypeOK
    NoSecretAfterDelete
    RotationAccounted
PROPERTIES
    StoredNeverRegresses
    EveryRequestEnds
    LockEventuallyFree
