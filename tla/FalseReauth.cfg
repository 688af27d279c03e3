SPECIFICATION Spec
CONSTANTS
    Requests = {r1, r2}
    Operators = {}
    Rotates = TRUE
    MaxAttempts = 2
    OperationTime = 2
    BackoffTime = 1
    LockTTL = 1
    MaxFaults = 0
    NoOne = NoOne
INVARIANTS
    NoFalseReauth
