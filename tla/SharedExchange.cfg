SPECIFICATION Spec
CONSTANTS
    Requests = {r1, r2}
    Operators = {}
    Rotates = TRUE
    MaxAttempts = 3
    OperationTime = 6
    BackoffTime = 1
    LockTTL = 3
    MaxFaults = 0
    NoOne = NoOne
INVARIANTS
    ExchangeExclusive
