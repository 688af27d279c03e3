CONSTANTS
    p = p
    d = d
    Calls = {q1, q2}
    Pendings <- MCPendings
    Flow <- MCFlow
    Codes = {c1, c2}
    Key = key
    NoChallenge = none
    MaxAttempts = 2
SPECIFICATION FairSpec
INVARIANTS TypeOK PaidOnce ConsumedForGood ConsumedForCause AnswerIsTrue
PROPERTIES EveryCallEnds
CHECK_DEADLOCK FALSE
