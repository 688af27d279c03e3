CONSTANTS
    a = a
    b = b
    c = c
    Sessions <- MCSessions
    Ops <- MCOps
    Metrics = {"request_count", "token_count"}
    Amounts = {1, 2}
    Specs <- MCSpecs
    Seed = seed
    NoLimit = NoLimit
SPECIFICATION FairSpec
INVARIANTS TypeOK RevokedUnlessRaced OneSuccessor
PROPERTIES RotationKeepsSettings LimitReplaced EveryCallEnds
