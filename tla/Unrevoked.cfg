CONSTANTS
    a = a
    b = b
    c = c
    Sessions <- MCSessions
    Ops <- MCRace
    Metrics = {"request_count", "token_count"}
    Amounts = {1, 2}
    Specs <- MCSpecs
    Seed = seed
    NoLimit = NoLimit
SPECIFICATION Spec
INVARIANTS RevocationIsTerminal
