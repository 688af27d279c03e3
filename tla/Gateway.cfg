SPECIFICATION Spec
CONSTANTS
    h1 = h1
    h2 = h2
    a1 = a1
    a2 = a2
    token = token
    Nobody = Nobody
    Handlers <- MCHandlers
    Kinds <- MCKinds
    Accounts <- MCAccounts
    Token = token
    Chain <- MCChain
    Policy <- MCPolicy
    Limits <- MCLimits
    LastWindow = 1
    MaxRequests = 3
    MaxChanges = 1
    MaxFaults = 1
INVARIANTS
    TypeOK
    LimitOvershoot
    CountersCoverLedger
    AnswerTraced
    FallbackExhausted
    BindingServed
PROPERTIES
    ImplementsAdmission
SYMMETRY MCSymmetry
