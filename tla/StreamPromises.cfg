SPECIFICATION Spec
CONSTANTS
    Words <- MCWords
    Scenarios <- MCScenarios
    Replies <- MCReplies
    ChunkSizes = {1, 4}
    MaxAttempts = 1
    BackoffBase = 1
    BackoffMax = 2
    MaxTorn = 1
INVARIANTS SomePromiseKept
