SPECIFICATION FairSpec
CONSTANTS
    Words <- MCWords
    Scenarios <- MCScenarios
    Replies <- MCReplies
    ChunkSizes = {1, 4}
    MaxAttempts = 3
    BackoffBase = 2
    BackoffMax = 3
    MaxTorn = 1
INVARIANTS TypeOK FromOneCall AnswerIsReply Metered RetriesBounded ConversationKept
PROPERTIES EveryRequestEnds
