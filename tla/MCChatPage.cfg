SPECIFICATION FairChatSpec
CONSTANTS
    MaxAsks = 2
    NModels = 2
    Retries = 2
    MaxTokens = 2
    Buffer = 2
    Docs = {"a", "b"}
    MaxMoves = 2
INVARIANT OneVoice
INVARIANT OwnAnswer
PROPERTY LoadingEnds
CHECK_DEADLOCK FALSE
