SPECIFICATION FairSpec
CONSTANTS
    MaxRetries = 1
    MaxFallbacks = 1
    MaxAttempts = 2
    MaxChunks = 2
    Buffer = 1
INVARIANTS
    PutBackOnce
    OneFinalChunk
    FreshStreamKeepsPipeline
PROPERTIES
    EveryStreamEnds
CHECK_DEADLOCK FALSE
