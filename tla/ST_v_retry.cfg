\* A stream is retried after an error in its first chunk.
SPECIFICATION Spec
CONSTANTS
    MaxRetries = 1
    MaxFallbacks = 0
    MaxAttempts = 2
    MaxChunks = 2
    Buffer = 1
INVARIANT HooksRunOnHeldPipeline
CHECK_DEADLOCK FALSE
