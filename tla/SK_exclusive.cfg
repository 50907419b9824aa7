SPECIFICATION FairSpec
CONSTANTS
    n1 = n1
    n2 = n2
    t1 = t1
    t2 = t2
    Nodes = {n1, n2}
    NoNode = NoNode
    Threads = {t1, t2}
    NumJobs = 2
    KeyOf <- OneKey
    NoKey = NoKey
    Handled <- OldestOnN1
    Slots = 1
    MaxAttempts = 3
    StaleAfter = 1
    MaxCursor = 0
    ClusterMode = TRUE
    Punctual = TRUE
    StoreMayFail = FALSE
    MaxStops = 1
    MaxClaims = 4
INVARIANTS
    OneHandlerPerJob
    
PROPERTIES
    EveryJobEnds
CHECK_DEADLOCK FALSE
