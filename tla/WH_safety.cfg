SPECIFICATION FairSpec
CONSTANTS
    n1 = n1
    n2 = n2
    j1 = j1
    w1 = w1
    w2 = w2
    NoRunner = NoRunner
    Nodes = {n1, n2}
    Jobs = {j1}
    Workers = {w1, w2}
    MaxEvents = 1
    Settings = {"disabled"}
    RunnerID <- SameRunner
    Slots = 2
    MaxRetries = 1
    Lease = 1
    Backoff = 1
INVARIANTS
    FenceAdmitsOne
    EventMatchesJob
PROPERTIES
    RetiredIsRecorded
    ResultIsFinal
    EveryDeliveryEnds
CHECK_DEADLOCK FALSE
