SPECIFICATION Spec
CONSTANTS
    n1 = n1
    n2 = n2
    t1 = t1
    t2 = t2
    t3 = t3
    Nodes = {n1, n2}
    NoNode = NoNode
    Threads = {t1, t2, t3}
    NumJobs = 2
    KeyOf <- OneKey
    NoKey = NoKey
    Handled <- AllHandled
    Slots = 1
    MaxAttempts = 3
    StaleAfter = 1
    MaxCursor = 0
    ClusterMode = TRUE
    Punctual = TRUE
    StoreMayFail = FALSE
    MaxStops = 1
    MaxClaims = 4
SYMMETRY NodeSymmetry
INVARIANTS
    OneHandlerPerKey
CHECK_DEADLOCK FALSE
