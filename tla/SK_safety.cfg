SPECIFICATION Spec
CONSTANTS
    n1 = n1
    n2 = n2
    t1 = t1
    t2 = t2
    Nodes = {n1, n2}
    NoNode = NoNode
    Threads = {t1, t2}
    NumJobs = 1
    KeyOf <- NoKeys
    NoKey = NoKey
    Handled <- AllHandled
    Slots = 2
    MaxAttempts = 3
    StaleAfter = 1
    MaxCursor = 2
    ClusterMode = TRUE
    Punctual = FALSE
    StoreMayFail = TRUE
    MaxStops = 1
    MaxClaims = 4
SYMMETRY NodeSymmetry
INVARIANTS
    FenceAdmitsLatestClaim
    PoisonJobIsBounded
PROPERTIES
    CheckpointsNeverRegress
CHECK_DEADLOCK FALSE
