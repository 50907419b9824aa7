SPECIFICATION FairSpec
CONSTANTS
    r1 = r1
    r2 = r2
    a1 = a1
    Requests = {r1, r2}
    Admins = {a1}
    AdminOps = {"reset", "grant", "clear"}
    Limit = 1
    Cycles = 1
    MaxWindow = 1
    MaxStops = 1
    NoGrant = NoGrant
INVARIANTS
    NoSpendCarriedOver
    NoIncrementLost
    OverrideEnds
PROPERTIES
    BoundaryAdvances
    UsageIsPersisted
CHECK_DEADLOCK FALSE
