\* Three keys, two retries, one fallback.
SPECIFICATION FairSpec
CONSTANTS
    k1 = k1
    k2 = k2
    k3 = k3
    Keys <- ThreeKeys
    NamedKeys <- FirstKey
    NoKey = NoKey
    MaxRetries = 2
    NumFallbacks = 1
INVARIANTS
    DeadKeysStayDead
    TrailIsCoherent
    RoundsAreFair
    SelectedServed
    RightAnswer
    TrailOfLastTry
PROPERTY RequestReturns
CHECK_DEADLOCK FALSE
