SPECIFICATION FairSpec
CONSTANTS
    c1 = c1
    m1 = m1
    w1 = w1
    Calls = {c1}
    Streams = {}
    Msgs = {m1}
    NoCall = NoCall
    NoMsg = NoMsg
    MaxGen = 3
    Workers = {w1}
    BufferSize <- Buffer1
    DropModes = {TRUE, FALSE}
    AccountReads = {TRUE, FALSE}
    PrepareMayFail = TRUE
    AdminOps = {"update", "remove", "shutdown"}
INVARIANTS
    RemoveWaitsForAll
    ShutdownWaitsForOld
    OnlyLateCallsStranded
PROPERTIES
    AdminTerminates
    ShutdownTerminates
CHECK_DEADLOCK FALSE
