SPECIFICATION FairSpec
CONSTANTS
    c1 = c1
    c2 = c2
    m1 = m1
    m2 = m2
    w1 = w1
    Calls = {c1, c2}
    Streams = {c2}
    Msgs = {m1, m2}
    NoCall = NoCall
    NoMsg = NoMsg
    MaxGen = 2
    Workers = {w1}
    BufferSize <- Buffer1
    DropModes = {FALSE}
    AccountReads = {TRUE}
    PrepareMayFail = FALSE
    AdminOps = {"update"}
PROPERTIES
    CancelledCallReturns
    EnqueuedCallIsAnswered
CHECK_DEADLOCK FALSE
