SPECIFICATION Spec
CONSTANTS
    c1 = c1
    m1 = m1
    w1 = w1
    Calls = {c1}
    Streams = {}
    Msgs = {m1}
    NoCall = NoCall
    NoMsg = NoMsg
    MaxGen = 1
    Workers = {w1}
    BufferSize <- Buffer1
    DropModes = {FALSE}
    AccountReads = {TRUE}
    PrepareMayFail = FALSE
    AdminOps = {}
INVARIANTS
    OutcomeIsBilled
CHECK_DEADLOCK FALSE
