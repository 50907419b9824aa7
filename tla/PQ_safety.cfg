SPECIFICATION Spec
CONSTANTS
    c1 = c1
    c2 = c2
    c3 = c3
    m1 = m1
    m2 = m2
    m3 = m3
    w1 = w1
    Calls = {c1, c2, c3}
    Streams = {}
    Msgs = {m1, m2, m3}
    NoCall = NoCall
    NoMsg = NoMsg
    MaxGen = 2
    Workers = {w1}
    BufferSize <- Buffer1
    DropModes = {FALSE}
    AccountReads = {TRUE}
    PrepareMayFail = FALSE
    AdminOps = {"update"}
SYMMETRY CallSymmetry
INVARIANTS
    NoUseAfterRelease
    NoCrossTalk
    HooksAtMostOnce
    WaitingCallIsTracked
PROPERTIES
    ContractSpec
CHECK_DEADLOCK FALSE
