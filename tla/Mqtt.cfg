SPECIFICATION FairSpec
CONSTANTS
    m1 = m1
    m2 = m2
    a1 = a1
    r1 = r1
    Msgs = {m1, a1}
    Qos <- MsgQos
    Reqs = {r1}
    ReplyTo <- ReplyToReq
    Cocurrency = 1
    IdSpace = 3
    Window = 2
    MaxConn = 2
    Refusals = TRUE
CHECK_DEADLOCK FALSE
INVARIANTS
    RunOnce
    SessionInv
PROPERTIES
    OwnAck
    AllPublished
