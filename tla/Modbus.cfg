SPECIFICATION FairSpec
CONSTANTS
    k1 = k1
    k2 = k2
    Polls = 2
    Kind <- Kinds
    MaxConf = 3
    Tids = 4
    MaxPend = 3
    Modes = {"tcp", "rtu_tcp", "rtu"}
    Patient = TRUE
CHECK_DEADLOCK FALSE
INVARIANTS
    RequestsInv
    OwnAnswer
    Settled
PROPERTIES
    Ends
