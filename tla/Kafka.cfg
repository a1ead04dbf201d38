SPECIFICATION FairSpec
CONSTANTS
    b1 = b1
    b2 = b2
    Nil = Nil
    NoBroker = NoBroker
    Unasked = Unasked
    Untold = Untold
    Entry <- Messages4
    MaxNum = 2
    Partition = {0, 1}
    Broker = {b1, b2}
    Layouts <- Leaders
    BatchNum = 2
    MaxRetry = 3
    Batch = TRUE
    NeedSend = 2
    Listed = FALSE
CHECK_DEADLOCK FALSE
INVARIANTS
    ProducerInv
    InOrder
PROPERTIES
    FifoSpec
    Settled
