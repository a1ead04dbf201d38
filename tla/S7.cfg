SPECIFICATION FairSpec
CONSTANTS
    Jobs <- SomeJobs
    Pdus = {4, 5}
    Overhead <- Overheads
    WordSpace = 8
    AddrSpace = 16
    MaxLate = 2
CHECK_DEADLOCK FALSE
INVARIANTS
    TypeOK
    Copied
    
PROPERTIES
    Ends
