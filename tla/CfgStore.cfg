SPECIFICATION Spec
CONSTANTS
    v1 = v1
    v2 = v2
    v3 = v3
    Conf = {v1, v2, v3}
    Hard = {v3}
    MaxCrash = 3
    Full = TRUE
    IsApp = FALSE
INVARIANTS
    DiskInv
    BackupGood
PROPERTIES
    OldNewOrEmpty
