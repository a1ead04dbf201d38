SPECIFICATION FairSpec
CONSTANTS
    a1 = a1
    a2 = a2
    b1 = b1
    n1 = n1
    n2 = n2
    s1 = s1
    c1 = c1
    k1 = k1
    k2 = k2
    None = None
    Help = Help
    Own = Own
    Cell = {a1, a2, b1}
    Name = {n1, n2}
    NameOf <- Names
    Sub = {s1}
    Cmd = {c1}
    Client = {k1}
    Asked <- Asks
    MaxBox = 1
    Ordered = TRUE
CHECK_DEADLOCK FALSE
INVARIANTS
    TypeOK
    Registry
    CacheFresh
    RequestsLand
    Reachable
PROPERTIES
    Answered
