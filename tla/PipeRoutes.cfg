SPECIFICATION Spec
CONSTANTS
    p1 = p1
    p2 = p2
    h1 = h1
    h2 = h2
    h3 = h3
    ws = ws
    App = {1, 2}
    SysApp = {ws}
    Cell = {h1, h2, h3}
    PipeId = {p1, p2}
    Lists <- AllLists
    MaxSent = 1
    NoCell = NoCell
SYMMETRY Sym
CHECK_DEADLOCK FALSE
INVARIANTS
    CountsInv
    TargetsRun
    Flow
    NoLoop
