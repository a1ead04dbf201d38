SPECIFICATION Spec
CONSTANTS
    c1 = c1
    c2 = c2
    ws = ws
    t1 = t1
    t2 = t2
    f1 = f1
    f2 = f2
    Boot = Boot
    NoApp = NoApp
    SysApps = {ws}
    Client = {c1, c2}
    MaxApp = 2
    MaxPipe = 2
    MaxHandle = 4
    MaxQueue = 1
    MaxRestart = 0
    Tpl = {t1, t2}
    Conf = {f1, f2}
    PipeArgs <- AllPipes
    ConfigArgs <- RacingArgs
    InitTpls = {t1}
    InitRepo = TRUE
    Commands = {"app_new", "configure"}
    Faults = {}
    Serial = FALSE
CHECK_DEADLOCK FALSE
INVARIANTS
    IdReserved
