SPECIFICATION FairSpec
CONSTANTS
    c1 = c1
    c2 = c2
    ws = ws
    t1 = t1
    t2 = t2
    f1 = f1
    f2 = f2
    Boot = Boot
    NoApp = NoApp
    SysApps = {ws}
    Client = {c1}
    MaxApp = 2
    MaxPipe = 2
    MaxHandle = 4
    MaxQueue = 1
    MaxRestart = 1
    Tpl = {t1, t2}
    Conf = {f1, f2}
    PipeArgs <- SmallPipes
    ConfigArgs <- Working
    InitTpls = {t1}
    InitRepo = TRUE
    Commands = {"app_new", "app_remove", "pipe_new", "pipe_remove", "pipe_start", "pipe_stop", "configure", "upgrade"}
    Faults = {"spawn_fails"}
    Serial = TRUE
CHECK_DEADLOCK FALSE
INVARIANTS
    InUseByPipe
    SavedInStep
PROPERTIES
    BootRestores
    GraphSpec
    MaintenanceEnds
