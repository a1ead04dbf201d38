SPECIFICATION Spec
CONSTANTS
    c1 = c1
    c2 = c2
    ws = ws
    t1 = t1
    t2 = t2
    f1 = f1
    f2 = f2
    Boot = Boot
    NoApp = NoApp
    SysApps = {ws}
    Client = {c1, c2}
    MaxApp = 2
    MaxPipe = 1
    MaxHandle = 3
    MaxQueue = 0
    MaxRestart = 1
    Tpl = {t1}
    Conf = {f1}
    PipeArgs <- OnePipe
    ConfigArgs <- FaultyArgs
    InitTpls = {}
    InitRepo = TRUE
    Commands = {"app_new", "configure", "app_remove", "pipe_new", "pipe_remove", "upgrade"}
    Faults = {"spawn_fails", "conf_raises", "http_fails", "boot_spawn_fails"}
    Serial = FALSE
SYMMETRY Sym
CHECK_DEADLOCK FALSE
INVARIANTS
    TypeOK
    LoadedAlive
