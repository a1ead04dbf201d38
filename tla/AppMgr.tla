------------------------------- MODULE AppMgr -------------------------------
(***************************************************************************)
(* The application manager of the gateway (service/appmgr.lua) with the    *)
(* part of the system manager (service/sysmgr.lua) that persists what it   *)
(* decides.                                                                *)
(*                                                                         *)
(* appmgr is one skynet service: every command runs in a coroutine of its  *)
(* own, one coroutine runs at a time, and a coroutine gives way only where *)
(* it calls another service.  One action below is one such atomic segment: *)
(* from a command's start, or from the reply a coroutine waits for, to the *)
(* next call or to the end.  A command that never gives way, or that gives *)
(* way only for a reply after which nothing is left to do, is one action.  *)
(*                                                                         *)
(* What is abstracted:                                                     *)
(*   - an APP's configuration is a member of App, a record of the template *)
(*     it is made from and of an opaque configuration;                     *)
(*   - refused commands and queries leave the state alone and are not      *)
(*     actions; the arguments enumerated are well-formed ones;             *)
(*   - the route_add, route_del messages the pipes cause are the subject   *)
(*     of PipeRoutes; a cell that is sent "exit" is gone at once;          *)
(*   - HTTP is an outcome: it succeeds, or fails if Faults say so;         *)
(*   - sysmgr's writes succeed (CfgStore is about those that do not).      *)
(***************************************************************************)
EXTENDS Naturals, Sequences, FiniteSets

CONSTANTS
    Client,      \* whoever can have a command in progress
    Boot,        \* the coroutine of load_all
    MaxApp,      \* bound: APP ids
    MaxPipe,     \* bound: PIPE ids
    MaxHandle,   \* bound: appcell services known at a time
    MaxQueue,    \* bound: no command is issued with more requests on their way
    MaxRestart,  \* bound: crashes
    SysApps,     \* the permanent APPs: "ws" and "mqtt"
    Tpl,         \* templates APPs are made from
    Conf,        \* configurations of an APP
    NoApp,
    PipeArgs,    \* the PIPEs a client may ask for
    ConfigArgs,  \* the arguments a client may give to configure
    InitTpls,    \* templates installed from the start
    InitRepo,    \* is a software repository configured from the start
    Commands,    \* the commands clients issue
    Faults,      \* what may go wrong in other services
    Serial       \* do clients issue maintenance commands only in quiet

AppId == 1..MaxApp
PipeId == 1..MaxPipe
Handle == 1..MaxHandle
Elem == AppId \cup SysApps
Proc == Client \cup {Boot}
NoAddr == 0
Addr == Handle \cup SysApps \cup {NoAddr}
App == [tpl : Tpl, conf : Conf]

ASSUME AppAssumption == NoApp \notin App
ASSUME BoundAssumption == /\ MaxApp \in Nat
                          /\ MaxPipe \in Nat
                          /\ MaxHandle \in Nat
                          /\ MaxQueue \in Nat
                          /\ MaxRestart \in Nat
ASSUME SysAppAssumption == SysApps \cap Nat = {}
ASSUME ProcAssumption == Boot \notin Client
ASSUME FlagAssumption == InitRepo \in BOOLEAN /\ Serial \in BOOLEAN
ASSUME TplAssumption == InitTpls \subseteq Tpl

\* A PIPE as kept in pipelist and as written to the configuration: started
\* there means that it is started again at boot (auto).
PipeState == {"none", "stopped", "started"}
Pipe == [st : PipeState, apps : Seq(Elem)]
PipeTable == [PipeId -> Pipe]
NoPipe == [st |-> "none", apps |-> <<>>]
NoPipes == [k \in PipeId |-> NoPipe]

\* route[k] of an APP: has tells whether the entry of PIPE k is there.
Route == [has : BOOLEAN, to : Addr]
NoRoute == [has |-> FALSE, to |-> NoAddr]
NoRoutes == [k \in PipeId |-> NoRoute]

Slot == [st : {"free", "reserved", "loaded"},
         addr : Addr,
         app : App \cup {NoApp},
         route : [PipeId -> Route]]
FreeSlot == [st |-> "free", addr |-> NoAddr, app |-> NoApp, route |-> NoRoutes]
ReservedSlot == [FreeSlot EXCEPT !.st = "reserved"]
LoadedSlot(a, h) == [st |-> "loaded", addr |-> h, app |-> a, route |-> NoRoutes]

\* The argument of configure, and the configuration boot starts from.
AppTable == [AppId -> App \cup {NoApp}]
NoApps == [i \in AppId |-> NoApp]
Config == [kind : {"full", "apps", "repo"},
           repo : BOOLEAN,
           apps : AppTable,
           pipes : PipeTable]
NoConfig == [kind |-> "repo", repo |-> FALSE, apps |-> NoApps, pipes |-> NoPipes]

PipeArg == [apps : Seq(Elem), auto : BOOLEAN]
ASSUME ArgAssumption == PipeArgs \subseteq PipeArg /\ ConfigArgs \subseteq Config

\* A coroutine: the command it runs, where it waits and what it holds.
Kind == {"none", "app_new", "configure", "upgrade", "boot"}
Place == {"idle",     \* no command
          "start",    \* load_all, asking sysmgr for the configuration
          "repo",     \* validate_repo, waiting for update_repo
          "install",  \* install_tpl, waiting for the template
          "spawn",    \* load_app, in skynet.newservice
          "conf",     \* waiting for the cell's answer to conf
          "forget",   \* in clean, saving that there are no PIPEs
          "clean",    \* in clean, in the loop over APPs
          "apps",     \* in the loop over APPs
          "pipes",    \* in the loop over PIPEs
          "upgrade",  \* waiting for sysmgr's upgrade
          "quit"}     \* replaced by the new system
Co == [kind : Kind,
       at : Place,
       id : AppId \cup {0},
       app : App \cup {NoApp},
       addr : Addr,
       arg : Config,
       todo : SUBSET (AppId \cup PipeId)]
Idle == [kind |-> "none", at |-> "idle", id |-> 0, app |-> NoApp,
         addr |-> NoAddr, arg |-> NoConfig, todo |-> {}]

\* What appmgr asks sysmgr to persist.
Request == [kind : {"put"}, by : Proc, id : AppId, app : App]
             \cup [kind : {"del"}, by : Proc, id : AppId, app : App \cup {NoApp}]
             \cup [kind : {"pipes"}, by : Proc, list : PipeTable]

VARIABLES
    locked,    \* the maintenance flag
    repo,      \* sysinfo.sys.repo is set
    tpllist,   \* templates known (and installed on disk)
    applist,   \* APP slots, permanent APPs included
    pipelist,  \* PIPEs
    cells,     \* handles of the running appcell services
    co,        \* the coroutines
    queue,     \* requests on their way to sysmgr, in order
    cfg,       \* sysmgr's cfg: repo, apps, pipes
    files,     \* the APP files under run_root: <<id, app>>
    restarts

vars == <<locked, repo, tpllist, applist, pipelist, cells, co, queue,
          cfg, files, restarts>>

SysSlot(e) == LoadedSlot(NoApp, e)
EmptyList == [e \in Elem |-> IF e \in SysApps THEN SysSlot(e) ELSE FreeSlot]


-----------------------------------------------------------------------------
(* Reading the state *)

Loaded(e) == applist[e].st = "loaded"
Present(e) == applist[e].st # "free"
HasPipe(k) == pipelist[k].st # "none"
Members(s) == {s[i] : i \in 1..Len(s)}
Waiting(p) == \E i \in 1..Len(queue) : queue[i].by = p
Room == Len(queue) <= MaxQueue
AppsIn(arg) == {i \in AppId : arg.apps[i] # NoApp}
PipesIn(arg) == {k \in PipeId : arg.pipes[k].st # "none"}
TplsIn(arg) == {arg.apps[i].tpl : i \in AppsIn(arg)}

\* A handle nothing refers to any more (skynet counts handles up).
Held(h) == \/ h \in cells
           \/ \E p \in Proc : co[p].addr = h
           \/ \E e \in Elem : \/ applist[e].addr = h
                              \/ \E k \in PipeId : applist[e].route[k].to = h

\* Wrong: the border itself.
BorderId == {i - 1 : i \in {j \in AppId : ~Present(j) /\ (j = 1 \/ Present(j - 1))}}
\* A border of the table (Lua's #) plus one: where a new entry may go.
NewAppId == {i \in AppId : /\ ~Present(i)
                           /\ i = 1 \/ Present(i - 1)}
NewPipeId == {k \in PipeId : /\ ~HasPipe(k)
                             /\ k = 1 \/ HasPipe(k - 1)}

\* The PIPEs of a full configuration link APPs of that configuration.
PipesValid(arg) ==
    \A k \in PipesIn(arg) :
        /\ Len(arg.pipes[k].apps) > 1
        /\ Members(arg.pipes[k].apps) \subseteq AppsIn(arg) \cup SysApps

\* The state of the route tables once load_pipe has made the first n
\* assignments for PIPE k over the APPs s: each APP of s points to the next
\* one, the last to none; an APP listed twice keeps its last assignment.
LastIn(s, n, e, i) == s[i] = e /\ \A j \in (i + 1)..n : s[j] # e
\* Wrong: an APP is linked to itself.
RouteToSelf(s, n, e) ==
    LET Linked == {i \in 1..n : i < Len(s) /\ LastIn(s, n, e, i)}
    IN  [has |-> TRUE,
         to  |-> IF Linked = {} THEN NoAddr ELSE applist[e].addr]
RouteFor(s, n, e) ==
    LET Linked == {i \in 1..n : i < Len(s) /\ LastIn(s, n, e, i)}
    IN  [has |-> TRUE,
         to  |-> IF Linked = {} THEN NoAddr
                 ELSE applist[s[(CHOOSE i \in Linked : TRUE) + 1]].addr]
WithRoutes(k, s, n) ==
    [e \in Elem |-> IF e \in {s[i] : i \in 1..n}
                    THEN [applist[e] EXCEPT !.route[k] = RouteFor(s, n, e)]
                    ELSE applist[e]]
\* Wrong: the first APP alone forgets the PIPE.
WithoutFirstRoute(k, s, n) ==
    [e \in Elem |-> IF n > 0 /\ e = s[1]
                    THEN [applist[e] EXCEPT !.route[k] = NoRoute]
                    ELSE applist[e]]
WithoutRoutes(k, s, n) ==
    [e \in Elem |-> IF e \in {s[i] : i \in 1..n}
                    THEN [applist[e] EXCEPT !.route[k] = NoRoute]
                    ELSE applist[e]]

\* How far a loop over the APPs s gets: it raises at a slot not loaded.
Reach(s) == {n \in 0..Len(s) : /\ \A i \in 1..n : Loaded(s[i])
                               /\ n < Len(s) => ~Loaded(s[n + 1])}
Whole(s) == \A i \in 1..Len(s) : Loaded(s[i])

\* start_pipe and stop_pipe index route[k] of each APP of the PIPE.
Routed(k) == \A e \in Members(pipelist[k].apps) : Loaded(e) /\ applist[e].route[k].has

Maintaining(p) == co[p].kind \in {"configure", "upgrade", "boot"}
Quiet == \A p \in Proc : co[p] = Idle
NoMaintenance == \A p \in Proc : ~Maintaining(p)

\* When a client issues a command: not under the flag; in a serial
\* environment a maintenance command is alone.
Ordinary(c, cmd) == /\ cmd \in Commands
                    /\ Room
                    /\ ~locked
                    /\ co[c] = Idle
                    /\ Serial => NoMaintenance
Special(c, cmd) == /\ cmd \in Commands
                   /\ Room
                   /\ ~locked
                   /\ co[c] = Idle
                   /\ Serial => Quiet

Become(p, r) == co' = [co EXCEPT ![p] = r]
Put(p, i, a) == queue' = Append(queue, [kind |-> "put", by |-> p, id |-> i, app |-> a])

\* Wrong: the removal is not saved.
DelForgotten(p, i) == UNCHANGED queue
Del(p, i) == queue' = Append(queue, [kind |-> "del", by |-> p, id |-> i,
                                     app |-> applist[i].app])

PutPipes(p, list) == queue' = Append(queue, [kind |-> "pipes", by |-> p, list |-> list])

\* Wrong: a running PIPE alone counts.
InUseRunning(i) == \E k \in PipeId : applist[i].route[k].has /\ pipelist[k].st = "started"
InUse(i) == \E k \in PipeId : applist[i].route[k].has

\* remove_app: the slot is emptied, the cell is sent "exit".
\* Wrong: the slot keeps the APP.
VacateNothing(i) == UNCHANGED applist
Vacate(i) == applist' = [applist EXCEPT ![i] = FreeSlot]
\* Wrong: the cell is not told.
ExitNothing(i) == UNCHANGED cells
Exit(i) == cells' = cells \ {applist[i].addr}

\* Wrong: PIPEs are started whatever auto says.
TryStartAlways(auto) == "started"
TryStart(auto) == IF auto THEN "started" ELSE "stopped"

\* Wrong: the flag stays.
UnlockNothing == UNCHANGED locked
Unlock == locked' = FALSE

sysmgrVars == <<cfg, files>>

-----------------------------------------------------------------------------
(* APP commands.  load_app is shared with the full configuration. *)

\* Wrong: the id is not reserved.
ReserveNothing(p, i, a, r) ==
    /\ UNCHANGED applist
    /\ Become(p, [r EXCEPT !.at = "spawn", !.id = i, !.app = a])
Reserve(p, i, a, r) ==
    /\ applist' = [applist EXCEPT ![i] = ReservedSlot]
    /\ Become(p, [r EXCEPT !.at = "spawn", !.id = i, !.app = a])

\* app_new, the template being known: reserves the id and launches a cell.
AppNew(c, a) ==
    /\ Ordinary(c, "app_new")
    /\ a.tpl \in tpllist
    /\ \E i \in NewAppId : Reserve(c, i, a, [Idle EXCEPT !.kind = "app_new"])
    /\ UNCHANGED <<locked, repo, tpllist, pipelist, cells, queue, sysmgrVars, restarts>>

\* app_new of a template that must be installed first.
AppNewInstall(c, a) ==
    /\ Ordinary(c, "app_new")
    /\ a.tpl \notin tpllist
    /\ repo
    /\ Become(c, [Idle EXCEPT !.kind = "app_new", !.at = "install", !.app = a])
    /\ UNCHANGED <<locked, repo, tpllist, applist, pipelist, cells, queue, sysmgrVars, restarts>>

\* The template is there: app_new goes on, without looking at locked again.
AppNewInstalled(p) ==
    /\ co[p].kind = "app_new" /\ co[p].at = "install"
    /\ tpllist' = tpllist \cup {co[p].app.tpl}
    /\ \E i \in NewAppId : Reserve(p, i, co[p].app, co[p])
    /\ UNCHANGED <<locked, repo, pipelist, cells, queue, sysmgrVars, restarts>>

\* install_tpl failed: the command is refused.
InstallFails(p) ==
    /\ "http_fails" \in Faults
    /\ co[p].at = "install"
    /\ Become(p, Idle)
    /\ UNCHANGED <<locked, repo, tpllist, applist, pipelist, cells, queue, sysmgrVars, restarts>>

\* load_app: the cell is up and is sent its configuration.
Spawned(p) ==
    /\ co[p].at = "spawn"
    /\ \E h \in Handle : ~Held(h)
    /\ LET h == CHOOSE h \in Handle : ~Held(h)
       IN  /\ cells' = cells \cup {h}
           /\ Become(p, [co[p] EXCEPT !.at = "conf", !.addr = h])
    /\ UNCHANGED <<locked, repo, tpllist, applist, pipelist, queue, sysmgrVars, restarts>>

\* load_app: newservice failed.  The slot is emptied; a full configuration
\* ends there.
SpawnFails(p) ==
    /\ co[p].at = "spawn"
    /\ IF co[p].kind = "boot" THEN "boot_spawn_fails" \in Faults ELSE "spawn_fails" \in Faults
    /\ Vacate(co[p].id)
    /\ Become(p, Idle)
    /\ IF Maintaining(p) THEN Unlock ELSE UNCHANGED locked
    /\ UNCHANGED <<repo, tpllist, pipelist, cells, queue, sysmgrVars, restarts>>

\* load_app: the cell answered, be it that it refused its configuration.
\* The APP is entered and, unless it comes from the configuration, saved.
AppLoaded(p) ==
    /\ co[p].at = "conf" /\ co[p].arg.kind # "apps"
    /\ co[p].addr \in cells
    /\ applist' = [applist EXCEPT ![co[p].id] = LoadedSlot(co[p].app, co[p].addr)]
    /\ IF co[p].kind = "app_new"
       THEN Become(p, Idle)
       ELSE Become(p, [co[p] EXCEPT !.at = "apps", !.id = 0, !.app = NoApp, !.addr = NoAddr])
    /\ IF co[p].kind = "boot" THEN UNCHANGED queue ELSE Put(p, co[p].id, co[p].app)
    /\ UNCHANGED <<locked, repo, tpllist, pipelist, cells, sysmgrVars, restarts>>

\* The cell raised in on_conf, or is gone: the error goes through load_app
\* (or do_configure) and the command up to skynet.
ConfRaises(p) ==
    /\ co[p].at = "conf"
    /\ "conf_raises" \in Faults \/ co[p].addr \notin cells
    /\ Become(p, Idle)
    /\ UNCHANGED <<locked, repo, tpllist, applist, pipelist, cells, queue, sysmgrVars, restarts>>

\* app_remove: refused while the APP's route table has an entry.
AppRemove(c, i) ==
    /\ Ordinary(c, "app_remove")
    /\ Loaded(i)
    /\ ~InUse(i)
    /\ Vacate(i) /\ Exit(i) /\ Del(c, i)
    /\ UNCHANGED <<locked, repo, tpllist, pipelist, co, sysmgrVars, restarts>>

-----------------------------------------------------------------------------
(* PIPE commands: one segment each, ending in update_pipes *)

\* pipe_new: load_pipe, started if auto, saved.
PipeNew(c, k, arg) ==
    LET list == [pipelist EXCEPT ![k] = [st |-> TryStart(arg.auto), apps |-> arg.apps]]
    IN  /\ Ordinary(c, "pipe_new")
        /\ k \in NewPipeId
        /\ Len(arg.apps) > 1
        /\ Whole(arg.apps)
        /\ applist' = WithRoutes(k, arg.apps, Len(arg.apps))
        /\ pipelist' = list
        /\ PutPipes(c, list)
        /\ UNCHANGED <<locked, repo, tpllist, cells, co, sysmgrVars, restarts>>

\* pipe_new over an APP still being loaded: validate_pipe accepts the
\* reserved slot, load_pipe raises there and leaves the entries made so far.
PipeNewRaises(c, k, arg) ==
    /\ Ordinary(c, "pipe_new")
    /\ k \in NewPipeId
    /\ Len(arg.apps) > 1
    /\ \A e \in Members(arg.apps) : Present(e)
    /\ ~Whole(arg.apps)
    /\ \E n \in Reach(arg.apps) : applist' = WithRoutes(k, arg.apps, n)
    /\ UNCHANGED <<locked, repo, tpllist, pipelist, cells, co, queue, sysmgrVars, restarts>>

\* pipe_remove of a stopped PIPE.
PipeRemove(c, k) ==
    LET list == [pipelist EXCEPT ![k] = NoPipe]
        s == pipelist[k].apps
    IN  /\ Ordinary(c, "pipe_remove")
        /\ pipelist[k].st = "stopped"
        /\ Whole(s)
        /\ applist' = WithoutRoutes(k, s, Len(s))
        /\ pipelist' = list
        /\ PutPipes(c, list)
        /\ UNCHANGED <<locked, repo, tpllist, cells, co, sysmgrVars, restarts>>

\* pipe_remove of a PIPE one of whose APPs is gone.
PipeRemoveRaises(c, k) ==
    LET s == pipelist[k].apps
    IN  /\ Ordinary(c, "pipe_remove")
        /\ pipelist[k].st = "stopped"
        /\ ~Whole(s)
        /\ \E n \in Reach(s) : applist' = WithoutRoutes(k, s, n)
        /\ UNCHANGED <<locked, repo, tpllist, pipelist, cells, co, queue, sysmgrVars, restarts>>

\* pipe_start and pipe_stop.
PipeSwitch(c, cmd, k, from, to) ==
    LET list == [pipelist EXCEPT ![k].st = to]
    IN  /\ Ordinary(c, cmd)
        /\ pipelist[k].st = from
        /\ Routed(k)
        /\ pipelist' = list
        /\ PutPipes(c, list)
        /\ UNCHANGED <<locked, repo, tpllist, applist, cells, co, sysmgrVars, restarts>>
PipeStart(c, k) == PipeSwitch(c, "pipe_start", k, "stopped", "started")
PipeStop(c, k) == PipeSwitch(c, "pipe_stop", k, "started", "stopped")

-----------------------------------------------------------------------------
(* Maintenance: configure and upgrade.  The lock is taken after validation, *)
(* whatever happened since the command looked at it.                        *)

\* command.clean up to its first save: every PIPE is stopped and forgotten.
Clean(p, r) ==
    /\ \A k \in PipeId : HasPipe(k) => Routed(k)
    /\ pipelist' = NoPipes
    /\ PutPipes(p, NoPipes)
    /\ Become(p, [r EXCEPT !.at = "forget"])

\* stop_pipe raises on a PIPE whose routes are gone; some PIPEs are stopped.
CleanRaises(p) ==
    /\ \E k \in PipeId : HasPipe(k) /\ ~Routed(k)
    /\ \E S \in SUBSET {k \in PipeId : HasPipe(k) /\ Routed(k)} :
           pipelist' = [k \in PipeId |-> IF k \in S THEN [pipelist[k] EXCEPT !.st = "stopped"]
                                         ELSE pipelist[k]]
    /\ Become(p, Idle)
    /\ UNCHANGED queue

\* configure, its argument found valid: takes the lock and starts.  With
\* neither APPs nor PIPEs the loop over arg.apps (nil) raises.
Enter(p, arg) ==
    LET r == [Idle EXCEPT !.kind = "configure", !.arg = arg]
    IN  /\ locked' = TRUE
        /\ \/ arg.kind = "full" /\ (Clean(p, r) \/ CleanRaises(p))
           \/ /\ arg.kind = "apps"
              /\ Become(p, [r EXCEPT !.at = "apps", !.todo = AppsIn(arg)])
              /\ UNCHANGED <<pipelist, queue>>
           \/ /\ arg.kind = "repo"
              /\ Become(p, Idle)
              /\ UNCHANGED <<pipelist, queue>>

\* validate_conf from the check of pipes and apps on, with the templates tpls
\* known: refuse, give way to install a template, or enter maintenance.
Valid(arg) == CASE arg.kind = "full" -> PipesValid(arg)
                [] arg.kind = "apps" -> \A i \in AppsIn(arg) : Present(i)
                [] arg.kind = "repo" -> TRUE
Missing(arg, tpls) == IF arg.kind = "full"
                      THEN {i \in AppsIn(arg) : arg.apps[i].tpl \notin tpls}
                      ELSE {}
Validate(p, arg, tpls, hasrepo) ==
    \/ Valid(arg) /\ Missing(arg, tpls) = {} /\ Enter(p, arg)
    \/ /\ Valid(arg) /\ hasrepo
       /\ \E i \in Missing(arg, tpls) :
              Become(p, [Idle EXCEPT !.kind = "configure", !.at = "install",
                                     !.arg = arg, !.app = arg.apps[i]])
       /\ UNCHANGED <<locked, pipelist, queue>>
    \/ /\ ~Valid(arg) \/ (~hasrepo /\ Missing(arg, tpls) # {})
       /\ Become(p, Idle)
       /\ UNCHANGED <<locked, pipelist, queue>>

\* configure without a repository in its argument.
Configure(c, arg) ==
    /\ Special(c, "configure")
    /\ ~arg.repo
    /\ Validate(c, arg, tpllist, repo)
    /\ UNCHANGED <<repo, tpllist, applist, cells, sysmgrVars, restarts>>

\* configure with a repository: sysmgr tries and saves it first.
ConfigureRepo(c, arg) ==
    /\ Special(c, "configure")
    /\ arg.repo
    /\ Become(c, [Idle EXCEPT !.kind = "configure", !.at = "repo", !.arg = arg])
    /\ UNCHANGED <<locked, repo, tpllist, applist, pipelist, cells, queue, sysmgrVars, restarts>>

RepoUpdated(p) ==
    /\ co[p].at = "repo"
    /\ repo' = TRUE
    /\ cfg' = [cfg EXCEPT !.repo = TRUE]
    /\ Validate(p, co[p].arg, tpllist, TRUE)
    /\ UNCHANGED <<tpllist, applist, cells, files, restarts>>

RepoFails(p) ==
    /\ "http_fails" \in Faults
    /\ co[p].at = "repo"
    /\ Become(p, Idle)
    /\ UNCHANGED <<locked, repo, tpllist, applist, pipelist, cells, queue, sysmgrVars, restarts>>

\* A template needed by the configuration is there: look for the next one.
ConfigureInstalled(p) ==
    LET tpls == tpllist \cup {co[p].app.tpl}
    IN  /\ co[p].kind = "configure" /\ co[p].at = "install"
        /\ tpllist' = tpls
        /\ Validate(p, co[p].arg, tpls, repo)
        /\ UNCHANGED <<repo, applist, cells, sysmgrVars, restarts>>

\* The loop of clean runs over the live table: it visits what is there when
\* it starts, and what is entered meanwhile may or may not be met.
InClean(p) == co[p].at \in {"forget", "clean"} /\ ~Waiting(p)
ToClean(p) == IF co[p].at = "forget" THEN {i \in AppId : Present(i)} ELSE co[p].todo

\* clean: remove_app of one more APP, saved before the next one.
CleanApp(p, i) ==
    /\ InClean(p)
    /\ Loaded(i)
    /\ Vacate(i) /\ Exit(i) /\ Del(p, i)
    /\ Become(p, [co[p] EXCEPT !.at = "clean", !.todo = ToClean(p) \ {i}])
    /\ UNCHANGED <<locked, repo, tpllist, pipelist, sysmgrVars, restarts>>

\* clean meets a reserved slot: there is no cell to send "exit" to.
CleanAppRaises(p, i) ==
    /\ InClean(p)
    /\ Present(i) /\ ~Loaded(i)
    /\ Become(p, Idle)
    /\ UNCHANGED <<locked, repo, tpllist, applist, pipelist, cells, queue, sysmgrVars, restarts>>

\* What the coroutine has left in each of its loops.  The end of one loop and
\* the first turn of the next are one segment.
Cleaned(p) == InClean(p) /\ \A i \in ToClean(p) : ~Present(i)
ToLoad(p) == CASE Cleaned(p) /\ co[p].kind # "upgrade" -> AppsIn(co[p].arg)
               [] co[p].at = "apps" /\ ~Waiting(p)     -> co[p].todo
               [] OTHER -> {}
AppsDone(p) == /\ Cleaned(p) \/ (co[p].at = "apps" /\ ~Waiting(p))
               /\ ToLoad(p) = {}
ToPipe(p) == CASE AppsDone(p) /\ co[p].arg.kind = "full"  -> PipesIn(co[p].arg)
               [] co[p].at = "pipes" /\ ~Waiting(p)       -> co[p].todo
               [] OTHER -> {}

\* do_full_configure, an APP: the id is the one of the configuration.
LoadApp(p, i) ==
    /\ i \in ToLoad(p)
    /\ co[p].arg.kind = "full"
    /\ Reserve(p, i, co[p].arg.apps[i], [co[p] EXCEPT !.todo = ToLoad(p) \ {i}])
    /\ UNCHANGED <<locked, repo, tpllist, pipelist, cells, queue, sysmgrVars, restarts>>

\* do_full_configure, a PIPE: load_pipe, started unless auto is false; saved
\* unless it comes from the configuration.
LoadPipe(p, k) ==
    LET new == [co[p].arg.pipes[k] EXCEPT !.st = TryStart(@ = "started")]
        list == [pipelist EXCEPT ![k] = new]
    IN  /\ k \in ToPipe(p)
        /\ Whole(new.apps)
        /\ applist' = WithRoutes(k, new.apps, Len(new.apps))
        /\ pipelist' = list
        /\ IF co[p].kind = "boot" THEN UNCHANGED queue ELSE PutPipes(p, list)
        /\ Become(p, [co[p] EXCEPT !.at = "pipes", !.todo = ToPipe(p) \ {k}])
        /\ UNCHANGED <<locked, repo, tpllist, cells, sysmgrVars, restarts>>

LoadPipeRaises(p, k) ==
    LET s == co[p].arg.pipes[k].apps
    IN  /\ k \in ToPipe(p)
        /\ ~Whole(s)
        /\ \E n \in Reach(s) : applist' = WithRoutes(k, s, n)
        /\ Become(p, Idle)
        /\ UNCHANGED <<locked, repo, tpllist, pipelist, cells, queue, sysmgrVars, restarts>>

\* do_configure, an APP: its cell is called with the new configuration ...
Reconf(p, i) ==
    /\ i \in ToLoad(p)
    /\ co[p].arg.kind = "apps"
    /\ IF Loaded(i)
       THEN Become(p, [co[p] EXCEPT !.at = "conf", !.todo = ToLoad(p) \ {i}, !.id = i,
                                    !.addr = applist[i].addr,
                                    !.app = [tpl  |-> applist[i].app.tpl,
                                             conf |-> co[p].arg.apps[i].conf]])
       ELSE Become(p, Idle)
    /\ UNCHANGED <<locked, repo, tpllist, applist, pipelist, cells, queue, sysmgrVars, restarts>>

\* ... and accepted it: kept and saved.
Reconfigured(p) ==
    LET i == co[p].id
    IN  /\ co[p].at = "conf" /\ co[p].arg.kind = "apps"
        /\ co[p].addr \in cells
        /\ applist' = IF applist[i].addr = co[p].addr
                      THEN [applist EXCEPT ![i].app = co[p].app] ELSE applist
        /\ Put(p, i, co[p].app)
        /\ Become(p, [co[p] EXCEPT !.at = "apps", !.id = 0, !.app = NoApp, !.addr = NoAddr])
        /\ UNCHANGED <<locked, repo, tpllist, pipelist, cells, sysmgrVars, restarts>>

\* ... or refused it: configure ends there.
ReconfRefused(p) ==
    /\ co[p].at = "conf" /\ co[p].arg.kind = "apps"
    /\ co[p].addr \in cells
    /\ Become(p, Idle)
    /\ Unlock
    /\ UNCHANGED <<repo, tpllist, applist, pipelist, cells, queue, sysmgrVars, restarts>>

\* The loops are over: the flag is cleared, whoever may have set it since.
Finish(p) ==
    /\ co[p].kind # "upgrade"
    /\ AppsDone(p) \/ (co[p].at = "pipes" /\ ~Waiting(p))
    /\ ToPipe(p) = {}
    /\ Unlock
    /\ Become(p, Idle)
    /\ UNCHANGED <<repo, tpllist, applist, pipelist, cells, queue, sysmgrVars, restarts>>

\* upgrade: takes the lock and asks sysmgr.
Upgrade(c) ==
    /\ Special(c, "upgrade")
    /\ repo
    /\ locked' = TRUE
    /\ Become(c, [Idle EXCEPT !.kind = "upgrade", !.at = "upgrade"])
    /\ UNCHANGED <<repo, tpllist, applist, pipelist, cells, queue, sysmgrVars, restarts>>

\* The download failed: the command ends, the flag stays.
UpgradeFails(p) ==
    /\ "http_fails" \in Faults
    /\ co[p].at = "upgrade"
    /\ Become(p, Idle)
    /\ UNCHANGED <<locked, repo, tpllist, applist, pipelist, cells, queue, sysmgrVars, restarts>>

\* The new system is unpacked: sysmgr has appmgr clean everything ...
UpgradeCleans(p) ==
    /\ co[p].at = "upgrade"
    /\ Clean(p, co[p]) \/ CleanRaises(p)
    /\ UNCHANGED <<locked, repo, tpllist, applist, cells, sysmgrVars, restarts>>

\* ... launches the new system and quits.
Quit(p) ==
    /\ Cleaned(p) /\ co[p].kind = "upgrade"
    /\ Become(p, [Idle EXCEPT !.kind = "upgrade", !.at = "quit"])
    /\ UNCHANGED <<locked, repo, tpllist, applist, pipelist, cells, queue, sysmgrVars, restarts>>

-----------------------------------------------------------------------------
(* Boot, sysmgr, crashes *)

\* load_all: the persisted configuration is validated like one a client
\* gives, and needs the repository to answer.
BootConfigures ==
    LET total == [kind |-> "full", repo |-> TRUE, apps |-> cfg.apps, pipes |-> cfg.pipes]
    IN  /\ co[Boot].at = "start"
        /\ cfg.repo
        /\ repo' = TRUE
        /\ PipesValid(total)
        /\ Become(Boot, [Idle EXCEPT !.kind = "boot", !.at = "apps",
                                     !.arg = total, !.todo = AppsIn(total)])
        /\ UNCHANGED <<locked, tpllist, applist, pipelist, cells, queue, sysmgrVars, restarts>>

\* A repo of false is not a valid argument (it is neither nil nor a table);
\* or the repository does not answer; or a PIPE has lost an APP.
BootRejects ==
    /\ co[Boot].at = "start"
    /\ \/ ~cfg.repo /\ UNCHANGED repo
       \/ cfg.repo /\ "http_fails" \in Faults /\ UNCHANGED repo
       \/ /\ cfg.repo
          /\ ~PipesValid([NoConfig EXCEPT !.apps = cfg.apps, !.pipes = cfg.pipes])
          /\ repo' = TRUE
    /\ Become(Boot, Idle)
    /\ Unlock
    /\ UNCHANGED <<tpllist, applist, pipelist, cells, queue, sysmgrVars, restarts>>

\* update_app and update_pipes of sysmgr, in the order they were sent.
Others(i, t) == {f \in files : ~(f[1] = i /\ f[2].tpl = t)}
Applied(c, r) ==
    CASE r.kind = "put"   -> [c EXCEPT !.apps[r.id] = r.app]
      [] r.kind = "del"   -> [c EXCEPT !.apps[r.id] = NoApp]
      [] r.kind = "pipes" -> [c EXCEPT !.pipes = r.list]
SysmgrSaves ==
    LET r == Head(queue)
    IN  /\ queue # <<>>
        /\ queue' = Tail(queue)
        /\ cfg' = Applied(cfg, r)
        /\ files' = CASE r.kind = "put" -> Others(r.id, r.app.tpl) \cup {<<r.id, r.app>>}
                      [] r.kind = "del" /\ cfg.apps[r.id] # NoApp -> Others(r.id, r.app.tpl)
                      [] OTHER -> files
        /\ UNCHANGED <<locked, repo, tpllist, applist, pipelist, cells, co, restarts>>

\* The process dies and is started again: sysmgr's load_app reads the files,
\* one of those with the same id.
Readable == {t \in AppTable :
                \A i \in AppId : IF t[i] = NoApp THEN \A f \in files : f[1] # i
                                 ELSE <<i, t[i]>> \in files}
Restart ==
    /\ restarts < MaxRestart
    /\ restarts' = restarts + 1
    /\ \E t \in Readable : cfg' = [cfg EXCEPT !.apps = t]
    /\ locked' = TRUE
    /\ repo' = FALSE
    /\ applist' = EmptyList
    /\ pipelist' = NoPipes
    /\ cells' = {}
    /\ co' = [p \in Proc |-> IF p = Boot THEN [Idle EXCEPT !.kind = "boot", !.at = "start"]
                             ELSE Idle]
    /\ queue' = <<>>
    /\ UNCHANGED <<tpllist, files>>

-----------------------------------------------------------------------------
Init ==
    /\ locked = TRUE
    /\ repo = FALSE
    /\ tpllist = InitTpls
    /\ applist = EmptyList
    /\ pipelist = NoPipes
    /\ cells = {}
    /\ co = [p \in Proc |-> IF p = Boot THEN [Idle EXCEPT !.kind = "boot", !.at = "start"]
                            ELSE Idle]
    /\ queue = <<>>
    /\ cfg = [repo |-> InitRepo, apps |-> NoApps, pipes |-> NoPipes]
    /\ files = {}
    /\ restarts = 0

\* What a coroutine does when the reply it waits for is there.
Resume(p) ==
    \/ AppNewInstalled(p) \/ InstallFails(p)
    \/ Spawned(p) \/ SpawnFails(p)
    \/ AppLoaded(p) \/ ConfRaises(p)
    \/ RepoUpdated(p) \/ RepoFails(p) \/ ConfigureInstalled(p)
    \/ \E i \in AppId : \/ CleanApp(p, i) \/ CleanAppRaises(p, i)
                        \/ LoadApp(p, i) \/ Reconf(p, i)
    \/ \E k \in PipeId : LoadPipe(p, k) \/ LoadPipeRaises(p, k)
    \/ Reconfigured(p) \/ ReconfRefused(p)
    \/ Finish(p)
    \/ UpgradeFails(p) \/ UpgradeCleans(p) \/ Quit(p)

Command(c) ==
    \/ \E a \in App : AppNew(c, a) \/ AppNewInstall(c, a)
    \/ \E i \in AppId : AppRemove(c, i)
    \/ \E k \in PipeId : \/ \E arg \in PipeArgs : PipeNew(c, k, arg) \/ PipeNewRaises(c, k, arg)
                         \/ PipeRemove(c, k) \/ PipeRemoveRaises(c, k)
                         \/ PipeStart(c, k) \/ PipeStop(c, k)
    \/ \E arg \in ConfigArgs : Configure(c, arg) \/ ConfigureRepo(c, arg)
    \/ Upgrade(c)

Next ==
    \/ \E c \in Client : Command(c)
    \/ \E p \in Proc : Resume(p)
    \/ BootConfigures
    \/ BootRejects
    \/ SysmgrSaves
    \/ Restart

Spec == Init /\ [][Next]_vars

\* skynet runs a ready coroutine, a service answers, sysmgr works its mailbox.
Fairness == /\ \A p \in Proc : WF_vars(Resume(p))
            /\ WF_vars(BootConfigures \/ BootRejects)
            /\ WF_vars(SysmgrSaves)
FairSpec == Spec /\ Fairness

-----------------------------------------------------------------------------
(* Properties *)

\* A coroutine that loads an APP knows which and where; its loop over APPs
\* ranges over APPs of its argument.
Sound(r) ==
    /\ r.at \in {"install", "spawn", "conf"} => r.app \in App
    /\ r.at \in {"spawn", "conf"} => r.id \in AppId
    /\ r.at \in {"install", "apps", "spawn", "conf"} => r.todo \subseteq AppsIn(r.arg)

\* What is loaded is an APP.
Described == \A i \in AppId : Loaded(i) => applist[i].app \in App

\* The types of the state (the tables and coroutines of appmgr, what sysmgr
\* keeps): no command builds a slot, a request or a file that is malformed.
TypeOK ==
    /\ locked \in BOOLEAN
    /\ repo \in BOOLEAN
    /\ tpllist \in SUBSET Tpl
    /\ applist \in [Elem -> Slot]
    /\ pipelist \in PipeTable
    /\ cells \in SUBSET Handle
    /\ co \in [Proc -> Co]
    /\ queue \in Seq(Request)
    /\ cfg \in [repo : BOOLEAN, apps : AppTable, pipes : PipeTable]
    /\ files \in SUBSET (AppId \X App)
    /\ restarts \in Nat
    /\ \A p \in Proc : Sound(co[p])
    /\ Described

Loading(p) == co[p].at \in {"spawn", "conf"} /\ co[p].arg.kind # "apps"

\* Every loaded APP runs in a cell of its own: no two slots share one, and a
\* slot never keeps the address of a cell that was told to exit (remove_app,
\* load_app).
LoadedAlive ==
    \A i \in AppId : Loaded(i) =>
        /\ applist[i].addr \in cells
        /\ \A j \in AppId \ {i} : applist[j].addr # applist[i].addr

\* What LoadedAlive rests on: a slot that is not loaded has no cell, and the
\* cell a command is waiting for is no slot's and no other command's.
OwnCell(p) ==
    Loading(p) /\ co[p].at = "conf" =>
        /\ co[p].addr \in Handle
        /\ \A i \in AppId : applist[i].addr # co[p].addr
        /\ \A q \in Proc \ {p} : Loading(q) /\ co[q].at = "conf" => co[q].addr # co[p].addr
CellsOwned ==
    /\ \A i \in AppId : ~Loaded(i) => applist[i].addr = NoAddr
    /\ \A p \in Proc : OwnCell(p)

\* An id is reserved exactly while one command loads an APP into it, so no
\* two commands load into the same id (load_app: "to reserve id").
IdReserved ==
    /\ \A p, q \in Proc : Loading(p) /\ Loading(q) /\ p # q => co[p].id # co[q].id
    /\ \A i \in AppId : applist[i].st = "reserved" <=> \E p \in Proc : Loading(p) /\ co[p].id = i

\* Every cell that runs is an APP's, or is being loaded: none is forgotten.
NoOrphan ==
    \A h \in cells : \/ \E i \in AppId : Loaded(i) /\ applist[i].addr = h
                     \/ \E p \in Proc : Loading(p) /\ co[p].addr = h

\* The APPs of a PIPE are loaded and know the PIPE, so that starting,
\* stopping or removing it never raises (start_pipe, stop_pipe, clean).
PipesRouted == \A k \in PipeId : HasPipe(k) => Routed(k)

\* A PIPE's entry in the route table of an APP leads to the running cell of
\* the APP that follows it in the PIPE (the last time the PIPE lists it): no
\* data goes to a cell that is gone or was replaced.
RoutesLead ==
    \A k \in PipeId : HasPipe(k) =>
        LET s == pipelist[k].apps
        IN  \A i \in 1..(Len(s) - 1) :
                LastIn(s, Len(s), s[i], i) =>
                    /\ applist[s[i]].route[k].to = applist[s[i + 1]].addr
                    /\ applist[s[i]].route[k].to \in cells \cup SysApps

\* Whenever commands are taken, an APP is in use only if a PIPE uses it: what
\* app_remove goes by, the route table, has no entry of a PIPE that does not
\* list the APP ("APP used by PIPE").
InUseByPipe ==
    ~locked => \A i \in AppId, k \in PipeId :
        applist[i].route[k].has => HasPipe(k) /\ i \in Members(pipelist[k].apps)

\* The flag that refuses every command ("system in maintenance") is set only
\* while a command or the boot does maintenance.
LockedInMaintenance == locked => \E p \in Proc : Maintaining(p)

\* What appmgr has in memory, as sysmgr would save it.
Image == [i \in AppId |-> IF Loaded(i) THEN applist[i].app ELSE NoApp]

\* What sysmgr will have saved once it has worked the first n requests of q.
Persisted(c, q) ==
    LET f[n \in 0..Len(q)] == IF n = 0 THEN c ELSE Applied(f[n - 1], q[n])
    IN  f

\* What memory and disk agree on once sysmgr has worked its mailbox: the
\* requests are sent in the order of the decisions, in the same segments, so
\* a crash loses a suffix of the decisions and never one in their middle.
SavedInStep ==
    co[Boot] = Idle =>
        LET c == Persisted(cfg, queue)[Len(queue)]
        IN  c.apps = Image /\ c.pipes = pipelist

\* When boot is over the APPs and PIPEs of the configuration are there.
BootRestores ==
    [][co[Boot] # Idle /\ co'[Boot] = Idle => Image' = cfg.apps /\ pipelist' = cfg.pipes]_vars

\* Maintenance comes to an end: the flag that refuses every command is cleared
\* again, or the process has made way for the system it was upgraded to.
MaintenanceEnds == locked ~> ~locked \/ \E p \in Proc : co[p].at = "quit"

\* The APPs that are loaded and the PIPEs, as PipeGraph sees them: AppMgr does
\* what PipeGraph promises.
Graph == INSTANCE PipeGraph WITH apps <- {i \in AppId : Loaded(i)}, pipes <- pipelist
GraphSpec == Graph!Spec

=============================================================================
