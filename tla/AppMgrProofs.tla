---------------------------- MODULE AppMgrProofs ----------------------------
(***************************************************************************)
(* Proofs about AppMgr, for every number of clients, APPs, PIPEs, cells    *)
(* and crashes, and every choice of commands.  The first, of types and     *)
(* cells, hold under every fault, whether or not maintenance is issued in  *)
(* quiet; each later theorem names what it assumes, least first: Serial,   *)
(* no cell that raises while it takes its configuration, one client.       *)
(***************************************************************************)
EXTENDS AppMgr, WellFoundedInduction, TLAPS

-----------------------------------------------------------------------------
(* The records the actions build are well-formed. *)

LEMMA Numbers == /\ NoAddr \in Addr
                 /\ AppId \subseteq Nat /\ PipeId \subseteq Nat /\ Handle \subseteq Nat
                 /\ AppId \subseteq Elem
                 /\ \A h \in Handle : h \in Addr /\ h # NoAddr
                 /\ Boot \in Proc /\ Client \subseteq Proc
  BY BoundAssumption DEF NoAddr, Addr, AppId, PipeId, Handle, Elem, Proc

LEMMA RoutesTyped == NoRoute \in Route /\ NoRoutes \in [PipeId -> Route]
  BY Numbers DEF NoRoute, NoRoutes, Route

LEMMA SlotsTyped ==
    /\ FreeSlot \in Slot
    /\ ReservedSlot \in Slot
    /\ \A a \in App \cup {NoApp}, h \in Addr : LoadedSlot(a, h) \in Slot
  <1>1. FreeSlot \in Slot
    BY Numbers, RoutesTyped DEF FreeSlot, Slot
  <1>2. ReservedSlot \in Slot
    BY Numbers, RoutesTyped DEF FreeSlot, ReservedSlot, Slot
  <1>3. ASSUME NEW a \in App \cup {NoApp}, NEW h \in Addr
        PROVE  LoadedSlot(a, h) \in Slot
    BY <1>3, RoutesTyped DEF LoadedSlot, Slot
  <1> QED BY <1>1, <1>2, <1>3

LEMMA PipesTyped == NoPipe \in Pipe /\ NoPipes \in PipeTable
  <1>1. <<>> \in Seq(Elem)
    OBVIOUS
  <1> QED BY <1>1 DEF NoPipe, NoPipes, Pipe, PipeTable, PipeState

LEMMA ConfigTyped == NoConfig \in Config /\ NoApps \in AppTable
  BY PipesTyped DEF NoConfig, NoApps, Config, AppTable

LEMMA IdleTyped == Idle \in Co /\ Sound(Idle)
  BY ConfigTyped, Numbers DEF Idle, Co, Kind, Place, Sound

-----------------------------------------------------------------------------
(* What the steps do to one variable. *)

\* A coroutine that becomes a sound record leaves all coroutines sound.
LEMMA CoStep ==
    ASSUME TypeOK, NEW p \in Proc, NEW r \in Co, Sound(r), Become(p, r)
    PROVE  co' \in [Proc -> Co] /\ \A q \in Proc : Sound(co'[q])
  <1>1. co \in [Proc -> Co] /\ \A q \in Proc : Sound(co[q])
    BY DEF TypeOK
  <1>2. co' = [co EXCEPT ![p] = r]
    BY DEF Become
  <1>3. co' \in [Proc -> Co]
    BY <1>1, <1>2
  <1>4. \A q \in Proc : co'[q] = IF q = p THEN r ELSE co[q]
    BY <1>1, <1>2
  <1> QED BY <1>1, <1>3, <1>4

\* A slot that is given a well-formed content leaves the table well-formed.
LEMMA SlotStep ==
    ASSUME TypeOK, NEW i \in Elem, NEW s \in Slot,
           i \in AppId /\ s.st = "loaded" => s.app \in App,
           applist' = [applist EXCEPT ![i] = s]
    PROVE  applist' \in [Elem -> Slot] /\ Described'
  <1>1. applist \in [Elem -> Slot] /\ Described
    BY DEF TypeOK
  <1>2. \A e \in Elem : applist'[e] = IF e = i THEN s ELSE applist[e]
    BY <1>1
  <1> QED BY <1>1, <1>2, Numbers DEF Described, Loaded

LEMMA QueueStep ==
    ASSUME TypeOK, NEW r \in Request, queue' = Append(queue, r)
    PROVE  queue' \in Seq(Request)
  BY DEF TypeOK

\* What load_pipe and pipe_remove write is well-formed, and concerns the
\* route tables only.
LEMMA RoutesStep ==
    ASSUME TypeOK, NEW k \in PipeId, NEW s \in Seq(Elem), NEW n \in 0..Len(s),
           \/ applist' = WithRoutes(k, s, n)
           \/ applist' = WithoutRoutes(k, s, n)
    PROVE  /\ applist' \in [Elem -> Slot]
           /\ Described'
           /\ \A e \in Elem : /\ applist'[e].st = applist[e].st
                              /\ applist'[e].addr = applist[e].addr
                              /\ applist'[e].app = applist[e].app
  <1>1. applist \in [Elem -> Slot]
    BY DEF TypeOK
  <1>2. \A e \in Elem : RouteFor(s, n, e) \in Route
    <2> TAKE e \in Elem
    <2> DEFINE Linked == {i \in 1..n : i < Len(s) /\ LastIn(s, n, e, i)}
    <2>1. CASE Linked = {}
      BY <2>1, Numbers DEF RouteFor, Route
    <2>2. CASE Linked # {}
      <3>1. PICK i : i \in Linked /\ i = CHOOSE j \in Linked : TRUE
        BY <2>2
      <3>2. i + 1 \in 1..Len(s)
        BY <3>1
      <3>3. s[i + 1] \in Elem
        BY <3>2
      <3>4. applist[s[i + 1]].addr \in Addr
        BY <3>3, <1>1 DEF Slot
      <3> QED BY <2>2, <3>1, <3>4 DEF RouteFor, Route
    <2> QED BY <2>1, <2>2
  <1>3. ASSUME NEW e \in Elem, NEW r \in Route
        PROVE  LET t == [applist[e] EXCEPT !.route[k] = r]
               IN  /\ t \in Slot
                   /\ t.st = applist[e].st
                   /\ t.addr = applist[e].addr
                   /\ t.app = applist[e].app
    BY <1>1, <1>3 DEF Slot
  <1>4. \A e \in Elem : /\ applist'[e] \in Slot
                        /\ applist'[e].st = applist[e].st
                        /\ applist'[e].addr = applist[e].addr
                        /\ applist'[e].app = applist[e].app
    <2> TAKE e \in Elem
    <2>1. \/ applist'[e] = applist[e]
          \/ applist'[e] = [applist[e] EXCEPT !.route[k] = RouteFor(s, n, e)]
          \/ applist'[e] = [applist[e] EXCEPT !.route[k] = NoRoute]
      <3>1. CASE applist' = WithRoutes(k, s, n)
        BY <3>1, Zenon DEF WithRoutes
      <3>2. CASE applist' = WithoutRoutes(k, s, n)
        BY <3>2, Zenon DEF WithoutRoutes
      <3> QED BY <3>1, <3>2
    <2>2. CASE applist'[e] = applist[e]
      BY <2>2, <1>1
    <2>3. CASE applist'[e] = [applist[e] EXCEPT !.route[k] = RouteFor(s, n, e)]
      BY <2>3, <1>2, <1>3, ZenonT(40)
    <2>4. CASE applist'[e] = [applist[e] EXCEPT !.route[k] = NoRoute]
      BY <2>4, <1>3, RoutesTyped, ZenonT(40)
    <2> QED BY <2>1, <2>2, <2>3, <2>4
  <1>5. applist' \in [Elem -> Slot]
    BY <1>4 DEF WithRoutes, WithoutRoutes
  <1>6. Described'
    BY <1>4, Numbers DEF TypeOK, Described, Loaded
  <1> QED BY <1>4, <1>5, <1>6

-----------------------------------------------------------------------------
(* The segments several actions share. *)

LEMMA IdleStep ==
    ASSUME TypeOK, NEW p \in Proc, Become(p, Idle)
    PROVE  co' \in [Proc -> Co] /\ \A q \in Proc : Sound(co'[q])
  BY CoStep, IdleTyped

LEMMA ReserveTypes ==
    ASSUME TypeOK, NEW p \in Proc, NEW i \in AppId, NEW a \in App, NEW r \in Co,
           r.todo \subseteq AppsIn(r.arg), Reserve(p, i, a, r)
    PROVE  /\ applist' \in [Elem -> Slot] /\ Described'
           /\ co' \in [Proc -> Co] /\ \A q \in Proc : Sound(co'[q])
  <1> DEFINE n == [r EXCEPT !.at = "spawn", !.id = i, !.app = a]
  <1>1. n \in Co /\ Sound(n)
    BY DEF Co, Place, Sound
  <1>2. co' \in [Proc -> Co] /\ \A q \in Proc : Sound(co'[q])
    BY <1>1, CoStep DEF Reserve
  <1>3. ReservedSlot.st # "loaded"
    BY DEF ReservedSlot, FreeSlot
  <1>4. applist' \in [Elem -> Slot] /\ Described'
    BY <1>3, SlotStep, SlotsTyped, Numbers DEF Reserve
  <1> QED BY <1>2, <1>4

LEMMA VacateTypes ==
    ASSUME TypeOK, NEW i \in AppId, Vacate(i)
    PROVE  applist' \in [Elem -> Slot] /\ Described'
  <1>1. FreeSlot.st # "loaded"
    BY DEF FreeSlot
  <1> QED BY <1>1, SlotStep, SlotsTyped, Numbers DEF Vacate

LEMMA PutTypes ==
    ASSUME TypeOK, NEW p \in Proc, NEW i \in AppId, NEW a \in App, Put(p, i, a)
    PROVE  queue' \in Seq(Request)
  BY QueueStep DEF Put, Request

LEMMA DelTypes ==
    ASSUME TypeOK, NEW p \in Proc, NEW i \in AppId, Del(p, i)
    PROVE  queue' \in Seq(Request)
  <1>1. applist[i].app \in App \cup {NoApp}
    BY Numbers DEF TypeOK, Slot
  <1> QED BY <1>1, QueueStep DEF Del, Request

LEMMA PutPipesTypes ==
    ASSUME TypeOK, NEW p \in Proc, NEW list \in PipeTable, PutPipes(p, list)
    PROVE  queue' \in Seq(Request)
  BY QueueStep DEF PutPipes, Request

\* clean, up to its first save.
LEMMA CleanTypes ==
    ASSUME TypeOK, NEW p \in Proc, NEW r \in Co,
           Clean(p, r) \/ CleanRaises(p)
    PROVE  /\ pipelist' \in PipeTable
           /\ queue' \in Seq(Request)
           /\ co' \in [Proc -> Co] /\ \A q \in Proc : Sound(co'[q])
  <1>1. CASE Clean(p, r)
    <2> DEFINE n == [r EXCEPT !.at = "forget"]
    <2>1. n \in Co /\ Sound(n)
      BY DEF Co, Place, Sound
    <2>2. co' \in [Proc -> Co] /\ \A q \in Proc : Sound(co'[q])
      BY <1>1, <2>1, CoStep DEF Clean
    <2>3. queue' \in Seq(Request)
      BY <1>1, PutPipesTypes, PipesTyped DEF Clean
    <2> QED BY <1>1, <2>2, <2>3, PipesTyped DEF Clean
  <1>2. CASE CleanRaises(p)
    <2>1. PICK S \in SUBSET {k \in PipeId : HasPipe(k) /\ Routed(k)} :
              pipelist' = [k \in PipeId |-> IF k \in S THEN [pipelist[k] EXCEPT !.st = "stopped"]
                                            ELSE pipelist[k]]
      BY <1>2 DEF CleanRaises
    <2>2. \A k \in PipeId : /\ pipelist[k] \in Pipe
                            /\ [pipelist[k] EXCEPT !.st = "stopped"] \in Pipe
      BY DEF TypeOK, PipeTable, Pipe, PipeState
    <2>3. pipelist' \in PipeTable
      BY <2>1, <2>2 DEF PipeTable
    <2> QED BY <1>2, <2>3, IdleStep DEF CleanRaises, TypeOK
  <1> QED BY <1>1, <1>2

\* validate_conf and what follows it.
LEMMA ValidateTypes ==
    ASSUME TypeOK, NEW p \in Proc, NEW arg \in Config, NEW tpls, NEW hasrepo,
           Validate(p, arg, tpls, hasrepo)
    PROVE  /\ locked' \in BOOLEAN
           /\ pipelist' \in PipeTable
           /\ queue' \in Seq(Request)
           /\ co' \in [Proc -> Co] /\ \A q \in Proc : Sound(co'[q])
  <1> DEFINE r == [Idle EXCEPT !.kind = "configure", !.arg = arg]
  <1>0. r \in Co
    BY IdleTyped DEF Co, Kind
  <1>1. CASE Enter(p, arg)
    <2>1. locked' \in BOOLEAN
      BY <1>1 DEF Enter
    <2>2. CASE Clean(p, r) \/ CleanRaises(p)
      BY <1>0, <2>1, <2>2, CleanTypes
    <2>3. CASE /\ Become(p, [r EXCEPT !.at = "apps", !.todo = AppsIn(arg)])
               /\ UNCHANGED <<pipelist, queue>>
      <3> DEFINE n == [r EXCEPT !.at = "apps", !.todo = AppsIn(arg)]
      <3>1. n \in Co /\ Sound(n)
        BY <1>0 DEF Co, Place, Sound, AppsIn, Idle
      <3> QED BY <2>1, <2>3, <3>1, CoStep DEF TypeOK
    <2>4. CASE Become(p, Idle) /\ UNCHANGED <<pipelist, queue>>
      BY <2>1, <2>4, IdleStep DEF TypeOK
    <2> QED BY <1>1, <2>2, <2>3, <2>4 DEF Enter
  <1>2. CASE /\ \E i \in Missing(arg, tpls) :
                    Become(p, [Idle EXCEPT !.kind = "configure", !.at = "install",
                                           !.arg = arg, !.app = arg.apps[i]])
             /\ UNCHANGED <<locked, pipelist, queue>>
    <2>1. PICK i \in Missing(arg, tpls) :
              Become(p, [Idle EXCEPT !.kind = "configure", !.at = "install",
                                     !.arg = arg, !.app = arg.apps[i]])
      BY <1>2
    <2>2. arg.apps[i] \in App
      BY <2>1 DEF Missing, AppsIn, Config, AppTable
    <2> DEFINE n == [Idle EXCEPT !.kind = "configure", !.at = "install",
                                 !.arg = arg, !.app = arg.apps[i]]
    <2>3. n \in Co /\ Sound(n)
      BY <2>2, IdleTyped DEF Co, Kind, Place, Sound, Idle
    <2> QED BY <1>2, <2>1, <2>3, CoStep DEF TypeOK
  <1>3. CASE Become(p, Idle) /\ UNCHANGED <<locked, pipelist, queue>>
    BY <1>3, IdleStep DEF TypeOK
  <1> QED BY <1>1, <1>2, <1>3 DEF Validate

LEMMA ListKept ==
    ASSUME TypeOK, UNCHANGED applist
    PROVE  applist' \in [Elem -> Slot] /\ Described'
  BY DEF TypeOK, Described, Loaded

-----------------------------------------------------------------------------
(* Type correctness: each action, then the specification. *)

LEMMA CommandTypes ==
    ASSUME TypeOK, NEW c \in Client, Command(c)
    PROVE  TypeOK'
  <1>0. c \in Proc
    BY Numbers
  <1>1. ASSUME NEW a \in App, AppNew(c, a) PROVE TypeOK'
    <2> DEFINE r == [Idle EXCEPT !.kind = "app_new"]
    <2>1. r \in Co /\ r.todo \subseteq AppsIn(r.arg)
      BY IdleTyped DEF Co, Kind, Idle
    <2>2. PICK i \in AppId : Reserve(c, i, a, r)
      BY <1>1 DEF AppNew, NewAppId
    <2> HIDE DEF r
    <2>3. /\ applist' \in [Elem -> Slot] /\ Described'
          /\ co' \in [Proc -> Co] /\ \A q \in Proc : Sound(co'[q])
      BY <1>0, <2>1, <2>2, ReserveTypes
    <2> QED BY <1>1, <2>3 DEF AppNew, TypeOK, sysmgrVars
  <1>2. ASSUME NEW a \in App, AppNewInstall(c, a) PROVE TypeOK'
    <2> DEFINE r == [Idle EXCEPT !.kind = "app_new", !.at = "install", !.app = a]
    <2>1. r \in Co /\ Sound(r)
      BY IdleTyped DEF Co, Kind, Place, Idle, Sound
    <2>2. co' \in [Proc -> Co] /\ \A q \in Proc : Sound(co'[q])
      BY <1>0, <1>2, <2>1, CoStep DEF AppNewInstall
    <2> QED BY <1>2, <2>2, ListKept DEF AppNewInstall, TypeOK, sysmgrVars
  <1>3. ASSUME NEW i \in AppId, AppRemove(c, i) PROVE TypeOK'
    <2>1. queue' \in Seq(Request)
      BY <1>0, <1>3, DelTypes DEF AppRemove
    <2>2. cells' \in SUBSET Handle
      BY <1>3 DEF AppRemove, Exit, TypeOK
    <2> QED BY <1>3, <2>1, <2>2, VacateTypes DEF AppRemove, TypeOK, sysmgrVars
  <1>4. ASSUME NEW k \in PipeId, NEW arg \in PipeArgs, PipeNew(c, k, arg) PROVE TypeOK'
    <2> DEFINE list == [pipelist EXCEPT ![k] = [st |-> TryStart(arg.auto), apps |-> arg.apps]]
    <2>1. arg.apps \in Seq(Elem)
      BY ArgAssumption DEF PipeArg
    <2>2. Len(arg.apps) \in 0..Len(arg.apps)
      BY <2>1
    <2>3. list \in PipeTable
      BY <2>1 DEF TypeOK, PipeTable, Pipe, PipeState, TryStart
    <2>4. queue' \in Seq(Request)
      BY <1>0, <1>4, <2>3, PutPipesTypes DEF PipeNew
    <2>5. applist' \in [Elem -> Slot] /\ Described'
      BY <1>4, <2>1, <2>2, RoutesStep DEF PipeNew
    <2> QED BY <1>4, <2>3, <2>4, <2>5 DEF PipeNew, TypeOK, sysmgrVars
  <1>5. ASSUME NEW k \in PipeId, NEW arg \in PipeArgs, PipeNewRaises(c, k, arg) PROVE TypeOK'
    <2>1. arg.apps \in Seq(Elem)
      BY ArgAssumption DEF PipeArg
    <2>2. PICK n \in 0..Len(arg.apps) : applist' = WithRoutes(k, arg.apps, n)
      BY <1>5 DEF PipeNewRaises, Reach
    <2>3. applist' \in [Elem -> Slot] /\ Described'
      BY <2>1, <2>2, RoutesStep
    <2> QED BY <1>5, <2>3 DEF PipeNewRaises, TypeOK, sysmgrVars
  <1>6. ASSUME NEW k \in PipeId PROVE pipelist[k].apps \in Seq(Elem)
    BY <1>6 DEF TypeOK, PipeTable, Pipe
  <1>7. ASSUME NEW k \in PipeId, PipeRemove(c, k) PROVE TypeOK'
    <2> DEFINE list == [pipelist EXCEPT ![k] = NoPipe]
    <2>1. list \in PipeTable
      BY PipesTyped DEF TypeOK, PipeTable
    <2>2. queue' \in Seq(Request)
      BY <1>0, <1>7, <2>1, PutPipesTypes DEF PipeRemove
    <2>3. Len(pipelist[k].apps) \in 0..Len(pipelist[k].apps)
      BY <1>6
    <2>4. applist' \in [Elem -> Slot] /\ Described'
      BY <1>6, <1>7, <2>3, RoutesStep DEF PipeRemove
    <2> QED BY <1>7, <2>1, <2>2, <2>4 DEF PipeRemove, TypeOK, sysmgrVars
  <1>8. ASSUME NEW k \in PipeId, PipeRemoveRaises(c, k) PROVE TypeOK'
    <2>1. PICK n \in 0..Len(pipelist[k].apps) :
              applist' = WithoutRoutes(k, pipelist[k].apps, n)
      BY <1>8 DEF PipeRemoveRaises, Reach
    <2>2. applist' \in [Elem -> Slot] /\ Described'
      BY <1>6, <2>1, RoutesStep
    <2> QED BY <1>8, <2>2 DEF PipeRemoveRaises, TypeOK, sysmgrVars
  <1>9. ASSUME NEW k \in PipeId, PipeStart(c, k) \/ PipeStop(c, k) PROVE TypeOK'
    <2>1. PICK cmd \in {"pipe_start", "pipe_stop"}, from, to \in {"stopped", "started"} :
              PipeSwitch(c, cmd, k, from, to)
      BY <1>9 DEF PipeStart, PipeStop
    <2> DEFINE list == [pipelist EXCEPT ![k].st = to]
    <2>2. list \in PipeTable
      BY DEF TypeOK, PipeTable, Pipe, PipeState
    <2>3. queue' \in Seq(Request)
      BY <1>0, <2>1, <2>2, PutPipesTypes DEF PipeSwitch
    <2> QED BY <2>1, <2>2, <2>3, ListKept DEF PipeSwitch, TypeOK, sysmgrVars
  <1>10. ASSUME NEW arg \in ConfigArgs, Configure(c, arg) PROVE TypeOK'
    <2>1. arg \in Config
      BY ArgAssumption
    <2>2. /\ locked' \in BOOLEAN
          /\ pipelist' \in PipeTable
          /\ queue' \in Seq(Request)
          /\ co' \in [Proc -> Co] /\ \A q \in Proc : Sound(co'[q])
      BY <1>0, <1>10, <2>1, ValidateTypes DEF Configure
    <2> QED BY <1>10, <2>2, ListKept DEF Configure, TypeOK, sysmgrVars
  <1>11. ASSUME NEW arg \in ConfigArgs, ConfigureRepo(c, arg) PROVE TypeOK'
    <2> DEFINE r == [Idle EXCEPT !.kind = "configure", !.at = "repo", !.arg = arg]
    <2>1. r \in Co /\ Sound(r)
      BY ArgAssumption, IdleTyped DEF Co, Kind, Place, Sound
    <2>2. co' \in [Proc -> Co] /\ \A q \in Proc : Sound(co'[q])
      BY <1>0, <1>11, <2>1, CoStep DEF ConfigureRepo
    <2> QED BY <1>11, <2>2, ListKept DEF ConfigureRepo, TypeOK, sysmgrVars
  <1>12. ASSUME Upgrade(c) PROVE TypeOK'
    <2> DEFINE r == [Idle EXCEPT !.kind = "upgrade", !.at = "upgrade"]
    <2>1. r \in Co /\ Sound(r)
      BY IdleTyped DEF Co, Kind, Place, Sound
    <2>2. co' \in [Proc -> Co] /\ \A q \in Proc : Sound(co'[q])
      BY <1>0, <1>12, <2>1, CoStep DEF Upgrade
    <2> QED BY <1>12, <2>2, ListKept DEF Upgrade, TypeOK, sysmgrVars
  <1> QED
    BY <1>1, <1>2, <1>3, <1>4, <1>5, <1>7, <1>8, <1>9, <1>10, <1>11, <1>12 DEF Command

\* What a coroutine still has to do lies within its argument.
LEMMA LeftTypes ==
    ASSUME TypeOK, NEW p \in Proc
    PROVE  /\ co[p] \in Co /\ Sound(co[p])
           /\ ToLoad(p) \subseteq AppsIn(co[p].arg)
           /\ ToClean(p) \ {} \subseteq AppId \cup PipeId
  <1>1. co[p] \in Co /\ Sound(co[p])
    BY DEF TypeOK
  <1>2. ToLoad(p) \subseteq AppsIn(co[p].arg)
    BY <1>1 DEF ToLoad, Sound
  <1> QED BY <1>1, <1>2 DEF ToClean, Co

LEMMA ResumeTypes ==
    ASSUME TypeOK, NEW p \in Proc, Resume(p)
    PROVE  TypeOK'
  <1>0. co[p] \in Co /\ Sound(co[p])
    BY LeftTypes
  <1>1. ASSUME AppNewInstalled(p) PROVE TypeOK'
    <2>1. co[p].app \in App /\ co[p].todo \subseteq AppsIn(co[p].arg)
      BY <1>0, <1>1 DEF AppNewInstalled, Sound
    <2>2. PICK i \in AppId : Reserve(p, i, co[p].app, co[p])
      BY <1>1 DEF AppNewInstalled, NewAppId
    <2>3. /\ applist' \in [Elem -> Slot] /\ Described'
          /\ co' \in [Proc -> Co] /\ \A q \in Proc : Sound(co'[q])
      BY <1>0, <2>1, <2>2, ReserveTypes
    <2>4. tpllist' \in SUBSET Tpl
      BY <1>1, <2>1 DEF AppNewInstalled, App, TypeOK
    <2> QED BY <1>1, <2>3, <2>4 DEF AppNewInstalled, TypeOK, sysmgrVars
  <1>2. ASSUME \/ InstallFails(p) \/ ConfRaises(p) \/ RepoFails(p) \/ UpgradeFails(p)
        PROVE TypeOK'
    BY <1>2, IdleStep, ListKept DEF InstallFails, ConfRaises, RepoFails, UpgradeFails,
       TypeOK, sysmgrVars
  <1>3. ASSUME Spawned(p) PROVE TypeOK'
    <2>1. PICK h \in Handle : /\ cells' = cells \cup {h}
                              /\ Become(p, [co[p] EXCEPT !.at = "conf", !.addr = h])
      BY <1>3 DEF Spawned
    <2> DEFINE r == [co[p] EXCEPT !.at = "conf", !.addr = h]
    <2>2. r \in Co
      BY <1>0, Numbers DEF Co, Place
    <2>3. Sound(r)
      BY <1>0, <1>3 DEF Spawned, Co, Sound
    <2>4. co' \in [Proc -> Co] /\ \A q \in Proc : Sound(co'[q])
      BY <2>1, <2>2, <2>3, CoStep
    <2> QED BY <1>3, <2>1, <2>4, ListKept DEF Spawned, TypeOK, sysmgrVars
  <1>4. ASSUME SpawnFails(p) PROVE TypeOK'
    <2>1. co[p].id \in AppId
      BY <1>0, <1>4 DEF SpawnFails, Sound
    <2>2. locked' \in BOOLEAN
      BY <1>4 DEF SpawnFails, Unlock, TypeOK
    <2> QED BY <1>4, <2>1, <2>2, VacateTypes, IdleStep DEF SpawnFails, TypeOK, sysmgrVars
  <1>5. ASSUME co[p].at = "conf"
        PROVE  /\ [co[p] EXCEPT !.at = "apps", !.id = 0, !.app = NoApp, !.addr = NoAddr] \in Co
               /\ Sound([co[p] EXCEPT !.at = "apps", !.id = 0, !.app = NoApp, !.addr = NoAddr])
    BY <1>0, <1>5, Numbers DEF Co, Place, Sound
  <1>6. ASSUME AppLoaded(p) PROVE TypeOK'
    <2>1. co[p].id \in AppId /\ co[p].app \in App /\ co[p].addr \in Addr
      BY <1>0, <1>6 DEF AppLoaded, Sound, Co
    <2>2. LoadedSlot(co[p].app, co[p].addr) \in Slot
      BY <2>1, SlotsTyped
    <2>3. LoadedSlot(co[p].app, co[p].addr).app \in App
      BY <2>1 DEF LoadedSlot
    <2>4. applist' \in [Elem -> Slot] /\ Described'
      BY <1>6, <2>1, <2>2, <2>3, SlotStep, Numbers DEF AppLoaded
    <2>5. queue' \in Seq(Request)
      BY <1>6, <2>1, PutTypes DEF AppLoaded, TypeOK
    <2>6. co' \in [Proc -> Co] /\ \A q \in Proc : Sound(co'[q])
      BY <1>5, <1>6, IdleStep, CoStep DEF AppLoaded
    <2> QED BY <1>6, <2>4, <2>5, <2>6 DEF AppLoaded, TypeOK, sysmgrVars
  <1>7. ASSUME RepoUpdated(p) PROVE TypeOK'
    <2>1. co[p].arg \in Config
      BY <1>0 DEF Co
    <2>2. /\ locked' \in BOOLEAN
          /\ pipelist' \in PipeTable
          /\ queue' \in Seq(Request)
          /\ co' \in [Proc -> Co] /\ \A q \in Proc : Sound(co'[q])
      BY <1>7, <2>1, ValidateTypes DEF RepoUpdated
    <2> QED BY <1>7, <2>2, ListKept DEF RepoUpdated, TypeOK
  <1>8. ASSUME ConfigureInstalled(p) PROVE TypeOK'
    <2>1. co[p].arg \in Config /\ co[p].app.tpl \in Tpl
      BY <1>0, <1>8 DEF ConfigureInstalled, Co, Sound, App
    <2>2. /\ locked' \in BOOLEAN
          /\ pipelist' \in PipeTable
          /\ queue' \in Seq(Request)
          /\ co' \in [Proc -> Co] /\ \A q \in Proc : Sound(co'[q])
      BY <1>8, <2>1, ValidateTypes DEF ConfigureInstalled
    <2> QED BY <1>8, <2>1, <2>2, ListKept DEF ConfigureInstalled, TypeOK, sysmgrVars
  <1>9. ASSUME NEW i \in AppId, CleanApp(p, i) PROVE TypeOK'
    <2> DEFINE r == [co[p] EXCEPT !.at = "clean", !.todo = ToClean(p) \ {i}]
    <2>1. r \in Co /\ Sound(r)
      BY <1>0, LeftTypes DEF Co, Place, Sound
    <2>2. co' \in [Proc -> Co] /\ \A q \in Proc : Sound(co'[q])
      BY <1>9, <2>1, CoStep DEF CleanApp
    <2>3. queue' \in Seq(Request)
      BY <1>9, DelTypes DEF CleanApp
    <2>4. cells' \in SUBSET Handle
      BY <1>9 DEF CleanApp, Exit, TypeOK
    <2> QED BY <1>9, <2>2, <2>3, <2>4, VacateTypes DEF CleanApp, TypeOK, sysmgrVars
  <1>10. ASSUME NEW i \in AppId, CleanAppRaises(p, i) PROVE TypeOK'
    BY <1>10, IdleStep, ListKept DEF CleanAppRaises, TypeOK, sysmgrVars
  <1>11. ASSUME NEW i \in AppId, LoadApp(p, i) PROVE TypeOK'
    <2> DEFINE r == [co[p] EXCEPT !.todo = ToLoad(p) \ {i}]
    <2>1. r \in Co /\ r.todo \subseteq AppsIn(r.arg)
      BY <1>0, LeftTypes DEF Co, AppsIn
    <2>2. co[p].arg.apps[i] \in App
      BY <1>0, <1>11, LeftTypes DEF LoadApp, Co, Config, AppTable, AppsIn
    <2>3. Reserve(p, i, co[p].arg.apps[i], r)
      BY <1>11 DEF LoadApp
    <2> HIDE DEF r
    <2>4. /\ applist' \in [Elem -> Slot] /\ Described'
          /\ co' \in [Proc -> Co] /\ \A q \in Proc : Sound(co'[q])
      BY <2>1, <2>2, <2>3, ReserveTypes
    <2> QED BY <1>11, <2>4 DEF LoadApp, TypeOK, sysmgrVars
  <1>12. ASSUME NEW i \in AppId, Reconf(p, i) PROVE TypeOK'
    <2> DEFINE a == [tpl |-> applist[i].app.tpl, conf |-> co[p].arg.apps[i].conf]
               r == [co[p] EXCEPT !.at = "conf", !.todo = ToLoad(p) \ {i}, !.id = i,
                                  !.addr = applist[i].addr, !.app = a]
    <2>1. CASE Loaded(i)
      <3>1. co[p].arg.apps[i] \in App
        BY <1>0, <1>12, LeftTypes DEF Reconf, Co, Config, AppTable, AppsIn
      <3>2. a \in App
        BY <2>1, <3>1 DEF TypeOK, Described, App
      <3>3. applist[i].addr \in Addr
        BY Numbers DEF TypeOK, Slot
      <3>4. r \in Co
        BY <1>0, <3>2, <3>3, LeftTypes DEF Co, Place, AppsIn
      <3>5. r.todo \subseteq AppsIn(r.arg) /\ r.todo \subseteq AppId
        BY <1>0, LeftTypes DEF Co, AppsIn
      <3>6. Sound(r)
        BY <1>0, <3>2, <3>5 DEF Co, Sound
      <3> QED BY <1>12, <2>1, <3>4, <3>6, CoStep, ListKept DEF Reconf, TypeOK, sysmgrVars
    <2>2. CASE ~Loaded(i)
      BY <1>12, <2>2, IdleStep, ListKept DEF Reconf, TypeOK, sysmgrVars
    <2> QED BY <2>1, <2>2
  <1>13. ASSUME NEW k \in PipeId
         PROVE  co[p].arg.pipes[k] \in Pipe /\ co[p].arg.pipes[k].apps \in Seq(Elem)
    BY <1>0, <1>13 DEF Co, Config, PipeTable, Pipe
  <1>14. ASSUME NEW k \in PipeId, LoadPipe(p, k) PROVE TypeOK'
    <2> DEFINE new == [co[p].arg.pipes[k] EXCEPT !.st = TryStart(@ = "started")]
               list == [pipelist EXCEPT ![k] = new]
               r == [co[p] EXCEPT !.at = "pipes", !.todo = ToPipe(p) \ {k}]
    <2>1. co[p].arg.pipes[k].apps \in Seq(Elem)
      BY <1>13, <1>14
    <2>2. new \in Pipe /\ new.apps = co[p].arg.pipes[k].apps
      <3>1. co[p].arg.pipes[k] \in Pipe
        BY <1>13, <1>14
      <3>2. TryStart(co[p].arg.pipes[k].st = "started") \in PipeState
        BY DEF TryStart, PipeState
      <3> QED BY <3>1, <3>2 DEF Pipe
    <2>3. list \in PipeTable
      BY <2>2 DEF TypeOK, PipeTable
    <2>4. Len(new.apps) \in 0..Len(new.apps) /\ new.apps \in Seq(Elem)
      <3> HIDE DEF new
      <3>1. new.apps \in Seq(Elem)
        BY <2>1, <2>2
      <3> QED BY <3>1
    <2>5. applist' \in [Elem -> Slot] /\ Described'
      BY <1>14, <2>1, <2>2, <2>4, RoutesStep DEF LoadPipe
    <2>6. queue' \in Seq(Request)
      BY <1>14, <2>3, PutPipesTypes DEF LoadPipe, TypeOK
    <2>7. r \in Co /\ Sound(r)
      <3>1. ToPipe(p) \subseteq AppId \cup PipeId
        BY <1>0 DEF ToPipe, PipesIn, Co
      <3> QED BY <1>0, <3>1 DEF Co, Place, Sound
    <2>8. co' \in [Proc -> Co] /\ \A q \in Proc : Sound(co'[q])
      BY <1>14, <2>7, CoStep DEF LoadPipe
    <2> QED BY <1>14, <2>3, <2>5, <2>6, <2>8 DEF LoadPipe, TypeOK, sysmgrVars
  <1>15. ASSUME NEW k \in PipeId, LoadPipeRaises(p, k) PROVE TypeOK'
    <2> DEFINE s == co[p].arg.pipes[k].apps
    <2>1. s \in Seq(Elem)
      BY <1>13, <1>15 DEF LoadPipeRaises
    <2>2. PICK n \in 0..Len(s) : applist' = WithRoutes(k, s, n)
      BY <1>15 DEF LoadPipeRaises, Reach
    <2> HIDE DEF s
    <2>3. applist' \in [Elem -> Slot] /\ Described'
      BY <2>1, <2>2, RoutesStep
    <2> QED BY <1>15, <2>3, IdleStep DEF LoadPipeRaises, TypeOK, sysmgrVars
  <1>16. ASSUME Reconfigured(p) PROVE TypeOK'
    <2> DEFINE i == co[p].id
               s == [applist[i] EXCEPT !.app = co[p].app]
    <2>1. i \in AppId /\ co[p].app \in App
      BY <1>0, <1>16 DEF Reconfigured, Sound
    <2>2. s \in Slot /\ s.app \in App
      <3>1. applist[i] \in Slot
        BY <2>1, Numbers DEF TypeOK
      <3> QED BY <2>1, <3>1 DEF Slot
    <2>3. applist' \in [Elem -> Slot] /\ Described'
      <3>1. CASE applist' = [applist EXCEPT ![i] = s]
        BY <2>1, <2>2, <3>1, SlotStep, Numbers
      <3>2. CASE applist' = applist
        BY <3>2, ListKept
      <3>3. [applist EXCEPT ![i].app = co[p].app] = [applist EXCEPT ![i] = s]
        OBVIOUS
      <3> QED BY <1>16, <3>1, <3>2, <3>3 DEF Reconfigured
    <2>4. queue' \in Seq(Request)
      BY <1>16, <2>1, PutTypes DEF Reconfigured
    <2>5. co' \in [Proc -> Co] /\ \A q \in Proc : Sound(co'[q])
      BY <1>5, <1>16, CoStep DEF Reconfigured
    <2> QED BY <1>16, <2>3, <2>4, <2>5 DEF Reconfigured, TypeOK, sysmgrVars
  <1>17. ASSUME ReconfRefused(p) \/ Finish(p) PROVE TypeOK'
    BY <1>17, IdleStep, ListKept DEF ReconfRefused, Finish, Unlock, TypeOK, sysmgrVars
  <1>18. ASSUME UpgradeCleans(p) PROVE TypeOK'
    <2>1. /\ pipelist' \in PipeTable
          /\ queue' \in Seq(Request)
          /\ co' \in [Proc -> Co] /\ \A q \in Proc : Sound(co'[q])
      BY <1>0, <1>18, CleanTypes DEF UpgradeCleans
    <2> QED BY <1>18, <2>1, ListKept DEF UpgradeCleans, TypeOK, sysmgrVars
  <1>19. ASSUME Quit(p) PROVE TypeOK'
    <2> DEFINE r == [Idle EXCEPT !.kind = "upgrade", !.at = "quit"]
    <2>1. r \in Co /\ Sound(r)
      BY IdleTyped DEF Co, Kind, Place, Sound
    <2>2. co' \in [Proc -> Co] /\ \A q \in Proc : Sound(co'[q])
      BY <1>19, <2>1, CoStep DEF Quit
    <2> QED BY <1>19, <2>2, ListKept DEF Quit, TypeOK, sysmgrVars
  <1> QED
    BY <1>1, <1>2, <1>3, <1>4, <1>6, <1>7, <1>8, <1>9, <1>10, <1>11, <1>12,
       <1>14, <1>15, <1>16, <1>17, <1>18, <1>19 DEF Resume

\* What boot reads is well-formed: it becomes the argument of load_all.
LEMMA TotalTypes ==
    ASSUME TypeOK,
           NEW total, total = [kind |-> "full", repo |-> TRUE, apps |-> cfg.apps, pipes |-> cfg.pipes]
    PROVE  total \in Config
  BY DEF TypeOK, Config

LEMMA BootTypes ==
    ASSUME TypeOK, BootConfigures \/ BootRejects
    PROVE  TypeOK'
  <1>1. CASE BootConfigures
    <2> DEFINE total == [kind |-> "full", repo |-> TRUE, apps |-> cfg.apps, pipes |-> cfg.pipes]
               r == [Idle EXCEPT !.kind = "boot", !.at = "apps",
                                 !.arg = total, !.todo = AppsIn(total)]
    <2>1. total \in Config
      BY TotalTypes
    <2>2. BootConfigures => Become(Boot, r)
      BY DEF BootConfigures
    <2> HIDE DEF total
    <2>3. AppsIn(total) \subseteq AppId
      BY DEF AppsIn
    <2>4. r \in Co /\ Sound(r)
      BY <2>1, <2>3, IdleTyped DEF Co, Kind, Place, Sound, Idle
    <2>5. co' \in [Proc -> Co] /\ \A q \in Proc : Sound(co'[q])
      BY <1>1, <2>2, <2>4, CoStep, Numbers
    <2> QED BY <1>1, <2>5, ListKept DEF BootConfigures, TypeOK, sysmgrVars
  <1>2. CASE BootRejects
    <2>1. co' \in [Proc -> Co] /\ \A q \in Proc : Sound(co'[q])
      BY <1>2, IdleStep, Numbers DEF BootRejects
    <2>2. repo' \in BOOLEAN /\ locked' \in BOOLEAN
      BY <1>2 DEF BootRejects, Unlock, TypeOK
    <2> QED BY <1>2, <2>1, <2>2, ListKept DEF BootRejects, TypeOK, sysmgrVars
  <1> QED BY <1>1, <1>2

\* A request of any kind leaves what sysmgr keeps well-formed.
LEMMA SaveTypes ==
    ASSUME TypeOK, SysmgrSaves
    PROVE  TypeOK'
  <1> DEFINE r == Head(queue)
             CfgSet == [repo : BOOLEAN, apps : AppTable, pipes : PipeTable]
  <1>1. queue \in Seq(Request) /\ queue # <<>>
    BY DEF TypeOK, SysmgrSaves
  <1>2. r \in Request /\ queue' \in Seq(Request)
    BY <1>1 DEF SysmgrSaves
  <1>3. cfg \in CfgSet
    BY DEF TypeOK
  <1>4. cfg' = Applied(cfg, r)
    BY DEF SysmgrSaves
  <1>5. files' = CASE r.kind = "put" -> Others(r.id, r.app.tpl) \cup {<<r.id, r.app>>}
                   [] r.kind = "del" /\ cfg.apps[r.id] # NoApp -> Others(r.id, r.app.tpl)
                   [] OTHER -> files
    BY DEF SysmgrSaves
  <1>6. files \subseteq AppId \X App
    BY DEF TypeOK
  <1> HIDE DEF r
  <1>7. \/ r.kind = "put" /\ r.id \in AppId /\ r.app \in App
        \/ r.kind = "del" /\ r.id \in AppId
        \/ r.kind = "pipes" /\ r.list \in PipeTable
    BY <1>2 DEF Request
  <1>8. \A i, t : Others(i, t) \subseteq AppId \X App
    BY <1>6 DEF Others
  <1>9. cfg' \in CfgSet /\ files' \in SUBSET (AppId \X App)
    <2>1. CASE r.kind = "put" /\ r.id \in AppId /\ r.app \in App
      <3>1. cfg' = [cfg EXCEPT !.apps[r.id] = r.app]
        BY <1>4, <2>1 DEF Applied
      <3>2. files' = Others(r.id, r.app.tpl) \cup {<<r.id, r.app>>}
        BY <1>5, <2>1
      <3> QED BY <1>3, <1>8, <2>1, <3>1, <3>2 DEF AppTable
    <2>2. CASE r.kind = "del" /\ r.id \in AppId
      <3>1. cfg' = [cfg EXCEPT !.apps[r.id] = NoApp]
        BY <1>4, <2>2 DEF Applied
      <3>2. files' = Others(r.id, r.app.tpl) \/ files' = files
        BY <1>5, <2>2
      <3> QED BY <1>3, <1>6, <1>8, <2>2, <3>1, <3>2 DEF AppTable
    <2>3. CASE r.kind = "pipes" /\ r.list \in PipeTable
      <3>1. cfg' = [cfg EXCEPT !.pipes = r.list]
        BY <1>4, <2>3 DEF Applied
      <3>2. files' = files
        BY <1>5, <2>3
      <3> QED BY <1>3, <1>6, <2>3, <3>1, <3>2
    <2> QED BY <1>7, <2>1, <2>2, <2>3
  <1> QED BY <1>2, <1>9, ListKept DEF SysmgrSaves, TypeOK

\* What a process that starts has in memory.
LEMMA FreshTypes ==
    /\ EmptyList \in [Elem -> Slot]
    /\ \A i \in AppId : EmptyList[i] = FreeSlot
    /\ [p \in Proc |-> IF p = Boot THEN [Idle EXCEPT !.kind = "boot", !.at = "start"]
                       ELSE Idle] \in [Proc -> Co]
    /\ Sound([Idle EXCEPT !.kind = "boot", !.at = "start"])
    /\ Sound(Idle)
  <1>1. \A e \in SysApps : SysSlot(e) \in Slot
    BY SlotsTyped DEF SysSlot, Addr
  <1>2. EmptyList \in [Elem -> Slot]
    BY <1>1, SlotsTyped DEF EmptyList
  <1>3. \A i \in AppId : i \in Elem /\ i \notin SysApps
    BY Numbers, SysAppAssumption
  <1>4. \A i \in AppId : EmptyList[i] = FreeSlot
    BY <1>3 DEF EmptyList
  <1>5. [Idle EXCEPT !.kind = "boot", !.at = "start"] \in Co
    BY IdleTyped DEF Co, Kind, Place
  <1>6. Sound([Idle EXCEPT !.kind = "boot", !.at = "start"])
    BY DEF Sound, Idle
  <1> QED BY <1>2, <1>4, <1>5, <1>6, IdleTyped

LEMMA RestartTypes ==
    ASSUME TypeOK, Restart
    PROVE  TypeOK'
  <1>1. PICK t \in Readable : cfg' = [cfg EXCEPT !.apps = t]
    BY DEF Restart
  <1>2. cfg' \in [repo : BOOLEAN, apps : AppTable, pipes : PipeTable]
    BY <1>1 DEF Readable, TypeOK
  <1>3. Described'
    BY FreshTypes DEF Restart, Described, Loaded, FreeSlot
  <1>4. \A p \in Proc : Sound(co'[p])
    BY FreshTypes DEF Restart
  <1>5. queue' \in Seq(Request) /\ cells' \in SUBSET Handle
    BY DEF Restart
  <1>6. restarts' \in Nat
    BY DEF Restart, TypeOK
  <1>7. applist' \in [Elem -> Slot] /\ co' \in [Proc -> Co]
    BY FreshTypes, Zenon DEF Restart
  <1> QED
    BY <1>2, <1>3, <1>4, <1>5, <1>6, <1>7, PipesTyped DEF Restart, TypeOK

LEMMA InitTypes == Init => TypeOK
  <1> SUFFICES ASSUME Init PROVE TypeOK
    OBVIOUS
  <1>1. cfg \in [repo : BOOLEAN, apps : AppTable, pipes : PipeTable]
    BY FlagAssumption, ConfigTyped, PipesTyped DEF Init
  <1>2. Described
    BY FreshTypes DEF Init, Described, Loaded, FreeSlot
  <1>3. \A p \in Proc : Sound(co[p])
    BY FreshTypes DEF Init
  <1>4. queue \in Seq(Request)
    BY DEF Init
  <1> QED
    BY <1>1, <1>2, <1>3, <1>4, FreshTypes, PipesTyped, FlagAssumption, TplAssumption
    DEF Init, TypeOK

LEMMA NextTypes == TypeOK /\ [Next]_vars => TypeOK'
  <1> SUFFICES ASSUME TypeOK, [Next]_vars PROVE TypeOK'
    OBVIOUS
  <1>1. CASE UNCHANGED vars
    BY <1>1 DEF vars, TypeOK, Described, Loaded
  <1>2. ASSUME NEW c \in Client, Command(c) PROVE TypeOK'
    BY <1>2, CommandTypes
  <1>3. ASSUME NEW p \in Proc, Resume(p) PROVE TypeOK'
    BY <1>3, ResumeTypes
  <1>4. CASE BootConfigures \/ BootRejects \/ SysmgrSaves \/ Restart
    BY <1>4, BootTypes, SaveTypes, RestartTypes
  <1> QED BY <1>1, <1>2, <1>3, <1>4 DEF Next

\* Whatever the commands do, refuse, raise or overtake one another, the
\* tables of appmgr, what its coroutines hold, what is on its way to sysmgr
\* and what sysmgr keeps are well-formed; so is what the next boot reads.
THEOREM Typing == Spec => []TypeOK
  BY InitTypes, NextTypes, PTL DEF Spec

-----------------------------------------------------------------------------
(* Every loaded APP runs in a cell of its own.  LoadedAlive alone is not    *)
(* inductive: the cell load_app is waiting for becomes an APP's cell when   *)
(* it answers, so it must not be another slot's by then.  CellsOwned says   *)
(* so, and that a slot without an APP has no cell.                          *)

IInv == TypeOK /\ LoadedAlive /\ CellsOwned

\* The coroutine waits for a cell it has just launched.
Launching(r) == r.at = "conf" /\ r.arg.kind # "apps"

\* No coroutine starts to wait for a cell.
NoLaunch == \A p \in Proc : co'[p] = co[p] \/ ~Launching(co'[p])

LEMMA QuietStep ==
    ASSUME TypeOK, NEW p \in Proc, NEW r, ~Launching(r), Become(p, r)
    PROVE  NoLaunch
  <1>1. co \in [Proc -> Co]
    BY DEF TypeOK
  <1>2. \A q \in Proc : co'[q] = IF q = p THEN r ELSE co[q]
    BY <1>1 DEF Become
  <1> QED BY <1>2 DEF NoLaunch

LEMMA IdleQuiet ==
    ASSUME TypeOK, NEW p \in Proc, Become(p, Idle)
    PROVE  NoLaunch
  <1>1. ~Launching(Idle)
    BY DEF Launching, Idle
  <1> QED BY <1>1, QuietStep

\* Steps that leave the cells alone, and of the slots all but routes and
\* configurations.
LEMMA SameCells ==
    ASSUME IInv, cells' = cells, NoLaunch,
           \A i \in AppId : applist'[i].st = applist[i].st /\ applist'[i].addr = applist[i].addr
    PROVE  LoadedAlive' /\ CellsOwned'
  <1>1. LoadedAlive'
    BY DEF IInv, LoadedAlive, Loaded
  <1>2. \A i \in AppId : ~Loaded(i)' => applist'[i].addr = NoAddr
    BY DEF IInv, CellsOwned, Loaded
  <1>3. \A p \in Proc : OwnCell(p)'
    BY DEF IInv, CellsOwned, OwnCell, Loading, NoLaunch, Launching
  <1> QED BY <1>1, <1>2, <1>3 DEF CellsOwned

LEMMA SameSlots ==
    ASSUME IInv, cells' = cells, applist' = applist, NoLaunch
    PROVE  LoadedAlive' /\ CellsOwned'
  BY SameCells

\* A slot is emptied or reserved; the cell it may have had is told to exit,
\* or lives on.
LEMMA SlotEmptied ==
    ASSUME IInv, NoLaunch, NEW i \in AppId, NEW s \in {FreeSlot, ReservedSlot},
           applist' = [applist EXCEPT ![i] = s],
           cells' = cells \/ cells' = cells \ {applist[i].addr}
    PROVE  LoadedAlive' /\ CellsOwned'
  <1>1. applist \in [Elem -> Slot] /\ cells \subseteq Handle
    BY DEF IInv, TypeOK
  <1>2. s.st # "loaded" /\ s.addr = NoAddr
    BY DEF FreeSlot, ReservedSlot
  <1>3. \A j \in AppId : applist'[j] = IF j = i THEN s ELSE applist[j]
    BY <1>1, Numbers
  <1>4. LoadedAlive'
    <2> SUFFICES ASSUME NEW j \in AppId, Loaded(j)'
                 PROVE  /\ applist'[j].addr \in cells'
                        /\ \A k \in AppId \ {j} : applist'[k].addr # applist'[j].addr
      BY DEF LoadedAlive
    <2>1. j # i /\ applist'[j] = applist[j] /\ Loaded(j)
      BY <1>2, <1>3 DEF Loaded
    <2>2. /\ applist[j].addr \in cells
          /\ \A k \in AppId \ {j} : applist[k].addr # applist[j].addr
      BY <2>1 DEF IInv, LoadedAlive
    <2>3. applist[j].addr # NoAddr
      BY <1>1, <2>2, Numbers
    <2> QED BY <1>2, <1>3, <2>1, <2>2, <2>3
  <1>5. \A j \in AppId : ~Loaded(j)' => applist'[j].addr = NoAddr
    BY <1>2, <1>3 DEF IInv, CellsOwned, Loaded
  <1>6. \A p \in Proc : OwnCell(p)'
    <2> SUFFICES ASSUME NEW p \in Proc, Loading(p)', co'[p].at = "conf"
                 PROVE  /\ co'[p].addr \in Handle
                        /\ \A j \in AppId : applist'[j].addr # co'[p].addr
                        /\ \A q \in Proc \ {p} :
                               Loading(q)' /\ co'[q].at = "conf" => co'[q].addr # co'[p].addr
      BY DEF OwnCell
    <2>1. \A q \in Proc : Loading(q)' /\ co'[q].at = "conf" => co'[q] = co[q]
      BY DEF NoLaunch, Launching, Loading
    <2>2. Loading(p) /\ co'[p] = co[p] /\ OwnCell(p)
      BY <2>1 DEF Loading, IInv, CellsOwned
    <2>3. co[p].addr \in Handle /\ co[p].addr # NoAddr
      BY <2>2, Numbers DEF OwnCell
    <2> QED BY <1>2, <1>3, <2>1, <2>2, <2>3 DEF OwnCell, Loading
  <1> QED BY <1>4, <1>5, <1>6 DEF CellsOwned

\* load_app launches a cell nobody refers to.
LEMMA SpawnedOwned ==
    ASSUME IInv, NEW p \in Proc, Spawned(p)
    PROVE  LoadedAlive' /\ CellsOwned'
  <1>1. PICK h \in Handle : ~Held(h) /\ cells' = cells \cup {h}
                            /\ Become(p, [co[p] EXCEPT !.at = "conf", !.addr = h])
    BY DEF Spawned
  <1>2. /\ \A i \in AppId : applist[i].addr # h
        /\ \A q \in Proc : co[q].addr # h
    BY <1>1, Numbers DEF Held
  <1>3. applist' = applist /\ co[p].at = "spawn"
    BY DEF Spawned
  <1>4. co \in [Proc -> Co]
    BY DEF IInv, TypeOK
  <1>5. \A q \in Proc : co'[q] = IF q = p THEN [co[p] EXCEPT !.at = "conf", !.addr = h] ELSE co[q]
    BY <1>1, <1>4 DEF Become
  <1>6. co'[p].addr = h
    BY <1>4, <1>5 DEF Co
  <1>7. LoadedAlive'
    BY <1>1, <1>3 DEF IInv, LoadedAlive, Loaded
  <1>8. \A i \in AppId : ~Loaded(i)' => applist'[i].addr = NoAddr
    BY <1>3 DEF IInv, CellsOwned, Loaded
  <1>9. ASSUME NEW q \in Proc PROVE OwnCell(q)'
    <2>1. CASE q = p
      BY <1>1, <1>2, <1>3, <1>5, <1>6, <2>1 DEF OwnCell
    <2>2. CASE q # p
      BY <1>2, <1>3, <1>5, <1>6, <2>2 DEF IInv, CellsOwned, OwnCell, Loading
    <2> QED BY <2>1, <2>2
  <1> QED BY <1>7, <1>8, <1>9 DEF CellsOwned

\* The cell answers and becomes the APP's.
LEMMA LoadedOwned ==
    ASSUME IInv, NEW p \in Proc, AppLoaded(p)
    PROVE  LoadedAlive' /\ CellsOwned'
  <1> DEFINE i == co[p].id
             a == co[p].addr
  <1>1. co \in [Proc -> Co] /\ applist \in [Elem -> Slot] /\ i \in AppId
    BY DEF IInv, TypeOK, Sound, AppLoaded
  <1>2. /\ a \in cells /\ a \in Handle
        /\ \A j \in AppId : applist[j].addr # a
        /\ \A q \in Proc \ {p} : Loading(q) /\ co[q].at = "conf" => co[q].addr # a
    BY DEF IInv, CellsOwned, OwnCell, AppLoaded, Loading
  <1>3. /\ cells' = cells
        /\ applist' = [applist EXCEPT ![i] = LoadedSlot(co[p].app, a)]
    BY DEF AppLoaded
  <1>4. \A j \in AppId : applist'[j] = IF j = i THEN LoadedSlot(co[p].app, a) ELSE applist[j]
    BY <1>1, <1>3, Numbers
  <1>5. applist'[i].st = "loaded" /\ applist'[i].addr = a
    BY <1>1, <1>4 DEF LoadedSlot
  <1>6. NoLaunch
    <2>1. ~Launching([co[p] EXCEPT !.at = "apps", !.id = 0, !.app = NoApp, !.addr = NoAddr])
      BY <1>1 DEF Co, Launching
    <2> QED BY <2>1, QuietStep, IdleQuiet DEF AppLoaded, IInv
  <1>7. \A q \in Proc : Loading(q)' /\ co'[q].at = "conf" => q # p /\ co'[q] = co[q]
    <2>1. co'[p].at # "conf"
      <3> DEFINE r == [co[p] EXCEPT !.at = "apps", !.id = 0, !.app = NoApp, !.addr = NoAddr]
      <3>1. Become(p, Idle) \/ Become(p, r)
        BY DEF AppLoaded
      <3>2. r.at = "apps" /\ Idle.at = "idle"
        BY <1>1 DEF Co, Idle
      <3> HIDE DEF r
      <3> QED BY <1>1, <3>1, <3>2 DEF Become
    <2> QED BY <1>6, <2>1 DEF NoLaunch, Launching, Loading
  <1> HIDE DEF i, a
  <1>8. LoadedAlive'
    BY <1>1, <1>2, <1>3, <1>4, <1>5 DEF IInv, LoadedAlive, Loaded
  <1>9. \A j \in AppId : ~Loaded(j)' => applist'[j].addr = NoAddr
    BY <1>1, <1>4, <1>5 DEF IInv, CellsOwned, Loaded
  <1>10. \A q \in Proc : OwnCell(q)'
    <2> SUFFICES ASSUME NEW q \in Proc, Loading(q)', co'[q].at = "conf"
                 PROVE  /\ co'[q].addr \in Handle
                        /\ \A j \in AppId : applist'[j].addr # co'[q].addr
                        /\ \A r \in Proc \ {q} :
                               Loading(r)' /\ co'[r].at = "conf" => co'[r].addr # co'[q].addr
      BY DEF OwnCell
    <2>1. q # p /\ co'[q] = co[q] /\ Loading(q)
      BY <1>7 DEF Loading
    <2>2. OwnCell(q)
      BY DEF IInv, CellsOwned
    <2> QED BY <1>2, <1>4, <1>5, <1>7, <2>1, <2>2 DEF OwnCell, Loading
  <1> QED BY <1>8, <1>9, <1>10 DEF CellsOwned

\* clean gives no command a cell to wait for, nor does validate_conf.
LEMMA CleanQuiet ==
    ASSUME TypeOK, NEW p \in Proc, NEW r \in Co, Clean(p, r) \/ CleanRaises(p)
    PROVE  NoLaunch
  <1>1. ~Launching([r EXCEPT !.at = "forget"])
    BY DEF Co, Launching
  <1> QED BY <1>1, QuietStep, IdleQuiet DEF Clean, CleanRaises

LEMMA ValidateQuiet ==
    ASSUME TypeOK, NEW p \in Proc, NEW arg, NEW tpls, NEW hasrepo,
           arg \in Config, Validate(p, arg, tpls, hasrepo)
    PROVE  NoLaunch
  <1> DEFINE r == [Idle EXCEPT !.kind = "configure", !.arg = arg]
             apps == [r EXCEPT !.at = "apps", !.todo = AppsIn(arg)]
             install(i) == [Idle EXCEPT !.kind = "configure", !.at = "install",
                                        !.arg = arg, !.app = arg.apps[i]]
  <1>1. r \in Co
    BY IdleTyped DEF Co, Kind
  <1>2. ~Launching(apps) /\ \A i : ~Launching(install(i))
    BY DEF Launching, Idle
  <1>3. \/ Clean(p, r) \/ CleanRaises(p)
        \/ Become(p, apps)
        \/ \E i : Become(p, install(i))
        \/ Become(p, Idle)
    BY DEF Validate, Enter
  <1> HIDE DEF r, apps, install
  <1> QED BY <1>1, <1>2, <1>3, CleanQuiet, QuietStep, IdleQuiet

\* Steps over the routes of a PIPE.
LEMMA RoutesOwned ==
    ASSUME IInv, cells' = cells, NoLaunch,
           NEW k \in PipeId, NEW s \in Seq(Elem), NEW n \in 0..Len(s),
           \/ applist' = WithRoutes(k, s, n)
           \/ applist' = WithoutRoutes(k, s, n)
    PROVE  LoadedAlive' /\ CellsOwned'
  <1>1. \A i \in AppId : applist'[i].st = applist[i].st /\ applist'[i].addr = applist[i].addr
    BY RoutesStep, Numbers DEF IInv
  <1> QED BY <1>1, SameCells

LEMMA ReserveQuiet ==
    ASSUME TypeOK, NEW p \in Proc, NEW i, NEW a, NEW r \in Co, Reserve(p, i, a, r)
    PROVE  NoLaunch
  <1>1. ~Launching([r EXCEPT !.at = "spawn", !.id = i, !.app = a])
    BY DEF Co, Launching
  <1> QED BY <1>1, QuietStep DEF Reserve

LEMMA CommandOwned ==
    ASSUME IInv, NEW c \in Client, Command(c)
    PROVE  LoadedAlive' /\ CellsOwned'
  <1> DEFINE Goal == LoadedAlive' /\ CellsOwned'
  <1>0. c \in Proc /\ TypeOK
    BY Numbers DEF IInv
  <1>1. co' = co => NoLaunch
    BY DEF NoLaunch
  <1>2. ASSUME NEW a \in App, AppNew(c, a) PROVE Goal
    <2> DEFINE r == [Idle EXCEPT !.kind = "app_new"]
    <2>1. r \in Co
      BY IdleTyped DEF Co, Kind
    <2>2. PICK i \in AppId : Reserve(c, i, a, r)
      BY <1>2 DEF AppNew, NewAppId
    <2> HIDE DEF r
    <2>3. NoLaunch
      BY <1>0, <2>1, <2>2, ReserveQuiet
    <2>4. applist' = [applist EXCEPT ![i] = ReservedSlot] /\ cells' = cells
      BY <1>2, <2>2 DEF Reserve, AppNew
    <2> QED BY <2>3, <2>4, SlotEmptied
  <1>3. ASSUME NEW a \in App, AppNewInstall(c, a) PROVE Goal
    <2>1. ~Launching([Idle EXCEPT !.kind = "app_new", !.at = "install", !.app = a])
      BY DEF Launching, Idle
    <2>2. NoLaunch
      BY <1>0, <1>3, <2>1, QuietStep DEF AppNewInstall
    <2> QED BY <1>3, <2>2, SameSlots DEF AppNewInstall
  <1>4. ASSUME NEW i \in AppId, AppRemove(c, i) PROVE Goal
    BY <1>1, <1>4, SlotEmptied DEF AppRemove, Vacate, Exit
  <1>5. ASSUME NEW k \in PipeId, NEW arg \in PipeArgs,
               PipeNew(c, k, arg) \/ PipeNewRaises(c, k, arg)
        PROVE  Goal
    <2>1. arg.apps \in Seq(Elem)
      BY ArgAssumption DEF PipeArg
    <2>2. Len(arg.apps) \in 0..Len(arg.apps)
      BY <2>1
    <2>3. PICK n \in 0..Len(arg.apps) : applist' = WithRoutes(k, arg.apps, n)
      BY <1>5, <2>2 DEF PipeNew, PipeNewRaises, Reach
    <2>4. cells' = cells /\ NoLaunch
      BY <1>1, <1>5 DEF PipeNew, PipeNewRaises
    <2> QED BY <2>1, <2>3, <2>4, RoutesOwned
  <1>6. ASSUME NEW k \in PipeId, PipeRemove(c, k) \/ PipeRemoveRaises(c, k) PROVE Goal
    <2> DEFINE s == pipelist[k].apps
    <2>1. s \in Seq(Elem)
      BY <1>0 DEF TypeOK, PipeTable, Pipe
    <2>2. Len(s) \in 0..Len(s)
      BY <2>1
    <2>3. PICK n \in 0..Len(s) : applist' = WithoutRoutes(k, s, n)
      BY <1>6, <2>2 DEF PipeRemove, PipeRemoveRaises, Reach
    <2>4. cells' = cells /\ NoLaunch
      BY <1>1, <1>6 DEF PipeRemove, PipeRemoveRaises
    <2> QED BY <2>1, <2>3, <2>4, RoutesOwned
  <1>7. ASSUME NEW k \in PipeId, PipeStart(c, k) \/ PipeStop(c, k) PROVE Goal
    BY <1>1, <1>7, SameSlots DEF PipeStart, PipeStop, PipeSwitch
  <1>8. ASSUME NEW arg \in ConfigArgs, Configure(c, arg) PROVE Goal
    <2>1. NoLaunch
      BY <1>0, <1>8, ArgAssumption, ValidateQuiet DEF Configure
    <2> QED BY <1>8, <2>1, SameSlots DEF Configure
  <1>9. ASSUME NEW arg \in ConfigArgs, ConfigureRepo(c, arg) PROVE Goal
    <2>1. ~Launching([Idle EXCEPT !.kind = "configure", !.at = "repo", !.arg = arg])
      BY DEF Launching, Idle
    <2>2. NoLaunch
      BY <1>0, <1>9, <2>1, QuietStep DEF ConfigureRepo
    <2> QED BY <1>9, <2>2, SameSlots DEF ConfigureRepo
  <1>10. ASSUME Upgrade(c) PROVE Goal
    <2>1. ~Launching([Idle EXCEPT !.kind = "upgrade", !.at = "upgrade"])
      BY DEF Launching, Idle
    <2>2. NoLaunch
      BY <1>0, <1>10, <2>1, QuietStep DEF Upgrade
    <2> QED BY <1>10, <2>2, SameSlots DEF Upgrade
  <1> QED
    BY <1>2, <1>3, <1>4, <1>5, <1>6, <1>7, <1>8, <1>9, <1>10 DEF Command

LEMMA ResumeOwned ==
    ASSUME IInv, NEW p \in Proc, Resume(p)
    PROVE  LoadedAlive' /\ CellsOwned'
  <1> DEFINE Goal == LoadedAlive' /\ CellsOwned'
  <1>0. TypeOK /\ co[p] \in Co /\ Sound(co[p])
    BY DEF IInv, TypeOK
  <1>1. ASSUME AppNewInstalled(p) PROVE Goal
    <2>1. PICK i \in AppId : Reserve(p, i, co[p].app, co[p])
      BY <1>1 DEF AppNewInstalled, NewAppId
    <2>2. applist' = [applist EXCEPT ![i] = ReservedSlot] /\ cells' = cells
      BY <1>1, <2>1 DEF Reserve, AppNewInstalled
    <2> QED BY <1>0, <2>1, <2>2, ReserveQuiet, SlotEmptied
  <1>2. ASSUME \/ InstallFails(p) \/ ConfRaises(p) \/ RepoFails(p) \/ UpgradeFails(p)
               \/ ReconfRefused(p) \/ Finish(p)
               \/ \E i \in AppId : CleanAppRaises(p, i)
        PROVE Goal
    <2>1. cells' = cells /\ applist' = applist /\ Become(p, Idle)
      BY <1>2 DEF InstallFails, ConfRaises, RepoFails, UpgradeFails, ReconfRefused, Finish,
         CleanAppRaises
    <2> QED BY <1>0, <2>1, IdleQuiet, SameSlots
  <1>3. ASSUME SpawnFails(p) PROVE Goal
    <2>1. co[p].id \in AppId
      BY <1>0, <1>3 DEF SpawnFails, Sound
    <2> QED BY <1>0, <1>3, <2>1, IdleQuiet, SlotEmptied DEF SpawnFails, Vacate
  <1>4. ASSUME RepoUpdated(p) \/ ConfigureInstalled(p) PROVE Goal
    <2>1. co[p].arg \in Config
      BY <1>0 DEF Co
    <2>2. NoLaunch
      BY <1>0, <1>4, <2>1, ValidateQuiet DEF RepoUpdated, ConfigureInstalled
    <2> QED BY <1>4, <2>2, SameSlots DEF RepoUpdated, ConfigureInstalled
  <1>5. ASSUME NEW i \in AppId, CleanApp(p, i) PROVE Goal
    <2>1. ~Launching([co[p] EXCEPT !.at = "clean", !.todo = ToClean(p) \ {i}])
      BY <1>0 DEF Co, Launching
    <2>2. NoLaunch
      BY <1>0, <1>5, <2>1, QuietStep DEF CleanApp
    <2> QED BY <1>5, <2>2, SlotEmptied DEF CleanApp, Vacate, Exit
  <1>6. ASSUME NEW i \in AppId, LoadApp(p, i) PROVE Goal
    <2> DEFINE r == [co[p] EXCEPT !.todo = ToLoad(p) \ {i}]
    <2>1. r \in Co
      BY <1>0, LeftTypes DEF Co, AppsIn
    <2>2. Reserve(p, i, co[p].arg.apps[i], r) /\ cells' = cells
      BY <1>6 DEF LoadApp
    <2> HIDE DEF r
    <2>3. applist' = [applist EXCEPT ![i] = ReservedSlot]
      BY <2>2 DEF Reserve
    <2>4. NoLaunch
      BY <1>0, <2>1, <2>2, ReserveQuiet
    <2> QED BY <2>2, <2>3, <2>4, SlotEmptied
  <1>7. ASSUME NEW i \in AppId, Reconf(p, i) PROVE Goal
    <2> DEFINE r == [co[p] EXCEPT !.at = "conf", !.todo = ToLoad(p) \ {i}, !.id = i,
                                  !.addr = applist[i].addr,
                                  !.app = [tpl  |-> applist[i].app.tpl,
                                           conf |-> co[p].arg.apps[i].conf]]
    <2>1. ~Launching(r)
      BY <1>0, <1>7 DEF Co, Launching, Reconf
    <2>2. Become(p, r) \/ Become(p, Idle)
      BY <1>7 DEF Reconf
    <2>3. NoLaunch
      BY <1>0, <2>1, <2>2, QuietStep, IdleQuiet
    <2> QED BY <1>7, <2>3, SameSlots DEF Reconf
  <1>8. ASSUME NEW k \in PipeId, LoadPipe(p, k) \/ LoadPipeRaises(p, k) PROVE Goal
    <2> DEFINE s == co[p].arg.pipes[k].apps
               new == [co[p].arg.pipes[k] EXCEPT !.st = TryStart(@ = "started")]
               r == [co[p] EXCEPT !.at = "pipes", !.todo = ToPipe(p) \ {k}]
    <2>1. co[p].arg.pipes[k] \in Pipe
      BY <1>0 DEF Co, Config, PipeTable
    <2>2. s \in Seq(Elem) /\ new.apps = s
      BY <2>1 DEF Pipe
    <2>3. \/ applist' = WithRoutes(k, new.apps, Len(new.apps))
          \/ \E n \in Reach(s) : applist' = WithRoutes(k, s, n)
      BY <1>8 DEF LoadPipe, LoadPipeRaises
    <2>4. Become(p, r) \/ Become(p, Idle)
      BY <1>8 DEF LoadPipe, LoadPipeRaises
    <2>5. ~Launching(r)
      BY <1>0 DEF Co, Launching
    <2>6. cells' = cells /\ NoLaunch
      BY <1>0, <1>8, <2>4, <2>5, QuietStep, IdleQuiet DEF LoadPipe, LoadPipeRaises
    <2> HIDE DEF s, new, r
    <2>7. Len(s) \in 0..Len(s)
      BY <2>2
    <2>8. PICK n \in 0..Len(s) : applist' = WithRoutes(k, s, n)
      BY <2>2, <2>3, <2>7 DEF Reach
    <2> QED BY <2>2, <2>6, <2>8, RoutesOwned
  <1>9. ASSUME Reconfigured(p) PROVE Goal
    <2> DEFINE r == [co[p] EXCEPT !.at = "apps", !.id = 0, !.app = NoApp, !.addr = NoAddr]
    <2>1. ~Launching(r)
      BY <1>0 DEF Co, Launching
    <2>2. NoLaunch
      BY <1>0, <1>9, <2>1, QuietStep DEF Reconfigured
    <2>3. applist \in [Elem -> Slot]
      BY <1>0 DEF TypeOK
    <2>4. \/ applist' = applist
          \/ applist' = [applist EXCEPT ![co[p].id].app = co[p].app]
      BY <1>9 DEF Reconfigured
    <2>5. \A i \in AppId : applist'[i].st = applist[i].st /\ applist'[i].addr = applist[i].addr
      <3> TAKE i \in AppId
      <3>1. applist[i] \in Slot /\ i \in Elem
        BY <2>3, Numbers
      <3> QED BY <2>3, <2>4, <3>1 DEF Slot
    <2> QED BY <1>9, <2>2, <2>5, SameCells DEF Reconfigured
  <1>10. ASSUME UpgradeCleans(p) PROVE Goal
    BY <1>0, <1>10, CleanQuiet, SameSlots DEF UpgradeCleans
  <1>11. ASSUME Quit(p) PROVE Goal
    <2>1. ~Launching([Idle EXCEPT !.kind = "upgrade", !.at = "quit"])
      BY DEF Launching, Idle
    <2> QED BY <1>0, <1>11, <2>1, QuietStep, SameSlots DEF Quit
  <1> QED
    BY <1>1, <1>2, <1>3, <1>4, <1>5, <1>6, <1>7, <1>8, <1>9, <1>10, <1>11,
       SpawnedOwned, LoadedOwned DEF Resume

LEMMA SystemOwned ==
    ASSUME IInv, BootConfigures \/ BootRejects \/ SysmgrSaves \/ Restart
    PROVE  LoadedAlive' /\ CellsOwned'
  <1>0. TypeOK /\ Boot \in Proc
    BY Numbers DEF IInv
  <1>1. CASE BootConfigures
    <2> DEFINE total == [kind |-> "full", repo |-> TRUE, apps |-> cfg.apps, pipes |-> cfg.pipes]
               r == [Idle EXCEPT !.kind = "boot", !.at = "apps",
                                 !.arg = total, !.todo = AppsIn(total)]
    <2>1. Become(Boot, r) /\ cells' = cells /\ applist' = applist
      BY <1>1 DEF BootConfigures
    <2>2. ~Launching(r)
      BY DEF Launching, Idle
    <2> HIDE DEF r
    <2> QED BY <1>0, <2>1, <2>2, QuietStep, SameSlots
  <1>2. CASE BootRejects
    BY <1>0, <1>2, IdleQuiet, SameSlots DEF BootRejects
  <1>3. CASE SysmgrSaves
    BY <1>3, SameSlots DEF SysmgrSaves, NoLaunch
  <1>4. CASE Restart
    <2>1. \A i \in AppId : applist'[i] = FreeSlot
      BY <1>4, FreshTypes DEF Restart
    <2>2. \A q \in Proc : co'[q].at # "conf"
      BY <1>4 DEF Restart, Idle
    <2> QED BY <2>1, <2>2 DEF LoadedAlive, CellsOwned, OwnCell, Loaded, FreeSlot
  <1> QED BY <1>1, <1>2, <1>3, <1>4

LEMMA InitOwned == Init => LoadedAlive /\ CellsOwned
  <1> SUFFICES ASSUME Init PROVE LoadedAlive /\ CellsOwned
    OBVIOUS
  <1>1. \A i \in AppId : applist[i] = FreeSlot
    BY FreshTypes DEF Init
  <1>2. \A q \in Proc : co[q].at # "conf"
    BY DEF Init, Idle
  <1> QED BY <1>1, <1>2 DEF LoadedAlive, CellsOwned, OwnCell, Loaded, FreeSlot

LEMMA InvStep == IInv /\ [Next]_vars => IInv'
  <1> SUFFICES ASSUME IInv, [Next]_vars PROVE IInv'
    OBVIOUS
  <1>1. TypeOK'
    BY NextTypes DEF IInv
  <1>2. LoadedAlive' /\ CellsOwned'
    <2>1. CASE UNCHANGED vars
      BY <2>1, SameSlots DEF vars, NoLaunch
    <2>2. ASSUME NEW c \in Client, Command(c) PROVE LoadedAlive' /\ CellsOwned'
      BY <2>2, CommandOwned
    <2>3. ASSUME NEW p \in Proc, Resume(p) PROVE LoadedAlive' /\ CellsOwned'
      BY <2>3, ResumeOwned
    <2>4. CASE BootConfigures \/ BootRejects \/ SysmgrSaves \/ Restart
      BY <2>4, SystemOwned
    <2> QED BY <2>1, <2>2, <2>3, <2>4 DEF Next
  <1> QED BY <1>1, <1>2 DEF IInv

\* Whatever commands overtake one another, in or out of maintenance, and
\* whatever fails: an APP that is loaded has a running cell, and no other
\* APP has the same.  A message appmgr sends to an APP reaches that APP.
THEOREM Alive == Spec => []LoadedAlive
  <1>1. Init => IInv
    BY InitTypes, InitOwned DEF IInv
  <1>2. IInv => LoadedAlive
    BY DEF IInv
  <1> QED BY <1>1, <1>2, InvStep, PTL DEF Spec

\* The same invariant keeps the cell a command is launching from being any
\* other command's or APP's.
THEOREM Owned == Spec => []CellsOwned
  <1>1. Init => IInv
    BY InitTypes, InitOwned DEF IInv
  <1>2. IInv => CellsOwned
    BY DEF IInv
  <1> QED BY <1>1, <1>2, InvStep, PTL DEF Spec

-----------------------------------------------------------------------------
(* Maintenance issued in quiet (Serial): a coroutine in maintenance is alone. *)

Alone == \A p \in Proc : Maintaining(p) => \A q \in Proc \ {p} : co[q] = Idle

Busy(r) == r.at \in {"spawn", "conf"} /\ r.arg.kind # "apps"
Cleaning(r) == r.at \in {"forget", "clean"}
Filling(r) == r.arg.kind = "full" /\ r.at \in {"apps", "spawn", "conf"}
Stage(r) ==
    /\ r.kind = "none" => r = Idle
    /\ r.kind = "app_new" => r.at \in {"install", "spawn", "conf"} /\ r.arg = NoConfig
    /\ r.kind = "boot" => /\ r.at \in {"start", "apps", "spawn", "conf", "pipes"}
                          /\ r.at # "start" => r.arg.kind = "full"
    /\ r.kind = "upgrade" => r.at \in {"upgrade", "forget", "clean", "quit"} /\ r.arg = NoConfig
    /\ r.kind = "configure" =>
           /\ r.at \in {"repo", "install", "forget", "clean", "apps", "spawn", "conf", "pipes"}
           /\ r.at \in {"forget", "clean", "spawn", "pipes"} => r.arg.kind = "full"
           /\ r.at \in {"apps", "conf"} => r.arg.kind \in {"full", "apps"}
    /\ r.arg.kind = "full" /\ r.at \in {"forget", "clean", "apps", "spawn", "conf", "pipes"}
           => PipesValid(r.arg)
Fit(r) ==
    /\ Stage(r)
    /\ Busy(r) => applist[r.id].st = "reserved" /\ (r.at = "conf" => r.addr \in cells)
    /\ r.at = "clean" => \A i \in AppId : Present(i) => i \in r.todo
    /\ Cleaning(r) \/ Filling(r) => pipelist = NoPipes
    /\ Filling(r) => /\ \A i \in r.todo : ~Present(i)
                     /\ \A i \in AppsIn(r.arg) \ r.todo : Loaded(i) \/ (Busy(r) /\ i = r.id)
    /\ r.at = "pipes" => /\ \A i \in AppsIn(r.arg) : Loaded(i)
                         /\ r.todo \subseteq PipesIn(r.arg)
                         /\ \A k \in r.todo : ~HasPipe(k)
    /\ r.at = "start" => pipelist = NoPipes /\ \A i \in AppId : ~Present(i)
AllFit == \A p \in Proc : Fit(co[p])
Distinct == \A p, q \in Proc : Busy(co[p]) /\ Busy(co[q]) /\ p # q => co[p].id # co[q].id

SysKept == \A e \in SysApps : applist[e].st = "loaded" /\ applist[e].addr = e
NonePlain == \A k \in PipeId : ~HasPipe(k) => pipelist[k] = NoPipe
Lead(k) ==
    LET s == pipelist[k].apps
    IN  \A i \in 1..(Len(s) - 1) :
            LastIn(s, Len(s), s[i], i) => applist[s[i]].route[k].to = applist[s[i + 1]].addr
Rooted == SysKept /\ NonePlain /\ PipesRouted /\ \A k \in PipeId : HasPipe(k) => Lead(k)

\* No other coroutine does anything.
Only(p) == \A q \in Proc \ {p} : co'[q] = co[q]

LEMMA CoIs ==
    ASSUME TypeOK, NEW p \in Proc, NEW r, Become(p, r)
    PROVE  co'[p] = r /\ Only(p)
  BY DEF TypeOK, Become, Only

LEMMA IdleFit ==
    ASSUME NEW r, r = Idle
    PROVE  Fit(r) /\ Fit(r)' /\ ~Busy(r)
  BY DEF Fit, Stage, Busy, Cleaning, Filling, Idle, NoConfig

\* A coroutine that is not in maintenance at most holds an id.
LEMMA OtherFit ==
    ASSUME TypeOK, NEW q \in Proc, Fit(co[q]), ~Maintaining(q), co'[q] = co[q],
           Busy(co[q]) => /\ applist'[co[q].id].st = "reserved"
                          /\ co[q].at = "conf" => co[q].addr \in cells'
    PROVE  Fit(co[q])'
  <1>1. PICK r : r = co[q]
    OBVIOUS
  <1>2. r \in Co /\ co'[q] = r
    BY <1>1 DEF TypeOK
  <1>3. r.kind \in {"none", "app_new"}
    BY <1>1, <1>2 DEF Maintaining, Co, Kind
  <1>4. Stage(r)
    BY <1>1 DEF Fit
  <1>5. CASE r.kind = "none"
    <2>1. r = Idle
      BY <1>4, <1>5 DEF Stage
    <2>2. Fit(r)'
      BY <2>1, IdleFit
    <2> QED BY <1>2, <2>2
  <1>6. CASE r.kind = "app_new"
    <2>1. r.at \in {"install", "spawn", "conf"} /\ r.arg.kind = "repo"
      BY <1>4, <1>6 DEF Stage, NoConfig
    <2>2. Busy(r) => applist'[r.id].st = "reserved" /\ (r.at = "conf" => r.addr \in cells')
      BY <1>1
    <2>3. Fit(r)'
      BY <1>4, <2>1, <2>2 DEF Fit, Busy, Cleaning, Filling
    <2> QED BY <1>2, <2>3
  <1> QED BY <1>3, <1>5, <1>6

\* What a coroutine does while the others are idle concerns no other.
LEMMA SoleStep ==
    ASSUME NEW p \in Proc, \A q \in Proc \ {p} : co[q] = Idle, Only(p), Fit(co[p])'
    PROVE  Alone' /\ AllFit' /\ Distinct'
  <1>1. \A q \in Proc \ {p} : co'[q] = Idle
    BY DEF Only
  <1>2. ASSUME NEW q \in Proc PROVE Fit(co[q])'
    <2>1. CASE q = p
      BY <2>1
    <2>2. CASE q # p
      <3>1. PICK r : r = co'[q]
        OBVIOUS
      <3>2. Fit(r)'
        BY <1>1, <2>2, <3>1, IdleFit
      <3> QED BY <3>1, <3>2
    <2> QED BY <2>1, <2>2
  <1>3. Distinct'
    BY <1>1 DEF Distinct, Busy, Idle
  <1>4. Alone'
    BY <1>1 DEF Alone, Maintaining, Idle
  <1> QED BY <1>2, <1>3, <1>4 DEF AllFit

\* Steps outside maintenance leave the ids others hold alone.
LEMMA OpenStep ==
    ASSUME TypeOK, AllFit, Distinct, NEW p \in Proc, Only(p), Fit(co[p])',
           \A q \in Proc : ~Maintaining(q), ~Maintaining(p)',
           \A q \in Proc \ {p} : Busy(co[q]) =>
               /\ applist'[co[q].id].st = "reserved"
               /\ co[q].at = "conf" => co[q].addr \in cells'
               /\ Busy(co[p])' => co[q].id # co'[p].id
    PROVE  Alone' /\ AllFit' /\ Distinct'
  <1>1. \A q \in Proc \ {p} : co'[q] = co[q]
    BY DEF Only
  <1>2. ASSUME NEW q \in Proc PROVE Fit(co[q])'
    <2>1. CASE q = p
      BY <2>1
    <2>2. CASE q # p
      BY <1>1, <2>2, OtherFit DEF AllFit
    <2> QED BY <2>1, <2>2
  <1>3. Distinct'
    <2> SUFFICES ASSUME NEW q \in Proc, NEW r \in Proc, Busy(co[q])', Busy(co[r])', q # r
                 PROVE  co'[q].id # co'[r].id
      BY DEF Distinct
    <2>1. \A o \in Proc \ {p} : Busy(co[o])' => Busy(co[o])
      BY <1>1 DEF Busy
    <2>2. CASE q = p
      BY <1>1, <2>1, <2>2
    <2>3. CASE r = p
      BY <1>1, <2>1, <2>3
    <2>4. CASE q # p /\ r # p
      BY <1>1, <2>1, <2>4 DEF Distinct
    <2> QED BY <2>2, <2>3, <2>4
  <1>4. Alone'
    BY <1>1 DEF Alone, Maintaining
  <1> QED BY <1>2, <1>3, <1>4 DEF AllFit

\* A coroutine at work is in maintenance, alone, or loads an APP, and nobody
\* is in maintenance.
LEMMA Working ==
    ASSUME TypeOK, Alone, AllFit, NEW p \in Proc, co[p].at # "idle"
    PROVE  \/ Maintaining(p) /\ \A q \in Proc \ {p} : co[q] = Idle /\ ~Busy(co[q])
           \/ /\ co[p].kind = "app_new" /\ co[p].arg = NoConfig
              /\ \A q \in Proc : ~Maintaining(q)
  <1>1. co[p] \in Co /\ Stage(co[p])
    BY DEF TypeOK, AllFit, Fit
  <1>2. co[p].kind # "none" /\ co[p] # Idle
    BY <1>1 DEF Stage, Idle
  <1>3. Maintaining(p) \/ co[p].kind = "app_new"
    BY <1>1, <1>2 DEF Maintaining, Co, Kind
  <1>4. CASE Maintaining(p)
    BY <1>4, IdleFit DEF Alone
  <1>5. CASE co[p].kind = "app_new" /\ ~Maintaining(p)
    BY <1>1, <1>2, <1>5 DEF Stage, Alone
  <1> QED BY <1>3, <1>4, <1>5 DEF Maintaining

LEMMA ResumeStep ==
    ASSUME TypeOK, Alone, AllFit, Distinct, NEW p \in Proc, co[p].at # "idle", Only(p),
           co'[p] = Idle \/ co'[p].kind = co[p].kind,
           Fit(co[p])',
           \A q \in Proc \ {p} : Busy(co[q]) =>
               /\ applist'[co[q].id].st = "reserved"
               /\ co[q].at = "conf" => co[q].addr \in cells'
               /\ Busy(co[p])' => co[q].id # co'[p].id
    PROVE  Alone' /\ AllFit' /\ Distinct'
  <1>1. CASE Maintaining(p) /\ \A q \in Proc \ {p} : co[q] = Idle /\ ~Busy(co[q])
    BY <1>1, SoleStep
  <1>2. CASE co[p].kind = "app_new" /\ \A q \in Proc : ~Maintaining(q)
    <2>1. ~Maintaining(p)'
      BY <1>2 DEF Maintaining, Idle
    <2> QED BY <1>2, <2>1, OpenStep
  <1> QED BY <1>1, <1>2, Working

\* A PIPE whose APPs keep their cells and its entries leads where it did.
LEMMA LeadKept ==
    ASSUME NEW j \in PipeId, Lead(j), pipelist[j].apps \in Seq(Elem),
           pipelist'[j].apps = pipelist[j].apps,
           \A e \in Members(pipelist[j].apps) :
               /\ applist'[e].addr = applist[e].addr
               /\ applist'[e].route[j] = applist[e].route[j]
    PROVE  Lead(j)'
  <1>1. PICK l : l = pipelist[j].apps
    OBVIOUS
  <1>2. \A i \in 1..(Len(l) - 1) : l[i] \in Members(l) /\ l[i + 1] \in Members(l)
    BY <1>1 DEF Members
  <1>3. \A i \in 1..(Len(l) - 1) :
            /\ applist'[l[i]].route[j].to = applist[l[i]].route[j].to
            /\ applist'[l[i + 1]].addr = applist[l[i + 1]].addr
    BY <1>1, <1>2
  <1>4. \A i \in 1..(Len(l) - 1) :
            LastIn(l, Len(l), l[i], i) => applist[l[i]].route[j].to = applist[l[i + 1]].addr
    BY <1>1, Zenon DEF Lead
  <1>5. \A i \in 1..(Len(l) - 1) :
            LastIn(l, Len(l), l[i], i) => applist'[l[i]].route[j].to = applist'[l[i + 1]].addr
    BY <1>3, <1>4
  <1>6. pipelist'[j].apps = l
    BY <1>1
  <1> QED BY <1>5, <1>6, Zenon DEF Lead, LastIn

\* Steps that leave tables and cells alone.
LEMMA StillRooted ==
    ASSUME Rooted, pipelist' = pipelist,
           \A e \in Elem : /\ applist'[e].st = applist[e].st
                           /\ applist'[e].addr = applist[e].addr
                           /\ applist'[e].route = applist[e].route,
           TypeOK
    PROVE  Rooted'
  <1>1. \A k \in PipeId : pipelist[k].apps \in Seq(Elem)
    BY DEF TypeOK, PipeTable, Pipe
  <1>2. \A k \in PipeId : Members(pipelist[k].apps) \subseteq Elem
    BY <1>1 DEF Members
  <1>3. SysKept'
    BY DEF Rooted, SysKept, Elem
  <1>4. NonePlain'
    BY DEF Rooted, NonePlain, HasPipe
  <1>5. PipesRouted'
    BY <1>2 DEF Rooted, PipesRouted, Routed, HasPipe, Loaded
  <1>6. ASSUME NEW k \in PipeId, HasPipe(k)' PROVE Lead(k)'
    <2>1. Lead(k)
      BY <1>6 DEF Rooted, HasPipe
    <2>2. \A e \in Members(pipelist[k].apps) :
              /\ applist'[e].addr = applist[e].addr
              /\ applist'[e].route[k] = applist[e].route[k]
      BY <1>2
    <2> QED BY <1>1, <2>1, <2>2, LeadKept
  <1> QED BY <1>3, <1>4, <1>5, <1>6 DEF Rooted

\* A slot no PIPE lists is changed.
LEMMA SlotRooted ==
    ASSUME TypeOK, Rooted, pipelist' = pipelist, NEW i \in AppId, NEW s,
           applist' = [applist EXCEPT ![i] = s],
           \A k \in PipeId : HasPipe(k) => i \notin Members(pipelist[k].apps)
    PROVE  Rooted'
  <1>0. \A e \in Elem : e # i => applist'[e] = applist[e]
    BY DEF TypeOK
  <1>1. \A k \in PipeId : pipelist[k].apps \in Seq(Elem)
    BY DEF TypeOK, PipeTable, Pipe
  <1>2. \A k \in PipeId : Members(pipelist[k].apps) \subseteq Elem
    BY <1>1 DEF Members
  <1>3. SysKept'
    BY <1>0, SysAppAssumption, Numbers DEF Rooted, SysKept, Elem
  <1>4. NonePlain'
    BY DEF Rooted, NonePlain, HasPipe
  <1>5. PipesRouted'
    BY <1>0, <1>2 DEF Rooted, PipesRouted, Routed, HasPipe, Loaded
  <1>6. ASSUME NEW k \in PipeId, HasPipe(k)' PROVE Lead(k)'
    <2>1. Lead(k) /\ i \notin Members(pipelist[k].apps)
      BY <1>6 DEF Rooted, HasPipe
    <2>2. \A e \in Members(pipelist[k].apps) : applist'[e] = applist[e]
      BY <1>0, <1>2, <2>1
    <2> QED BY <1>1, <2>1, <2>2, LeadKept
  <1> QED BY <1>3, <1>4, <1>5, <1>6 DEF Rooted

\* No PIPE lists an APP that is not loaded, or that has no entry.
LEMMA Unlisted ==
    ASSUME Rooted, NEW i \in AppId, ~Loaded(i) \/ ~InUse(i)
    PROVE  \A k \in PipeId : HasPipe(k) => i \notin Members(pipelist[k].apps)
  BY DEF Rooted, PipesRouted, Routed, InUse
-----------------------------------------------------------------------------
(* Routes *)

\* load_pipe and pipe_remove write the entries of one PIPE.
LEMMA RoutesMade ==
    ASSUME TypeOK, NEW k \in PipeId, NEW s \in Seq(Elem), NEW n \in 0..Len(s),
           applist' = WithRoutes(k, s, n) \/ applist' = WithoutRoutes(k, s, n)
    PROVE  /\ \A e \in Elem : /\ applist'[e].st = applist[e].st
                              /\ applist'[e].addr = applist[e].addr
                              /\ \A j \in PipeId \ {k} :
                                     applist'[e].route[j] = applist[e].route[j]
           /\ applist' = WithRoutes(k, s, n) =>
                  \A i \in 1..n : applist'[s[i]].route[k] = RouteFor(s, n, s[i])
  <1>0. applist \in [Elem -> Slot]
    BY DEF TypeOK
  <1>1. \A e \in Elem : applist'[e].st = applist[e].st /\ applist'[e].addr = applist[e].addr
    BY RoutesStep
  <1>2. ASSUME NEW e \in Elem, NEW v, applist'[e] = [applist[e] EXCEPT !.route[k] = v]
        PROVE  /\ applist'[e].route[k] = v
               /\ \A j \in PipeId \ {k} : applist'[e].route[j] = applist[e].route[j]
    BY <1>0, <1>2 DEF Slot
  <1>3. ASSUME NEW e \in Elem, NEW j \in PipeId \ {k}
        PROVE  applist'[e].route[j] = applist[e].route[j]
    <2>1. \/ applist'[e] = applist[e]
          \/ applist'[e] = [applist[e] EXCEPT !.route[k] = RouteFor(s, n, e)]
          \/ applist'[e] = [applist[e] EXCEPT !.route[k] = NoRoute]
      <3>1. CASE applist' = WithRoutes(k, s, n)
        BY <3>1, Zenon DEF WithRoutes
      <3>2. CASE applist' = WithoutRoutes(k, s, n)
        BY <3>2, Zenon DEF WithoutRoutes
      <3> QED BY <3>1, <3>2
    <2> QED BY <1>2, <2>1, Zenon
  <1>4. ASSUME applist' = WithRoutes(k, s, n), NEW i \in 1..n
        PROVE  applist'[s[i]].route[k] = RouteFor(s, n, s[i])
    <2>1. s[i] \in Elem /\ s[i] \in {s[j] : j \in 1..n}
      OBVIOUS
    <2>2. applist'[s[i]] = [applist[s[i]] EXCEPT !.route[k] = RouteFor(s, n, s[i])]
      BY <1>4, <2>1, Zenon DEF WithRoutes
    <2> QED BY <1>2, <2>1, <2>2, Zenon
  <1> QED BY <1>1, <1>3, <1>4

\* The entry made for the last mention of an APP leads to the one after it.
LEMMA RouteMeant ==
    ASSUME NEW s \in Seq(Elem), NEW i \in 1..(Len(s) - 1), LastIn(s, Len(s), s[i], i)
    PROVE  RouteFor(s, Len(s), s[i]) = [has |-> TRUE, to |-> applist[s[i + 1]].addr]
  <1> DEFINE Linked == {j \in 1..Len(s) : j < Len(s) /\ LastIn(s, Len(s), s[i], j)}
  <1>1. i \in Linked
    OBVIOUS
  <1>2. \A j \in Linked : j = i
    BY DEF LastIn
  <1>3. (CHOOSE j \in Linked : TRUE) = i
    BY <1>1, <1>2
  <1>4. Linked # {}
    BY <1>1
  <1> HIDE DEF Linked
  <1> QED BY <1>3, <1>4 DEF RouteFor, Linked

LEMMA RouteHas ==
    ASSUME NEW s, NEW n, NEW e
    PROVE  RouteFor(s, n, e).has
  BY DEF RouteFor

\* A PIPE is entered.
LEMMA EnteredRooted ==
    ASSUME TypeOK, Rooted, NEW k \in PipeId, NEW new \in Pipe, new.st # "none",
           Whole(new.apps),
           applist' = WithRoutes(k, new.apps, Len(new.apps)),
           pipelist' = [pipelist EXCEPT ![k] = new]
    PROVE  Rooted'
  <1> DEFINE s == new.apps
             n == Len(s)
  <1>1. s \in Seq(Elem) /\ n \in Nat /\ n \in 0..Len(s)
    BY DEF Pipe
  <1>2. /\ \A e \in Elem : /\ applist'[e].st = applist[e].st
                           /\ applist'[e].addr = applist[e].addr
                           /\ \A j \in PipeId \ {k} :
                                  applist'[e].route[j] = applist[e].route[j]
        /\ \A i \in 1..n : applist'[s[i]].route[k] = RouteFor(s, n, s[i])
    BY <1>1, RoutesMade
  <1>3. pipelist'[k] = new /\ \A j \in PipeId \ {k} : pipelist'[j] = pipelist[j]
    BY DEF TypeOK, PipeTable
  <1>4. \A j \in PipeId : pipelist[j].apps \in Seq(Elem)
    BY DEF TypeOK, PipeTable, Pipe
  <1>5. \A j \in PipeId : Members(pipelist[j].apps) \subseteq Elem
    BY <1>4 DEF Members
  <1>6. SysKept'
    BY <1>2 DEF Rooted, SysKept, Elem
  <1>7. NonePlain'
    BY <1>3 DEF Rooted, NonePlain, HasPipe
  <1>8. ASSUME NEW j \in PipeId, HasPipe(j)' PROVE Routed(j)' /\ Lead(j)'
    <2>1. CASE j = k
      <3>1. Routed(k)'
        BY <1>1, <1>2, <1>3, RouteHas DEF Routed, Members, Whole, Loaded
      <3>2. ASSUME NEW i \in 1..(n - 1), LastIn(s, n, s[i], i)
            PROVE  applist'[s[i]].route[k].to = applist'[s[i + 1]].addr
        <4>1. i \in 1..n /\ s[i + 1] \in Elem
          BY <1>1
        <4>2. applist'[s[i]].route[k] = [has |-> TRUE, to |-> applist[s[i + 1]].addr]
          BY <1>1, <1>2, <3>2, <4>1, RouteMeant
        <4> QED BY <1>2, <4>1, <4>2
      <3>3. Lead(k)'
        BY <1>3, <3>2 DEF Lead, LastIn
      <3> QED BY <2>1, <3>1, <3>3
    <2>2. CASE j # k
      <3>1. pipelist'[j] = pipelist[j] /\ HasPipe(j)
        BY <1>3, <1>8, <2>2 DEF HasPipe
      <3>2. Routed(j) /\ Lead(j)
        BY <3>1 DEF Rooted, PipesRouted
      <3>3. Routed(j)'
        BY <1>2, <1>5, <2>2, <3>1, <3>2 DEF Routed, Loaded
      <3>4. pipelist[j].apps \in Seq(Elem) /\ pipelist'[j].apps = pipelist[j].apps
        BY <1>4, <3>1
      <3>5. \A e \in Members(pipelist[j].apps) :
                /\ applist'[e].addr = applist[e].addr
                /\ applist'[e].route[j] = applist[e].route[j]
        BY <1>2, <1>5, <2>2
      <3>6. Lead(j)'
        BY <3>2, <3>4, <3>5, LeadKept
      <3> QED BY <3>3, <3>6
    <2> QED BY <2>1, <2>2
  <1> QED BY <1>6, <1>7, <1>8 DEF Rooted, PipesRouted

\* The entries of a PIPE that is not there, or no longer, are written.
LEMMA ScratchRooted ==
    ASSUME TypeOK, Rooted, NEW k \in PipeId, NEW s \in Seq(Elem), NEW n \in 0..Len(s),
           applist' = WithRoutes(k, s, n) \/ applist' = WithoutRoutes(k, s, n),
           \/ pipelist' = pipelist /\ ~HasPipe(k)
           \/ pipelist' = [pipelist EXCEPT ![k] = NoPipe]
    PROVE  Rooted'
  <1>2. \A e \in Elem : /\ applist'[e].st = applist[e].st
                        /\ applist'[e].addr = applist[e].addr
                        /\ \A j \in PipeId \ {k} :
                               applist'[e].route[j] = applist[e].route[j]
    BY RoutesMade
  <1>3. /\ \A j \in PipeId \ {k} : pipelist'[j] = pipelist[j]
        /\ pipelist'[k] = NoPipe /\ ~HasPipe(k)'
    BY DEF TypeOK, PipeTable, HasPipe, NoPipe, Rooted, NonePlain
  <1>4. \A j \in PipeId : pipelist[j].apps \in Seq(Elem)
    BY DEF TypeOK, PipeTable, Pipe
  <1>5. \A j \in PipeId : Members(pipelist[j].apps) \subseteq Elem
    BY <1>4 DEF Members
  <1>6. SysKept'
    BY <1>2 DEF Rooted, SysKept, Elem
  <1>7. NonePlain'
    BY <1>3 DEF Rooted, NonePlain, HasPipe
  <1>8. ASSUME NEW j \in PipeId, HasPipe(j)' PROVE Routed(j)' /\ Lead(j)'
    <2>1. j # k /\ pipelist'[j] = pipelist[j] /\ HasPipe(j)
      BY <1>3, <1>8 DEF HasPipe
    <2>2. Routed(j) /\ Lead(j)
      BY <2>1 DEF Rooted, PipesRouted
    <2>3. Routed(j)'
      BY <1>2, <1>5, <2>1, <2>2 DEF Routed, Loaded
    <2>4. pipelist[j].apps \in Seq(Elem) /\ pipelist'[j].apps = pipelist[j].apps
      BY <1>4, <2>1
    <2>5. \A e \in Members(pipelist[j].apps) :
              /\ applist'[e].addr = applist[e].addr
              /\ applist'[e].route[j] = applist[e].route[j]
      BY <1>2, <1>5, <2>1
    <2>6. Lead(j)'
      BY <2>2, <2>4, <2>5, LeadKept
    <2> QED BY <2>3, <2>6
  <1> QED BY <1>6, <1>7, <1>8 DEF Rooted, PipesRouted

\* A PIPE is started or stopped.
LEMMA SwitchRooted ==
    ASSUME TypeOK, Rooted, NEW k \in PipeId, HasPipe(k), NEW st \in {"stopped", "started"},
           applist' = applist, pipelist' = [pipelist EXCEPT ![k].st = st]
    PROVE  Rooted'
  <1>1. /\ pipelist'[k].st = st /\ pipelist'[k].apps = pipelist[k].apps
        /\ \A j \in PipeId \ {k} : pipelist'[j] = pipelist[j]
    BY DEF TypeOK, PipeTable, Pipe
  <1>2. \A j \in PipeId : pipelist'[j].apps = pipelist[j].apps /\ (HasPipe(j)' <=> HasPipe(j))
    BY <1>1 DEF HasPipe
  <1>3. NonePlain'
    BY <1>1, <1>2 DEF Rooted, NonePlain, HasPipe
  <1>4. SysKept' /\ PipesRouted'
    BY <1>2 DEF Rooted, SysKept, PipesRouted, Routed, Loaded
  <1>5. \A j \in PipeId : pipelist[j].apps \in Seq(Elem)
    BY DEF TypeOK, PipeTable, Pipe
  <1>6. \A j \in PipeId : HasPipe(j)' => Lead(j)'
    BY <1>2, <1>5, LeadKept DEF Rooted
  <1> QED BY <1>3, <1>4, <1>6 DEF Rooted

\* Every PIPE is forgotten.
LEMMA ForgotRooted ==
    ASSUME SysKept', pipelist' = NoPipes
    PROVE  Rooted'
  <1>1. \A k \in PipeId : ~HasPipe(k)' /\ pipelist'[k] = NoPipe
    BY DEF NoPipes, NoPipe, HasPipe
  <1> QED BY <1>1 DEF Rooted, NonePlain, PipesRouted

-----------------------------------------------------------------------------
(* Commands keep it *)

Kept == Alone /\ AllFit /\ Distinct /\ Rooted

LEMMA OpenCommand ==
    ASSUME Serial, NEW c \in Client, NEW cmd, Ordinary(c, cmd)
    PROVE  co[c] = Idle /\ \A q \in Proc : ~Maintaining(q)
  BY DEF Ordinary, NoMaintenance

LEMMA LoneCommand ==
    ASSUME Serial, NEW c \in Client, NEW cmd, Special(c, cmd)
    PROVE  \A q \in Proc : co[q] = Idle
  BY DEF Special, Quiet

\* A command that is over in one step leaves the slots others reserved.
LEMMA OneStep ==
    ASSUME TypeOK, AllFit, Distinct, co' = co, \A q \in Proc : ~Maintaining(q),
           \A q \in Proc : Busy(co[q]) =>
               /\ applist'[co[q].id].st = "reserved"
               /\ co[q].at = "conf" => co[q].addr \in cells'
    PROVE  Alone' /\ AllFit' /\ Distinct'
  <1>1. AllFit'
    BY OtherFit DEF AllFit
  <1>2. Distinct'
    BY DEF Distinct, Busy
  <1>3. Alone'
    BY DEF Alone, Maintaining
  <1> QED BY <1>1, <1>2, <1>3

\* Ids that are held are reserved.
LEMMA HeldIds ==
    ASSUME TypeOK, AllFit, NEW q \in Proc, Busy(co[q])
    PROVE  /\ co[q].id \in AppId /\ co[q].id \in Elem
           /\ applist[co[q].id].st = "reserved"
           /\ Present(co[q].id) /\ ~Loaded(co[q].id)
           /\ co[q].at = "conf" => co[q].addr \in cells
  <1>1. Sound(co[q]) /\ Fit(co[q])
    BY DEF TypeOK, AllFit
  <1>2. co[q].id \in AppId
    BY <1>1 DEF Sound, Busy
  <1> QED BY <1>1, <1>2, Numbers DEF Fit, Present, Loaded

\* An id nothing is loaded under is taken, by app_new.
LEMMA TakenKept ==
    ASSUME TypeOK, Kept, \A q \in Proc : ~Maintaining(q),
           NEW p \in Proc, NEW i \in AppId, ~Present(i), NEW a, NEW x \in Co,
           x.kind = "app_new", x.arg = NoConfig, Reserve(p, i, a, x),
           cells' = cells, pipelist' = pipelist
    PROVE  Kept'
  <1>1. PICK r : r = [x EXCEPT !.at = "spawn", !.id = i, !.app = a]
    OBVIOUS
  <1>2. r.kind = "app_new" /\ r.at = "spawn" /\ r.arg = NoConfig /\ r.id = i
    BY <1>1 DEF Co
  <1>3. co'[p] = r /\ Only(p)
    BY <1>1, CoIs DEF Reserve
  <1>4. applist' = [applist EXCEPT ![i] = ReservedSlot]
    BY DEF Reserve
  <1>5. /\ applist'[i].st = "reserved"
        /\ \A e \in Elem : e # i => applist'[e] = applist[e]
    BY <1>4, Numbers DEF TypeOK, ReservedSlot, FreeSlot
  <1>6. r.arg.kind = "repo"
    BY <1>2 DEF NoConfig
  <1>7. Fit(r)'
    BY <1>2, <1>5, <1>6 DEF Fit, Stage, Busy, Cleaning, Filling
  <1>8. ASSUME NEW q \in Proc \ {p}, Busy(co[q])
        PROVE  /\ applist'[co[q].id].st = "reserved"
               /\ co[q].at = "conf" => co[q].addr \in cells'
               /\ co[q].id # i
    BY <1>5, <1>8, HeldIds DEF Kept
  <1>9. Alone' /\ AllFit' /\ Distinct'
    <2>1. ~Maintaining(p)'
      BY <1>2, <1>3 DEF Maintaining
    <2>2. Fit(co[p])' /\ co'[p].id = i
      BY <1>2, <1>3, <1>7
    <2>3. \A q \in Proc \ {p} : Busy(co[q]) =>
               /\ applist'[co[q].id].st = "reserved"
               /\ co[q].at = "conf" => co[q].addr \in cells'
               /\ Busy(co[p])' => co[q].id # co'[p].id
      BY <1>8, <2>2
    <2> QED BY <1>3, <2>1, <2>2, <2>3, OpenStep DEF Kept
  <1>10. ~Loaded(i)
    BY DEF Present, Loaded
  <1>11. Rooted'
    BY <1>4, <1>10, Unlisted, SlotRooted DEF Kept
  <1> QED BY <1>9, <1>11 DEF Kept

\* An idle coroutine fits whatever the tables are.
LEMMA IdleKept ==
    ASSUME NEW p \in Proc, co'[p] = Idle
    PROVE  Fit(co[p])' /\ ~Busy(co[p])'
  <1>1. PICK r : r = co'[p]
    OBVIOUS
  <1>2. Fit(r)' /\ ~Busy(r)'
    BY <1>1, IdleFit DEF Busy
  <1> QED BY <1>1, <1>2 DEF Busy

\* clean, up to its first save: no PIPE makes it raise.
LEMMA CleanKept ==
    ASSUME TypeOK, Kept, NEW p \in Proc, \A q \in Proc \ {p} : co[q] = Idle, NEW x \in Co,
           \/ x.kind = "configure" /\ x.arg.kind = "full" /\ PipesValid(x.arg)
           \/ x.kind = "upgrade" /\ x.arg = NoConfig,
           Clean(p, x) \/ CleanRaises(p), applist' = applist
    PROVE  Kept'
  <1>1. ~CleanRaises(p)
    BY DEF CleanRaises, Kept, Rooted, PipesRouted
  <1>2. pipelist' = NoPipes /\ Become(p, [x EXCEPT !.at = "forget"])
    BY <1>1 DEF Clean
  <1>3. PICK r : r = [x EXCEPT !.at = "forget"]
    OBVIOUS
  <1>4. r.at = "forget" /\ r.kind = x.kind /\ r.arg = x.arg
    BY <1>3 DEF Co
  <1>5. co'[p] = r /\ Only(p)
    BY <1>2, <1>3, CoIs
  <1>6. NoConfig.kind = "repo"
    BY DEF NoConfig
  <1>7. Fit(r)'
    BY <1>2, <1>4, <1>6 DEF Fit, Stage, Busy, Cleaning, Filling
  <1>8. Alone' /\ AllFit' /\ Distinct'
    BY <1>5, <1>7, SoleStep
  <1>9. Rooted'
    BY <1>2, ForgotRooted DEF Kept, Rooted, SysKept
  <1> QED BY <1>8, <1>9 DEF Kept

\* validate_conf and what follows it.
LEMMA ValidateKept ==
    ASSUME TypeOK, Kept, NEW p \in Proc, \A q \in Proc \ {p} : co[q] = Idle,
           NEW arg \in Config, NEW tpls, NEW hasrepo, Validate(p, arg, tpls, hasrepo),
           applist' = applist, cells' = cells
    PROVE  Kept'
  <1> DEFINE x == [Idle EXCEPT !.kind = "configure", !.arg = arg]
  <1>0. x \in Co /\ x.kind = "configure" /\ x.arg = arg /\ x.at = "idle"
    BY IdleTyped DEF Co, Kind, Idle
  <1>1. ASSUME pipelist' = pipelist, Only(p), Fit(co[p])' PROVE Kept'
    <2>1. Alone' /\ AllFit' /\ Distinct'
      BY <1>1, SoleStep
    <2>2. Rooted'
      BY <1>1, StillRooted DEF Kept
    <2> QED BY <2>1, <2>2 DEF Kept
  <1>2. ASSUME Become(p, Idle), pipelist' = pipelist PROVE Kept'
    BY <1>1, <1>2, CoIs, IdleKept
  <1>3. ASSUME NEW r, r.kind = "configure", r.arg = arg,
               r.at = "install" \/ (r.at = "apps" /\ arg.kind = "apps"),
               Become(p, r), pipelist' = pipelist
        PROVE  Kept'
    <2>1. Fit(r)'
      BY <1>3 DEF Fit, Stage, Busy, Cleaning, Filling
    <2>2. co'[p] = r /\ Only(p)
      BY <1>3, CoIs
    <2> QED BY <1>1, <1>3, <2>1, <2>2
  <1>4. CASE Valid(arg) /\ Enter(p, arg)
    <2>1. CASE arg.kind = "full" /\ (Clean(p, x) \/ CleanRaises(p))
      <3>1. PipesValid(arg)
        BY <1>4, <2>1 DEF Valid
      <3> HIDE DEF x
      <3> QED BY <1>0, <2>1, <3>1, CleanKept
    <2>2. CASE /\ arg.kind = "apps" /\ pipelist' = pipelist
               /\ Become(p, [x EXCEPT !.at = "apps", !.todo = AppsIn(arg)])
      <3>1. PICK r : r = [x EXCEPT !.at = "apps", !.todo = AppsIn(arg)]
        OBVIOUS
      <3>2. r.kind = "configure" /\ r.arg = arg /\ r.at = "apps"
        BY <3>1 DEF Idle
      <3> QED BY <1>3, <2>2, <3>1, <3>2
    <2>3. CASE Become(p, Idle) /\ pipelist' = pipelist
      BY <1>2, <2>3
    <2> QED BY <1>4, <2>1, <2>2, <2>3 DEF Enter
  <1>5. CASE /\ \E i \in Missing(arg, tpls) :
                    Become(p, [Idle EXCEPT !.kind = "configure", !.at = "install",
                                           !.arg = arg, !.app = arg.apps[i]])
             /\ UNCHANGED <<locked, pipelist, queue>>
    <2>1. PICK i \in Missing(arg, tpls) :
              Become(p, [Idle EXCEPT !.kind = "configure", !.at = "install",
                                     !.arg = arg, !.app = arg.apps[i]])
      BY <1>5
    <2>2. PICK r : r = [Idle EXCEPT !.kind = "configure", !.at = "install",
                                    !.arg = arg, !.app = arg.apps[i]]
      OBVIOUS
    <2>3. r.kind = "configure" /\ r.arg = arg /\ r.at = "install"
      BY <2>2 DEF Idle
    <2> QED BY <1>3, <1>5, <2>1, <2>2, <2>3
  <1>6. CASE Become(p, Idle) /\ UNCHANGED <<locked, pipelist, queue>>
    BY <1>2, <1>6
  <1> QED BY <1>4, <1>5, <1>6 DEF Validate

LEMMA CommandKept ==
    ASSUME Serial, IInv, Kept, NEW c \in Client, Command(c)
    PROVE  Kept'
  <1>0. c \in Proc /\ TypeOK /\ Alone /\ AllFit /\ Distinct /\ Rooted
    BY Numbers DEF IInv, Kept
  <1>1. ASSUME NEW a \in App, AppNew(c, a) PROVE Kept'
    <2> DEFINE x == [Idle EXCEPT !.kind = "app_new"]
    <2>1. x \in Co /\ x.kind = "app_new" /\ x.arg = NoConfig
      BY IdleTyped DEF Co, Kind, Idle
    <2>2. PICK i \in NewAppId : Reserve(c, i, a, x)
      BY <1>1 DEF AppNew
    <2>3. i \in AppId /\ ~Present(i)
      BY DEF NewAppId
    <2>4. \A q \in Proc : ~Maintaining(q)
      BY <1>1, OpenCommand DEF AppNew
    <2>5. cells' = cells /\ pipelist' = pipelist
      BY <1>1 DEF AppNew
    <2> HIDE DEF x
    <2> QED BY <1>0, <2>1, <2>2, <2>3, <2>4, <2>5, TakenKept
  <1>2. ASSUME NEW a \in App, AppNewInstall(c, a) PROVE Kept'
    <2>1. PICK r : r = [Idle EXCEPT !.kind = "app_new", !.at = "install", !.app = a]
      OBVIOUS
    <2>2. r.kind = "app_new" /\ r.at = "install" /\ r.arg = NoConfig /\ r.arg.kind = "repo"
      BY <2>1 DEF Idle, NoConfig
    <2>3. co'[c] = r /\ Only(c) /\ UNCHANGED <<applist, pipelist, cells>>
      BY <1>0, <1>2, <2>1, CoIs DEF AppNewInstall
    <2>4. \A q \in Proc : ~Maintaining(q)
      BY <1>2, OpenCommand DEF AppNewInstall
    <2>5. Fit(r)' /\ ~Busy(r)
      BY <2>2 DEF Fit, Stage, Busy, Cleaning, Filling
    <2>6. Fit(co[c])' /\ ~Busy(co[c])' /\ ~Maintaining(c)'
      BY <2>2, <2>3, <2>5 DEF Busy, Maintaining
    <2>7. Alone' /\ AllFit' /\ Distinct'
      BY <1>0, <2>3, <2>4, <2>6, HeldIds, OpenStep
    <2> QED BY <1>0, <2>3, <2>7, StillRooted DEF Kept
  <1>3. ASSUME co' = co, cells' = cells, \A q \in Proc : ~Maintaining(q),
               \A e \in Elem : applist'[e].st = applist[e].st
        PROVE  Alone' /\ AllFit' /\ Distinct'
    <2>1. \A q \in Proc : Busy(co[q]) =>
               /\ applist'[co[q].id].st = "reserved"
               /\ co[q].at = "conf" => co[q].addr \in cells'
      BY <1>0, <1>3, HeldIds
    <2> QED BY <1>0, <1>3, <2>1, OneStep
  <1>4. ASSUME NEW i \in AppId, AppRemove(c, i) PROVE Kept'
    <2>1. \A q \in Proc : ~Maintaining(q)
      BY <1>4, OpenCommand DEF AppRemove
    <2>2. /\ applist' = [applist EXCEPT ![i] = FreeSlot] /\ Loaded(i) /\ ~InUse(i)
          /\ cells' = cells \ {applist[i].addr} /\ co' = co /\ pipelist' = pipelist
      BY <1>4 DEF AppRemove, Vacate, Exit
    <2>3. \A e \in Elem : e # i => applist'[e] = applist[e]
      BY <1>0, <2>2 DEF TypeOK
    <2>4. ASSUME NEW q \in Proc, Busy(co[q])
          PROVE  /\ applist'[co[q].id].st = "reserved"
                 /\ co[q].at = "conf" => co[q].addr \in cells'
      <3>1. /\ co[q].id \in Elem /\ co[q].id # i /\ applist[co[q].id].st = "reserved"
            /\ co[q].at = "conf" => co[q].addr \in cells
        BY <1>0, <2>2, <2>4, HeldIds
      <3>2. co[q].at = "conf" => co[q].addr # applist[i].addr
        BY <2>4 DEF IInv, CellsOwned, OwnCell, Loading, Busy
      <3> QED BY <2>2, <2>3, <3>1, <3>2
    <2>5. Alone' /\ AllFit' /\ Distinct'
      BY <1>0, <2>1, <2>2, <2>4, OneStep
    <2>6. Rooted'
      BY <1>0, <2>2, Unlisted, SlotRooted
    <2> QED BY <2>5, <2>6 DEF Kept
  <1>5. ASSUME NEW k \in PipeId, NEW arg \in PipeArgs, PipeNew(c, k, arg) PROVE Kept'
    <2> DEFINE new == [st |-> TryStart(arg.auto), apps |-> arg.apps]
    <2>1. \A q \in Proc : ~Maintaining(q)
      BY <1>5, OpenCommand DEF PipeNew
    <2>2. arg.apps \in Seq(Elem)
      BY ArgAssumption DEF PipeArg
    <2>3. new \in Pipe /\ new.st # "none" /\ new.apps = arg.apps
      BY <2>2 DEF Pipe, PipeState, TryStart
    <2>4. /\ applist' = WithRoutes(k, new.apps, Len(new.apps)) /\ Whole(new.apps)
          /\ pipelist' = [pipelist EXCEPT ![k] = new] /\ co' = co /\ cells' = cells
      BY <1>5, <2>3 DEF PipeNew
    <2> HIDE DEF new
    <2>5. Rooted'
      BY <1>0, <2>3, <2>4, EnteredRooted
    <2>6. \A e \in Elem : applist'[e].st = applist[e].st
      <3>1. new.apps \in Seq(Elem) /\ Len(new.apps) \in 0..Len(new.apps)
        BY <2>2, <2>3
      <3> QED BY <1>0, <2>4, <3>1, RoutesStep
    <2> QED BY <1>3, <2>1, <2>4, <2>5, <2>6 DEF Kept
  <1>6. ASSUME NEW k \in PipeId, NEW arg \in PipeArgs, PipeNewRaises(c, k, arg) PROVE Kept'
    <2>1. \A q \in Proc : ~Maintaining(q)
      BY <1>6, OpenCommand DEF PipeNewRaises
    <2>2. arg.apps \in Seq(Elem)
      BY ArgAssumption DEF PipeArg
    <2>3. PICK n \in 0..Len(arg.apps) : applist' = WithRoutes(k, arg.apps, n)
      BY <1>6 DEF PipeNewRaises, Reach
    <2>4. ~HasPipe(k) /\ pipelist' = pipelist /\ co' = co /\ cells' = cells
      BY <1>6 DEF PipeNewRaises, NewPipeId
    <2>5. Rooted'
      BY <1>0, <2>2, <2>3, <2>4, ScratchRooted
    <2>6. \A e \in Elem : applist'[e].st = applist[e].st
      BY <1>0, <2>2, <2>3, RoutesStep
    <2> QED BY <1>3, <2>1, <2>4, <2>5, <2>6 DEF Kept
  <1>7. ASSUME NEW k \in PipeId, PipeRemove(c, k) PROVE Kept'
    <2> DEFINE s == pipelist[k].apps
    <2>1. \A q \in Proc : ~Maintaining(q)
      BY <1>7, OpenCommand DEF PipeRemove
    <2>2. s \in Seq(Elem)
      BY <1>0 DEF TypeOK, PipeTable, Pipe
    <2>3. Len(s) \in 0..Len(s)
      BY <2>2
    <2>4. /\ applist' = WithoutRoutes(k, s, Len(s))
          /\ pipelist' = [pipelist EXCEPT ![k] = NoPipe] /\ co' = co /\ cells' = cells
      BY <1>7 DEF PipeRemove
    <2> HIDE DEF s
    <2>5. Rooted'
      BY <1>0, <2>2, <2>3, <2>4, ScratchRooted
    <2>6. \A e \in Elem : applist'[e].st = applist[e].st
      BY <1>0, <2>2, <2>3, <2>4, RoutesStep
    <2> QED BY <1>3, <2>1, <2>4, <2>5, <2>6 DEF Kept
  <1>8. ASSUME NEW k \in PipeId, PipeRemoveRaises(c, k) PROVE Kept'
    <2>1. HasPipe(k) /\ ~Whole(pipelist[k].apps)
      BY <1>8 DEF PipeRemoveRaises, HasPipe
    <2>2. Whole(pipelist[k].apps)
      BY <1>0, <2>1 DEF Rooted, PipesRouted, Routed, Whole, Members
    <2> QED BY <2>1, <2>2
  <1>9. ASSUME NEW k \in PipeId, PipeStart(c, k) \/ PipeStop(c, k) PROVE Kept'
    <2>1. PICK cmd \in {"pipe_start", "pipe_stop"}, from, to \in {"stopped", "started"} :
              PipeSwitch(c, cmd, k, from, to)
      BY <1>9 DEF PipeStart, PipeStop
    <2>2. \A q \in Proc : ~Maintaining(q)
      BY <2>1, OpenCommand DEF PipeSwitch
    <2>3. /\ HasPipe(k) /\ applist' = applist /\ pipelist' = [pipelist EXCEPT ![k].st = to]
          /\ co' = co /\ cells' = cells
      BY <2>1 DEF PipeSwitch, HasPipe
    <2>4. Rooted'
      BY <1>0, <2>3, SwitchRooted
    <2> QED BY <1>3, <2>2, <2>3, <2>4 DEF Kept
  <1>10. ASSUME NEW arg \in ConfigArgs, Configure(c, arg) PROVE Kept'
    <2>1. arg \in Config /\ \A q \in Proc : co[q] = Idle
      BY <1>10, ArgAssumption, LoneCommand DEF Configure
    <2>2. Validate(c, arg, tpllist, repo) /\ applist' = applist /\ cells' = cells
      BY <1>10 DEF Configure
    <2> QED BY <1>0, <2>1, <2>2, ValidateKept
  <1>11. ASSUME Only(c), \A q \in Proc : co[q] = Idle, Fit(co[c])',
                UNCHANGED <<applist, pipelist, cells>>
         PROVE  Kept'
    <2>1. Alone' /\ AllFit' /\ Distinct'
      BY <1>0, <1>11, SoleStep
    <2> QED BY <1>0, <1>11, <2>1, StillRooted DEF Kept
  <1>12. ASSUME NEW arg \in ConfigArgs, ConfigureRepo(c, arg) PROVE Kept'
    <2>1. PICK r : r = [Idle EXCEPT !.kind = "configure", !.at = "repo", !.arg = arg]
      OBVIOUS
    <2>2. r.kind = "configure" /\ r.at = "repo"
      BY <2>1 DEF Idle
    <2>3. co'[c] = r /\ Only(c) /\ UNCHANGED <<applist, pipelist, cells>>
      BY <1>0, <1>12, <2>1, CoIs DEF ConfigureRepo
    <2>4. Fit(r)'
      BY <2>2 DEF Fit, Stage, Busy, Cleaning, Filling
    <2>5. \A q \in Proc : co[q] = Idle
      BY <1>12, LoneCommand DEF ConfigureRepo
    <2> QED BY <1>11, <2>3, <2>4, <2>5
  <1>13. ASSUME Upgrade(c) PROVE Kept'
    <2>1. PICK r : r = [Idle EXCEPT !.kind = "upgrade", !.at = "upgrade"]
      OBVIOUS
    <2>2. r.kind = "upgrade" /\ r.at = "upgrade" /\ r.arg = NoConfig /\ NoConfig.kind = "repo"
      BY <2>1 DEF Idle, NoConfig
    <2>3. co'[c] = r /\ Only(c) /\ UNCHANGED <<applist, pipelist, cells>>
      BY <1>0, <1>13, <2>1, CoIs DEF Upgrade
    <2>4. Fit(r)'
      BY <2>2 DEF Fit, Stage, Busy, Cleaning, Filling
    <2>5. \A q \in Proc : co[q] = Idle
      BY <1>13, LoneCommand DEF Upgrade
    <2> QED BY <1>11, <2>3, <2>4, <2>5
  <1> QED
    BY <1>1, <1>2, <1>4, <1>5, <1>6, <1>7, <1>8, <1>9, <1>10, <1>12, <1>13 DEF Command

-----------------------------------------------------------------------------
(* Configuring: what the loops have left *)

\* A coroutine ends, or moves, and the tables stay.
LEMMA MoveKept ==
    ASSUME TypeOK, Kept, NEW p \in Proc, co[p].at # "idle", Only(p),
           co'[p] = Idle \/ co'[p].kind = co[p].kind, Fit(co[p])',
           Busy(co[p])' => Busy(co[p]) /\ co'[p].id = co[p].id,
           cells \subseteq cells', pipelist' = pipelist,
           \A e \in Elem : /\ applist'[e].st = applist[e].st
                           /\ applist'[e].addr = applist[e].addr
                           /\ applist'[e].route = applist[e].route
    PROVE  Kept'
  <1>1. \A q \in Proc \ {p} : Busy(co[q]) =>
               /\ applist'[co[q].id].st = "reserved"
               /\ co[q].at = "conf" => co[q].addr \in cells'
               /\ Busy(co[p])' => co[q].id # co'[p].id
    BY HeldIds DEF Kept, Distinct
  <1>2. Alone' /\ AllFit' /\ Distinct'
    BY <1>1, ResumeStep DEF Kept
  <1>3. Rooted'
    BY StillRooted DEF Kept
  <1> QED BY <1>2, <1>3 DEF Kept

LEMMA EndKept ==
    ASSUME TypeOK, Kept, NEW p \in Proc, co[p].at # "idle", Become(p, Idle),
           UNCHANGED <<applist, pipelist, cells>>
    PROVE  Kept'
  BY MoveKept, CoIs, IdleKept

\* Of what is loaded by a full configuration, nothing is there yet.
LEMMA Filled ==
    ASSUME TypeOK, Kept, NEW p \in Proc
    PROVE  /\ co[p] \in Co /\ Sound(co[p]) /\ Fit(co[p]) /\ Stage(co[p])
           /\ InClean(p) /\ Cleaned(p) => \A i \in AppId : ~Present(i)
           /\ co[p].arg.kind = "full" /\ (Cleaned(p) \/ co[p].at = "apps") =>
                  /\ pipelist = NoPipes
                  /\ \A i \in ToLoad(p) : ~Present(i)
                  /\ \A i \in AppsIn(co[p].arg) \ ToLoad(p) :
                         co[p].at = "apps" /\ ~Waiting(p) => Loaded(i)
                  /\ Cleaned(p) => co[p].kind = "configure" /\ ToLoad(p) = AppsIn(co[p].arg)
  <1>1. co[p] \in Co /\ Sound(co[p]) /\ Fit(co[p]) /\ Stage(co[p])
    BY DEF TypeOK, Kept, AllFit, Fit
  <1>2. InClean(p) /\ Cleaned(p) => \A i \in AppId : ~Present(i)
    BY <1>1 DEF Fit, Cleaned, InClean, ToClean
  <1>3. ASSUME co[p].arg.kind = "full", Cleaned(p)
        PROVE  /\ pipelist = NoPipes
               /\ \A i \in ToLoad(p) : ~Present(i)
               /\ co[p].kind = "configure" /\ ToLoad(p) = AppsIn(co[p].arg)
               /\ co[p].at # "apps"
    <2>1. co[p].at \in {"forget", "clean"} /\ InClean(p)
      BY <1>3 DEF Cleaned, InClean
    <2>2. co[p].kind = "configure"
      <3>1. NoConfig.kind = "repo"
        BY DEF NoConfig
      <3> QED BY <1>1, <1>3, <2>1, <3>1 DEF Stage, Co, Kind, Idle
    <2>3. ToLoad(p) = AppsIn(co[p].arg)
      BY <1>3, <2>1, <2>2 DEF ToLoad
    <2> QED BY <1>1, <1>2, <1>3, <2>1, <2>2, <2>3 DEF Fit, Cleaning, AppsIn
  <1>4. ASSUME co[p].arg.kind = "full", co[p].at = "apps"
        PROVE  /\ pipelist = NoPipes
               /\ \A i \in ToLoad(p) : ~Present(i)
               /\ \A i \in AppsIn(co[p].arg) \ ToLoad(p) : ~Waiting(p) => Loaded(i)
    <2>1. ~Cleaned(p) /\ Filling(co[p]) /\ ~Busy(co[p])
      BY <1>4 DEF Cleaned, InClean, Filling, Busy
    <2>2. ToLoad(p) = IF ~Waiting(p) THEN co[p].todo ELSE {}
      BY <1>4, <2>1 DEF ToLoad
    <2> QED BY <1>1, <1>4, <2>1, <2>2 DEF Fit
  <1> QED BY <1>1, <1>2, <1>3, <1>4

\* When its loop over PIPEs runs, the APPs of a configuration are loaded.
LEMMA Piped ==
    ASSUME TypeOK, Kept, NEW p \in Proc, NEW k \in ToPipe(p)
    PROVE  /\ co[p].arg.kind = "full" /\ co[p].kind \in {"configure", "boot"}
           /\ k \in PipesIn(co[p].arg) /\ ToPipe(p) \subseteq PipesIn(co[p].arg)
           /\ \A i \in AppsIn(co[p].arg) : Loaded(i)
           /\ \A j \in ToPipe(p) : ~HasPipe(j)
           /\ PipesValid(co[p].arg) /\ Whole(co[p].arg.pipes[k].apps)
  <1>1. /\ co[p] \in Co /\ Fit(co[p]) /\ Stage(co[p])
        /\ co[p].arg.kind = "full" /\ (Cleaned(p) \/ co[p].at = "apps") =>
                  /\ pipelist = NoPipes
                  /\ \A i \in AppsIn(co[p].arg) \ ToLoad(p) :
                         co[p].at = "apps" /\ ~Waiting(p) => Loaded(i)
                  /\ Cleaned(p) => co[p].kind = "configure" /\ ToLoad(p) = AppsIn(co[p].arg)
    BY Filled
  <1>2. \/ AppsDone(p) /\ co[p].arg.kind = "full" /\ ToPipe(p) = PipesIn(co[p].arg)
        \/ co[p].at = "pipes" /\ ToPipe(p) = co[p].todo
    BY DEF ToPipe
  <1>3. NoConfig.kind = "repo"
    BY DEF NoConfig
  <1>4. /\ co[p].arg.kind = "full" /\ co[p].kind \in {"configure", "boot"}
        /\ k \in PipesIn(co[p].arg) /\ ToPipe(p) \subseteq PipesIn(co[p].arg)
        /\ \A i \in AppsIn(co[p].arg) : Loaded(i)
        /\ \A j \in ToPipe(p) : ~HasPipe(j)
        /\ PipesValid(co[p].arg)
    <2>1. CASE AppsDone(p) /\ co[p].arg.kind = "full" /\ ToPipe(p) = PipesIn(co[p].arg)
      <3>1. pipelist = NoPipes /\ \A j \in PipeId : ~HasPipe(j)
        BY <1>1, <2>1 DEF AppsDone, HasPipe, NoPipes, NoPipe
      <3>2. \A i \in AppsIn(co[p].arg) : Loaded(i)
        BY <1>1, <2>1 DEF AppsDone
      <3>3. co[p].at \in {"forget", "clean", "apps"}
        BY <2>1 DEF AppsDone, Cleaned, InClean
      <3>4. co[p].kind \in {"configure", "boot"} /\ PipesValid(co[p].arg)
        BY <1>1, <1>3, <2>1, <3>3 DEF Stage, Co, Kind, Idle
      <3> QED BY <2>1, <3>1, <3>2, <3>4 DEF PipesIn
    <2>2. CASE co[p].at = "pipes" /\ ToPipe(p) = co[p].todo
      <3>1. co[p].kind \in {"configure", "boot"} /\ co[p].arg.kind = "full"
        BY <1>1, <2>2 DEF Stage, Co, Kind, Idle
      <3> QED BY <1>1, <2>2, <3>1 DEF Fit, Stage
    <2> QED BY <1>2, <2>1, <2>2
  <1>5. Whole(co[p].arg.pipes[k].apps)
    <2>1. Members(co[p].arg.pipes[k].apps) \subseteq AppsIn(co[p].arg) \cup SysApps
      BY <1>4 DEF PipesValid
    <2>2. \A e \in Members(co[p].arg.pipes[k].apps) : Loaded(e)
      BY <1>4, <2>1 DEF Kept, Rooted, SysKept, Loaded
    <2> QED BY <2>2 DEF Whole, Members
  <1> QED BY <1>4, <1>5

\* An APP's slot is emptied, reserved or filled by the coroutine it is
\* reserved for, or by one in maintenance.
LEMMA SlotKept ==
    ASSUME TypeOK, Kept, NEW p \in Proc, co[p].at # "idle", Only(p),
           co'[p] = Idle \/ co'[p].kind = co[p].kind, Fit(co[p])',
           NEW i \in AppId, NEW s, applist' = [applist EXCEPT ![i] = s],
           Maintaining(p) \/ (Busy(co[p]) /\ co[p].id = i /\ ~Busy(co[p])'),
           cells' = cells \/ Maintaining(p), pipelist' = pipelist,
           ~Loaded(i) \/ pipelist = NoPipes
    PROVE  Kept'
  <1>1. \A e \in Elem : e # i => applist'[e] = applist[e]
    BY DEF TypeOK
  <1>2. \A q \in Proc \ {p} : Busy(co[q]) =>
               /\ applist'[co[q].id].st = "reserved"
               /\ co[q].at = "conf" => co[q].addr \in cells'
               /\ Busy(co[p])' => co[q].id # co'[p].id
    <2>1. CASE Maintaining(p)
      BY <2>1, Working DEF Kept, Maintaining
    <2>2. CASE ~Maintaining(p)
      BY <1>1, <2>2, HeldIds DEF Kept, Distinct
    <2> QED BY <2>1, <2>2
  <1>3. Alone' /\ AllFit' /\ Distinct'
    BY <1>2, ResumeStep DEF Kept
  <1>4. \A k \in PipeId : HasPipe(k) => i \notin Members(pipelist[k].apps)
    <2>1. CASE ~Loaded(i)
      BY <2>1, Unlisted DEF Kept
    <2>2. CASE pipelist = NoPipes
      BY <2>2 DEF NoPipes, NoPipe, HasPipe
    <2> QED BY <2>1, <2>2
  <1>5. Rooted'
    BY <1>4, SlotRooted DEF Kept
  <1> QED BY <1>3, <1>5 DEF Kept

LEMMA AppLoadedKept ==
    ASSUME TypeOK, Kept, NEW p \in Proc, AppLoaded(p)
    PROVE  Kept'
  <1>1. /\ co[p].at = "conf" /\ co[p].arg.kind # "apps" /\ Busy(co[p])
        /\ applist' = [applist EXCEPT ![co[p].id] = LoadedSlot(co[p].app, co[p].addr)]
        /\ cells' = cells /\ pipelist' = pipelist
    BY DEF AppLoaded, Busy
  <1>2. /\ co[p].id \in AppId /\ co[p].id \in Elem /\ ~Loaded(co[p].id) /\ Present(co[p].id)
        /\ co[p] \in Co /\ Fit(co[p]) /\ Stage(co[p])
    BY <1>1, HeldIds, Filled DEF Kept
  <1>3. /\ applist'[co[p].id].st = "loaded"
        /\ \A e \in Elem : e # co[p].id => applist'[e] = applist[e]
    BY <1>1, <1>2 DEF TypeOK, LoadedSlot
  <1>4. CASE co[p].kind = "app_new"
    <2>1. co'[p] = Idle /\ Only(p)
      BY <1>4, CoIs DEF AppLoaded
    <2> QED BY <1>1, <1>2, <2>1, IdleKept, SlotKept
  <1>5. CASE co[p].kind # "app_new"
    <2>1. PICK r : r = [co[p] EXCEPT !.at = "apps", !.id = 0, !.app = NoApp, !.addr = NoAddr]
      OBVIOUS
    <2>2. r.at = "apps" /\ r.kind = co[p].kind /\ r.arg = co[p].arg /\ r.todo = co[p].todo
      BY <1>2, <2>1 DEF Co
    <2>3. co'[p] = r /\ Only(p)
      BY <1>5, <2>1, CoIs DEF AppLoaded
    <2>4. co[p].kind \in {"configure", "boot"} /\ co[p].arg.kind = "full"
      BY <1>1, <1>2, <1>5 DEF Stage, Co, Kind, Idle
    <2>5. /\ pipelist = NoPipes
          /\ \A i \in co[p].todo : ~Present(i)
          /\ \A i \in AppsIn(co[p].arg) \ co[p].todo : Loaded(i) \/ i = co[p].id
          /\ PipesValid(co[p].arg)
      BY <1>1, <1>2, <2>4 DEF Fit, Filling, Stage
    <2>6. co[p].todo \subseteq AppId /\ AppsIn(co[p].arg) \subseteq AppId
      BY <1>1 DEF TypeOK, Sound, AppsIn
    <2>7. ASSUME NEW i \in r.todo PROVE ~Present(i)'
      <3>1. i \in Elem /\ ~Present(i)
        BY <2>2, <2>5, <2>6, Numbers
      <3> QED BY <1>2, <1>3, <3>1 DEF Present
    <2>8. ASSUME NEW i \in AppsIn(r.arg) \ r.todo PROVE Loaded(i)'
      <3>1. i \in Elem /\ (Loaded(i) \/ i = co[p].id)
        BY <2>2, <2>5, <2>6, Numbers
      <3> QED BY <1>3, <3>1 DEF Loaded
    <2>9. Fit(r)' /\ ~Busy(r)
      BY <1>1, <2>2, <2>4, <2>5, <2>7, <2>8 DEF Fit, Stage, Busy, Cleaning, Filling
    <2>10. Fit(co[p])' /\ ~Busy(co[p])' /\ co'[p].kind = co[p].kind
      BY <2>2, <2>3, <2>9 DEF Busy
    <2> QED BY <1>1, <1>2, <2>3, <2>10, SlotKept
  <1> QED BY <1>4, <1>5

-----------------------------------------------------------------------------
(* Coroutines keep it *)

LEMMA SameKept ==
    ASSUME Kept, UNCHANGED <<co, applist, pipelist, cells>>
    PROVE  Kept'
  BY DEF Kept, Alone, Maintaining, AllFit, Fit, Distinct, Rooted, SysKept, NonePlain,
     PipesRouted, Routed, Lead, LastIn, Present, Loaded, HasPipe

LEMMA ResumeKept ==
    ASSUME IInv, Kept, NEW p \in Proc, Resume(p)
    PROVE  Kept'
  <1>0. /\ TypeOK /\ Alone /\ AllFit /\ Distinct /\ Rooted
        /\ co[p] \in Co /\ Sound(co[p]) /\ Fit(co[p]) /\ Stage(co[p])
    BY Filled DEF IInv, Kept
  <1>1. ASSUME AppNewInstalled(p) PROVE Kept'
    <2>1. PICK i \in NewAppId : Reserve(p, i, co[p].app, co[p])
      BY <1>1 DEF AppNewInstalled
    <2>2. /\ i \in AppId /\ ~Present(i) /\ co[p].kind = "app_new" /\ co[p].arg = NoConfig
          /\ cells' = cells /\ pipelist' = pipelist /\ co[p].at # "idle"
      BY <1>0, <1>1 DEF NewAppId, AppNewInstalled, Stage
    <2>3. \A q \in Proc : ~Maintaining(q)
      BY <1>0, <2>2, Working DEF Maintaining
    <2> QED BY <1>0, <2>1, <2>2, <2>3, TakenKept
  <1>2. ASSUME \/ InstallFails(p) \/ ConfRaises(p) \/ RepoFails(p) \/ UpgradeFails(p)
               \/ ReconfRefused(p) \/ Finish(p)
               \/ \E i \in AppId : CleanAppRaises(p, i)
        PROVE  Kept'
    <2>1. UNCHANGED <<applist, pipelist, cells>> /\ Become(p, Idle)
      BY <1>2 DEF InstallFails, ConfRaises, RepoFails, UpgradeFails, ReconfRefused, Finish,
         CleanAppRaises
    <2>2. co[p].at # "idle"
      BY <1>2 DEF InstallFails, ConfRaises, RepoFails, UpgradeFails, ReconfRefused, Finish,
         CleanAppRaises, AppsDone, Cleaned, InClean
    <2> QED BY <1>0, <2>1, <2>2, EndKept
  <1>3. ASSUME Spawned(p) PROVE Kept'
    <2>1. PICK h \in Handle : cells' = cells \cup {h}
                              /\ Become(p, [co[p] EXCEPT !.at = "conf", !.addr = h])
      BY <1>3 DEF Spawned
    <2>2. PICK r : r = [co[p] EXCEPT !.at = "conf", !.addr = h]
      OBVIOUS
    <2>3. /\ r.at = "conf" /\ r.addr = h /\ r.kind = co[p].kind /\ r.arg = co[p].arg
          /\ r.todo = co[p].todo /\ r.id = co[p].id
      BY <1>0, <2>2 DEF Co
    <2>4. co'[p] = r /\ Only(p) /\ co[p].at = "spawn" /\ UNCHANGED <<applist, pipelist>>
      BY <1>0, <1>3, <2>1, <2>2, CoIs DEF Spawned
    <2>5. Stage(r) /\ Busy(co[p]) /\ Busy(r)
      <3>1. co[p].kind # "upgrade" /\ co[p].kind # "none"
        BY <1>0, <2>4 DEF Stage, Idle
      <3>2. co[p].kind = "app_new" => co[p].arg.kind = "repo"
        BY <1>0 DEF Stage, NoConfig
      <3>3. co[p].kind \in {"configure", "boot"} => co[p].arg.kind = "full"
        BY <1>0, <2>4 DEF Stage
      <3> QED BY <1>0, <2>3, <2>4, <3>1, <3>2, <3>3 DEF Stage, Busy, Co, Kind
    <2>6. Fit(r)'
      BY <1>0, <2>1, <2>3, <2>4, <2>5 DEF Fit, Busy, Cleaning, Filling, Present, Loaded
    <2>7. Fit(co[p])' /\ Busy(co[p]) /\ co'[p].id = co[p].id /\ co'[p].kind = co[p].kind
      BY <2>3, <2>4, <2>5, <2>6
    <2> QED BY <1>0, <2>1, <2>4, <2>7, MoveKept DEF Kept
  <1>4. ASSUME SpawnFails(p) PROVE Kept'
    <2>1. /\ co[p].at = "spawn" /\ applist' = [applist EXCEPT ![co[p].id] = FreeSlot]
          /\ Become(p, Idle) /\ cells' = cells /\ pipelist' = pipelist
      BY <1>4 DEF SpawnFails, Vacate
    <2>2. Busy(co[p])
      <3>1. co[p].kind = "app_new" => co[p].arg.kind = "repo"
        BY <1>0 DEF Stage, NoConfig
      <3> QED BY <1>0, <2>1, <3>1 DEF Stage, Busy, Co, Kind, Idle
    <2>3. co[p].id \in AppId /\ ~Loaded(co[p].id)
      BY <1>0, <2>2, HeldIds
    <2>4. co'[p] = Idle /\ Only(p) /\ Fit(co[p])' /\ ~Busy(co[p])'
      BY <1>0, <2>1, CoIs, IdleKept
    <2> QED BY <1>0, <2>1, <2>2, <2>3, <2>4, SlotKept DEF Kept
  <1>5. ASSUME AppLoaded(p) PROVE Kept'
    BY <1>0, <1>5, AppLoadedKept
  <1>6. ASSUME RepoUpdated(p) \/ ConfigureInstalled(p) PROVE Kept'
    <2>1. co[p].kind = "configure" /\ co[p].at # "idle"
      <3>1. CASE co[p].at = "repo"
        BY <1>0, <3>1 DEF Stage, Co, Kind, Idle
      <3>2. CASE co[p].kind = "configure" /\ co[p].at = "install"
        BY <3>2
      <3> QED BY <1>6, <3>1, <3>2 DEF RepoUpdated, ConfigureInstalled
    <2>2. \A q \in Proc \ {p} : co[q] = Idle
      BY <1>0, <2>1, Working
    <2>3. co[p].arg \in Config /\ applist' = applist /\ cells' = cells
      BY <1>0, <1>6 DEF RepoUpdated, ConfigureInstalled, Co
    <2>4. PICK tpls, hasrepo : Validate(p, co[p].arg, tpls, hasrepo)
      BY <1>6 DEF RepoUpdated, ConfigureInstalled
    <2> QED BY <1>0, <2>2, <2>3, <2>4, ValidateKept DEF Kept
  <1>7. ASSUME NEW i \in AppId, CleanApp(p, i) PROVE Kept'
    <2>1. PICK r : r = [co[p] EXCEPT !.at = "clean", !.todo = ToClean(p) \ {i}]
      OBVIOUS
    <2>2. r.at = "clean" /\ r.kind = co[p].kind /\ r.arg = co[p].arg /\ r.todo = ToClean(p) \ {i}
      BY <1>0, <2>1 DEF Co
    <2>3. /\ co'[p] = r /\ Only(p) /\ co[p].at \in {"forget", "clean"} /\ pipelist' = pipelist
          /\ applist' = [applist EXCEPT ![i] = FreeSlot]
      BY <1>0, <1>7, <2>1, CoIs DEF CleanApp, InClean, Vacate
    <2>4. pipelist = NoPipes
      BY <1>0, <2>3 DEF Fit, Cleaning
    <2>5. co[p].kind \in {"configure", "upgrade"}
      BY <1>0, <2>3 DEF Stage, Co, Kind, Idle
    <2>6. \A j \in AppId : Present(j) => j \in ToClean(p)
      BY <1>0, <2>3 DEF Fit, ToClean
    <2>7. ~Present(i)' /\ \A j \in AppId \ {i} : Present(j)' => Present(j)
      BY <1>0, <2>3, Numbers DEF TypeOK, Present, FreeSlot
    <2>8. Stage(r) /\ ~Busy(r) /\ ~Filling(r)
      BY <1>0, <2>2, <2>3, <2>5 DEF Stage, Busy, Filling
    <2>9. Fit(r)'
      BY <2>2, <2>3, <2>4, <2>6, <2>7, <2>8 DEF Fit, Busy, Filling, Cleaning
    <2>10. Fit(co[p])' /\ co'[p].kind = co[p].kind /\ Maintaining(p)
      BY <2>2, <2>3, <2>5, <2>9 DEF Maintaining
    <2> QED BY <1>0, <2>3, <2>4, <2>10, SlotKept DEF Kept
  <1>8. ASSUME NEW i \in AppId, LoadApp(p, i) PROVE Kept'
    <2> DEFINE x == [co[p] EXCEPT !.todo = ToLoad(p) \ {i}]
    <2>1. i \in ToLoad(p) /\ co[p].arg.kind = "full"
      BY <1>8 DEF LoadApp
    <2>2. Cleaned(p) \/ (co[p].at = "apps" /\ ~Waiting(p) /\ ToLoad(p) = co[p].todo)
      BY <2>1 DEF ToLoad
    <2>3. /\ pipelist = NoPipes
          /\ \A j \in ToLoad(p) : ~Present(j)
          /\ \A j \in AppsIn(co[p].arg) \ ToLoad(p) : Loaded(j)
      BY <1>0, <2>1, <2>2, Filled DEF Kept
    <2>4. /\ co[p].kind \in {"configure", "boot"} /\ PipesValid(co[p].arg)
          /\ co[p].at \in {"forget", "clean", "apps"}
      <3>1. NoConfig.kind = "repo"
        BY DEF NoConfig
      <3>2. co[p].at \in {"forget", "clean", "apps"}
        BY <2>2 DEF Cleaned, InClean
      <3> QED BY <1>0, <2>1, <3>1, <3>2 DEF Stage, Co, Kind, Idle
    <2>5. x \in Co /\ ToLoad(p) \subseteq AppsIn(co[p].arg) /\ AppsIn(co[p].arg) \subseteq AppId
      BY <1>0, LeftTypes DEF Co, AppsIn
    <2>6. PICK r : r = [x EXCEPT !.at = "spawn", !.id = i, !.app = co[p].arg.apps[i]]
      OBVIOUS
    <2>7. /\ r.at = "spawn" /\ r.kind = co[p].kind /\ r.arg = co[p].arg /\ r.id = i
          /\ r.todo = ToLoad(p) \ {i}
      BY <1>0, <2>6 DEF Co
    <2>8. Reserve(p, i, co[p].arg.apps[i], x) /\ cells' = cells /\ pipelist' = pipelist
      BY <1>8 DEF LoadApp
    <2> HIDE DEF x
    <2>9. co'[p] = r /\ Only(p) /\ applist' = [applist EXCEPT ![i] = ReservedSlot]
      BY <1>0, <2>6, <2>8, CoIs DEF Reserve
    <2>10. /\ applist'[i].st = "reserved"
           /\ \A e \in Elem : e # i => applist'[e] = applist[e]
      BY <1>0, <2>9, Numbers DEF TypeOK, ReservedSlot, FreeSlot
    <2>11. ASSUME NEW j \in r.todo PROVE ~Present(j)'
      <3>1. j \in Elem /\ j # i /\ ~Present(j)
        BY <2>3, <2>5, <2>7, <2>11, Numbers
      <3> QED BY <2>10, <3>1 DEF Present
    <2>12. ASSUME NEW j \in AppsIn(r.arg) \ r.todo PROVE Loaded(j)' \/ j = i
      <3>1. j \in Elem /\ (j # i => Loaded(j))
        BY <2>3, <2>5, <2>7, <2>12, Numbers
      <3> QED BY <2>10, <3>1 DEF Loaded
    <2>13. Stage(r) /\ Busy(r) /\ ~Cleaning(r)
      BY <2>1, <2>4, <2>7 DEF Stage, Busy, Cleaning
    <2>14. Fit(r)'
      BY <2>3, <2>7, <2>8, <2>10, <2>11, <2>12, <2>13 DEF Fit, Busy, Filling, Cleaning
    <2>15. Fit(co[p])' /\ co'[p].kind = co[p].kind /\ Maintaining(p) /\ co[p].at # "idle"
      BY <2>4, <2>7, <2>9, <2>14 DEF Maintaining
    <2> QED BY <1>0, <2>3, <2>8, <2>9, <2>15, SlotKept DEF Kept
  <1>9. ASSUME NEW i \in AppId, Reconf(p, i) PROVE Kept'
    <2> DEFINE x == [co[p] EXCEPT !.at = "conf", !.todo = ToLoad(p) \ {i}, !.id = i,
                                  !.addr = applist[i].addr,
                                  !.app = [tpl  |-> applist[i].app.tpl,
                                           conf |-> co[p].arg.apps[i].conf]]
    <2>1. /\ i \in ToLoad(p) /\ co[p].arg.kind = "apps" /\ UNCHANGED <<applist, pipelist, cells>>
          /\ Become(p, x) \/ Become(p, Idle)
      BY <1>9 DEF Reconf
    <2>2. co[p].at # "idle"
      BY <2>1 DEF ToLoad, Cleaned, InClean
    <2>3. CASE Become(p, Idle)
      BY <1>0, <2>1, <2>2, <2>3, EndKept DEF Kept
    <2>4. CASE Become(p, x)
      <3>1. PICK r : r = x
        OBVIOUS
      <3>2. r.at = "conf" /\ r.kind = co[p].kind /\ r.arg = co[p].arg
        BY <1>0, <3>1 DEF Co
      <3> HIDE DEF x
      <3>3. co'[p] = r /\ Only(p)
        BY <1>0, <2>4, <3>1, CoIs
      <3>4. co[p].kind = "configure"
        <4>1. NoConfig.kind = "repo"
          BY DEF NoConfig
        <4>2. co[p].at \in {"forget", "clean", "apps"}
          BY <2>1 DEF ToLoad, Cleaned, InClean
        <4> QED BY <1>0, <2>1, <4>1, <4>2 DEF Stage, Co, Kind, Idle
      <3>5. Fit(r)' /\ ~Busy(r)
        BY <2>1, <3>2, <3>4 DEF Fit, Stage, Busy, Cleaning, Filling
      <3>6. Fit(co[p])' /\ ~Busy(co[p])' /\ co'[p].kind = co[p].kind
        BY <3>2, <3>3, <3>5 DEF Busy
      <3> QED BY <1>0, <2>1, <2>2, <3>3, <3>6, MoveKept DEF Kept
    <2> QED BY <2>1, <2>3, <2>4
  <1>10. ASSUME Reconfigured(p) PROVE Kept'
    <2>1. PICK r : r = [co[p] EXCEPT !.at = "apps", !.id = 0, !.app = NoApp, !.addr = NoAddr]
      OBVIOUS
    <2>2. r.at = "apps" /\ r.kind = co[p].kind /\ r.arg = co[p].arg
      BY <1>0, <2>1 DEF Co
    <2>3. /\ co'[p] = r /\ Only(p) /\ co[p].at = "conf" /\ co[p].arg.kind = "apps"
          /\ cells' = cells /\ pipelist' = pipelist
      BY <1>0, <1>10, <2>1, CoIs DEF Reconfigured
    <2>4. \/ applist' = applist
          \/ applist' = [applist EXCEPT ![co[p].id].app = co[p].app]
      BY <1>10 DEF Reconfigured
    <2>5. \A e \in Elem : /\ applist'[e].st = applist[e].st
                          /\ applist'[e].addr = applist[e].addr
                          /\ applist'[e].route = applist[e].route
      <3> TAKE e \in Elem
      <3>1. applist \in [Elem -> Slot] /\ applist[e] \in Slot
        BY <1>0 DEF TypeOK
      <3> QED BY <2>4, <3>1 DEF Slot
    <2>6. co[p].kind = "configure"
      <3>1. NoConfig.kind = "repo"
        BY DEF NoConfig
      <3> QED BY <1>0, <2>3, <3>1 DEF Stage, Co, Kind, Idle
    <2>7. Fit(r)' /\ ~Busy(r)
      BY <2>2, <2>3, <2>6 DEF Fit, Stage, Busy, Cleaning, Filling
    <2>8. Fit(co[p])' /\ ~Busy(co[p])' /\ co'[p].kind = co[p].kind
      BY <2>2, <2>3, <2>7 DEF Busy
    <2> QED BY <1>0, <2>3, <2>5, <2>8, MoveKept DEF Kept
  <1>11. ASSUME NEW k \in PipeId, LoadPipe(p, k) PROVE Kept'
    <2> DEFINE new == [co[p].arg.pipes[k] EXCEPT !.st = TryStart(@ = "started")]
               x == [co[p] EXCEPT !.at = "pipes", !.todo = ToPipe(p) \ {k}]
    <2>1. /\ k \in ToPipe(p) /\ Whole(new.apps)
          /\ applist' = WithRoutes(k, new.apps, Len(new.apps))
          /\ pipelist' = [pipelist EXCEPT ![k] = new] /\ cells' = cells /\ Become(p, x)
      BY <1>11 DEF LoadPipe
    <2>2. co[p].arg.pipes[k] \in Pipe
      BY <1>0 DEF Co, Config, PipeTable
    <2>3. new \in Pipe /\ new.st # "none"
      BY <2>2 DEF Pipe, PipeState, TryStart
    <2>4. PICK r : r = x
      OBVIOUS
    <2>5. /\ r.at = "pipes" /\ r.kind = co[p].kind /\ r.arg = co[p].arg
          /\ r.todo = ToPipe(p) \ {k}
      BY <1>0, <2>4 DEF Co
    <2> HIDE DEF new, x
    <2>6. co'[p] = r /\ Only(p)
      BY <1>0, <2>1, <2>4, CoIs
    <2>7. /\ co[p].arg.kind = "full" /\ co[p].kind \in {"configure", "boot"}
          /\ ToPipe(p) \subseteq PipesIn(co[p].arg)
          /\ \A i \in AppsIn(co[p].arg) : Loaded(i)
          /\ \A j \in ToPipe(p) : ~HasPipe(j)
          /\ PipesValid(co[p].arg)
      BY <1>0, <2>1, Piped DEF Kept
    <2>8. \A e \in Elem : applist'[e].st = applist[e].st
      <3>1. new.apps \in Seq(Elem) /\ Len(new.apps) \in 0..Len(new.apps)
        BY <2>3 DEF Pipe
      <3> QED BY <1>0, <2>1, <3>1, RoutesStep
    <2>9. \A i \in AppsIn(r.arg) : Loaded(i)'
      BY <2>5, <2>7, <2>8, Numbers DEF Loaded, AppsIn
    <2>10. r.todo \subseteq PipesIn(r.arg) /\ \A j \in r.todo : ~HasPipe(j)'
      <3>1. \A j \in PipeId : j # k => pipelist'[j] = pipelist[j]
        BY <1>0, <2>1 DEF TypeOK, PipeTable
      <3> QED BY <2>5, <2>7, <3>1 DEF HasPipe, PipesIn
    <2>11. Fit(r)'
      BY <2>5, <2>7, <2>9, <2>10 DEF Fit, Stage, Busy, Cleaning, Filling
    <2>12. Fit(co[p])' /\ \A q \in Proc \ {p} : co[q] = Idle
      <3>1. Maintaining(p) /\ co[p].at # "idle"
        <4>1. AppsDone(p) \/ co[p].at = "pipes"
          BY <2>1 DEF ToPipe
        <4> QED BY <2>7, <4>1 DEF Maintaining, AppsDone, Cleaned, InClean
      <3> QED BY <1>0, <2>6, <2>11, <3>1 DEF Alone
    <2>13. Alone' /\ AllFit' /\ Distinct'
      BY <2>6, <2>12, SoleStep
    <2>14. Rooted'
      BY <1>0, <2>1, <2>3, EnteredRooted
    <2> QED BY <2>13, <2>14 DEF Kept
  <1>12. ASSUME NEW k \in PipeId, LoadPipeRaises(p, k) PROVE Kept'
    BY <1>0, <1>12, Piped DEF LoadPipeRaises, Kept
  <1>13. ASSUME UpgradeCleans(p) PROVE Kept'
    <2>1. co[p].at = "upgrade" /\ applist' = applist /\ (Clean(p, co[p]) \/ CleanRaises(p))
      BY <1>13 DEF UpgradeCleans
    <2>2. co[p].kind = "upgrade" /\ co[p].arg = NoConfig
      BY <1>0, <2>1 DEF Stage, Co, Kind, Idle
    <2>3. \A q \in Proc \ {p} : co[q] = Idle
      BY <1>0, <2>2 DEF Alone, Maintaining
    <2> QED BY <1>0, <2>1, <2>2, <2>3, CleanKept DEF Kept
  <1>14. ASSUME Quit(p) PROVE Kept'
    <2>1. PICK r : r = [Idle EXCEPT !.kind = "upgrade", !.at = "quit"]
      OBVIOUS
    <2>2. /\ r.at = "quit" /\ r.kind = "upgrade" /\ r.arg = NoConfig
          /\ NoConfig.kind = "repo"
      BY <2>1 DEF Idle, NoConfig
    <2>3. /\ co'[p] = r /\ Only(p) /\ co[p].kind = "upgrade" /\ co[p].at # "idle"
          /\ UNCHANGED <<applist, pipelist, cells>>
      BY <1>0, <1>14, <2>1, CoIs DEF Quit, Cleaned, InClean
    <2>4. Fit(r)' /\ ~Busy(r)
      BY <2>2 DEF Fit, Stage, Busy, Cleaning, Filling
    <2>5. Fit(co[p])' /\ ~Busy(co[p])' /\ co'[p].kind = co[p].kind
      BY <2>2, <2>3, <2>4 DEF Busy
    <2> QED BY <1>0, <2>3, <2>5, MoveKept DEF Kept
  <1> QED
    BY <1>1, <1>2, <1>3, <1>4, <1>5, <1>6, <1>7, <1>8, <1>9, <1>10, <1>11, <1>12, <1>13, <1>14
    DEF Resume

LEMMA SystemKept ==
    ASSUME IInv, Kept, BootConfigures \/ BootRejects \/ SysmgrSaves
    PROVE  Kept'
  <1>0. /\ TypeOK /\ Alone /\ AllFit /\ Distinct /\ Rooted /\ Boot \in Proc
        /\ co[Boot] \in Co /\ Fit(co[Boot]) /\ Stage(co[Boot])
    BY Filled, Numbers DEF IInv, Kept
  <1>1. CASE BootConfigures
    <2> DEFINE total == [kind |-> "full", repo |-> TRUE, apps |-> cfg.apps, pipes |-> cfg.pipes]
               x == [Idle EXCEPT !.kind = "boot", !.at = "apps",
                                 !.arg = total, !.todo = AppsIn(total)]
    <2>1. /\ co[Boot].at = "start" /\ PipesValid(total) /\ Become(Boot, x)
          /\ UNCHANGED <<applist, pipelist, cells>>
      BY <1>1 DEF BootConfigures
    <2>2. PICK r : r = x
      OBVIOUS
    <2>3. /\ r.at = "apps" /\ r.kind = "boot" /\ r.arg = total /\ r.arg.kind = "full"
          /\ r.todo = AppsIn(r.arg)
      BY <2>2 DEF Idle
    <2> HIDE DEF x, total
    <2>4. co'[Boot] = r /\ Only(Boot)
      BY <1>0, <2>1, <2>2, CoIs
    <2>5. pipelist = NoPipes /\ \A i \in AppId : ~Present(i)
      BY <1>0, <2>1 DEF Fit
    <2>6. Fit(r)' /\ ~Busy(r)
      BY <2>1, <2>3, <2>5 DEF Fit, Stage, Busy, Cleaning, Filling, Present, AppsIn
    <2>7. co[Boot].kind = "boot"
      BY <1>0, <2>1 DEF Stage, Co, Kind, Idle
    <2>8. Fit(co[Boot])' /\ ~Busy(co[Boot])' /\ co'[Boot].kind = co[Boot].kind
      BY <2>3, <2>4, <2>6, <2>7 DEF Busy
    <2> QED BY <1>0, <2>1, <2>4, <2>8, MoveKept DEF Kept
  <1>2. CASE BootRejects
    <2>1. co[Boot].at # "idle" /\ Become(Boot, Idle) /\ UNCHANGED <<applist, pipelist, cells>>
      BY <1>2 DEF BootRejects
    <2> QED BY <1>0, <2>1, EndKept DEF Kept
  <1>3. CASE SysmgrSaves
    <2>1. UNCHANGED <<co, applist, pipelist, cells>>
      BY <1>3 DEF SysmgrSaves
    <2> QED BY <2>1, SameKept
  <1> QED BY <1>1, <1>2, <1>3

-----------------------------------------------------------------------------
(* The theorems about PIPEs *)

\* Where the gateway starts from, and starts again from.
Fresh ==
    /\ applist = EmptyList
    /\ pipelist = NoPipes
    /\ cells = {}
    /\ co = [p \in Proc |-> IF p = Boot THEN [Idle EXCEPT !.kind = "boot", !.at = "start"]
                            ELSE Idle]

LEMMA FreshKept == Fresh => Kept
  <1> SUFFICES ASSUME Fresh PROVE Kept
    OBVIOUS
  <1>1. /\ \A i \in AppId : ~Present(i)
        /\ \A e \in SysApps : applist[e].st = "loaded" /\ applist[e].addr = e
    BY SysAppAssumption, Numbers
    DEF Fresh, EmptyList, SysSlot, LoadedSlot, FreeSlot, Present, Elem
  <1>2. \A k \in PipeId : ~HasPipe(k) /\ pipelist[k] = NoPipe
    BY DEF Fresh, NoPipes, NoPipe, HasPipe
  <1>3. DEFINE r == [Idle EXCEPT !.kind = "boot", !.at = "start"]
  <1>4. r.kind = "boot" /\ r.at = "start" /\ r.arg = NoConfig /\ NoConfig.kind = "repo"
    BY DEF Idle, NoConfig
  <1>5. co[Boot] = r /\ \A q \in Proc \ {Boot} : co[q] = Idle
    BY Numbers DEF Fresh
  <1> HIDE DEF r
  <1>6. Fit(r)
    BY <1>1, <1>4 DEF Fit, Stage, Busy, Cleaning, Filling, Fresh
  <1>7. AllFit
    BY <1>5, <1>6, IdleFit DEF AllFit
  <1>8. Distinct /\ Alone
    BY <1>5 DEF Distinct, Alone, Busy, Maintaining, Idle
  <1>9. Rooted
    BY <1>1, <1>2 DEF Rooted, SysKept, NonePlain, PipesRouted
  <1> QED BY <1>7, <1>8, <1>9 DEF Kept

LEMMA InitFresh == Init => Fresh
  BY DEF Init, Fresh

LEMMA RestartFresh == Restart => Fresh'
  BY DEF Restart, Fresh

LEMMA AgainKept == Fresh' => Kept'
  BY FreshKept, PTL

SInv == IInv /\ Kept

LEMMA SerialStep == Serial /\ SInv /\ [Next]_vars => SInv'
  <1> SUFFICES ASSUME Serial, SInv, [Next]_vars PROVE SInv'
    OBVIOUS
  <1>1. IInv'
    BY InvStep DEF SInv
  <1>2. Kept'
    <2>1. CASE UNCHANGED vars
      BY <2>1, SameKept DEF SInv, vars
    <2>2. ASSUME NEW c \in Client, Command(c) PROVE Kept'
      BY <2>2, CommandKept DEF SInv
    <2>3. ASSUME NEW p \in Proc, Resume(p) PROVE Kept'
      BY <2>3, ResumeKept DEF SInv
    <2>4. CASE BootConfigures \/ BootRejects \/ SysmgrSaves
      BY <2>4, SystemKept DEF SInv
    <2>5. CASE Restart
      BY <2>5, RestartFresh, AgainKept
    <2> QED BY <2>1, <2>2, <2>3, <2>4, <2>5 DEF Next
  <1> QED BY <1>1, <1>2 DEF SInv

LEMMA SerialInit == Init => SInv
  BY InitTypes, InitOwned, InitFresh, FreshKept DEF IInv, SInv

\* The entries of a PIPE lead to running cells.
LEMMA LeadsOn == SInv => RoutesLead
  <1> SUFFICES ASSUME SInv, NEW k \in PipeId, HasPipe(k),
                      NEW i \in 1..(Len(pipelist[k].apps) - 1),
                      LastIn(pipelist[k].apps, Len(pipelist[k].apps), pipelist[k].apps[i], i)
               PROVE  LET s == pipelist[k].apps
                      IN  /\ applist[s[i]].route[k].to = applist[s[i + 1]].addr
                          /\ applist[s[i]].route[k].to \in cells \cup SysApps
    BY DEF RoutesLead
  <1> DEFINE s == pipelist[k].apps
  <1>1. s \in Seq(Elem) /\ Lead(k) /\ Routed(k)
    BY DEF SInv, IInv, TypeOK, PipeTable, Pipe, Kept, Rooted, PipesRouted
  <1>2. applist[s[i]].route[k].to = applist[s[i + 1]].addr
    BY <1>1 DEF Lead
  <1>3. i + 1 \in 1..Len(s) /\ s[i + 1] \in Elem /\ s[i + 1] \in Members(s)
    BY <1>1 DEF Members
  <1>4. Loaded(s[i + 1])
    BY <1>1, <1>3 DEF Routed
  <1> HIDE DEF s
  <1>5. applist[s[i + 1]].addr \in cells \cup SysApps
    <2>1. CASE s[i + 1] \in AppId
      BY <1>4, <2>1 DEF SInv, IInv, LoadedAlive
    <2>2. CASE s[i + 1] \in SysApps
      BY <2>2 DEF SInv, Kept, Rooted, SysKept
    <2> QED BY <1>3, <2>1, <2>2 DEF Elem
  <1> QED BY <1>2, <1>5 DEF s

\* When maintenance is issued in quiet: whatever commands overtake one
\* another, whatever fails and whenever the process dies, the APPs of a PIPE
\* are loaded and know it, so that starting, stopping and cleaning never raise.
THEOREM Startable ==
    ASSUME Serial
    PROVE  Spec => []PipesRouted
  <1>1. SInv => PipesRouted
    BY DEF SInv, Kept, Rooted
  <1>2. SInv /\ [Next]_vars => SInv'
    BY SerialStep
  <1> QED BY <1>1, <1>2, SerialInit, PTL DEF Spec

\* Under the same condition the entry of a PIPE in the route table of an APP
\* leads to the running cell of the APP that follows it in the PIPE: no
\* command leaves a hop to a cell that is gone or was replaced.
THEOREM Leading ==
    ASSUME Serial
    PROVE  Spec => []RoutesLead
  <1>1. SInv /\ [Next]_vars => SInv'
    BY SerialStep
  <1> QED BY <1>1, LeadsOn, SerialInit, PTL DEF Spec

-----------------------------------------------------------------------------
(* AppMgr does what PipeGraph promises *)

Up == {i \in AppId : Loaded(i)}
Mapped == Graph!Next \/ UNCHANGED <<Up, pipelist>>

LEMMA SameUp ==
    ASSUME pipelist' = pipelist, \A i \in AppId : applist'[i].st = applist[i].st
    PROVE  Mapped
  BY DEF Mapped, Up, Loaded

\* A slot that had no APP is emptied or reserved.
LEMMA BlankUp ==
    ASSUME TypeOK, pipelist' = pipelist, NEW i \in AppId, ~Loaded(i),
           NEW s, s.st # "loaded", applist' = [applist EXCEPT ![i] = s]
    PROVE  Mapped
  <1>1. \A j \in AppId : Loaded(j)' <=> Loaded(j)
    BY Numbers DEF TypeOK, Loaded
  <1> QED BY <1>1 DEF Mapped, Up

LEMMA AddedUp ==
    ASSUME TypeOK, pipelist' = pipelist, NEW i \in AppId, ~Loaded(i),
           NEW s, s.st = "loaded", applist' = [applist EXCEPT ![i] = s]
    PROVE  Mapped
  <1>1. \A j \in AppId : Loaded(j)' <=> Loaded(j) \/ j = i
    BY Numbers DEF TypeOK, Loaded
  <1>2. Up' = Up \cup {i} /\ i \notin Up
    BY <1>1 DEF Up
  <1>3. Graph!AddApp(i)
    BY <1>2 DEF Graph!AddApp, Up
  <1> QED BY <1>3 DEF Mapped, Graph!Next

\* An APP no PIPE lists is removed.
LEMMA RemovedUp ==
    ASSUME TypeOK, Rooted, pipelist' = pipelist, NEW i \in AppId, Loaded(i),
           \A k \in PipeId : HasPipe(k) => i \notin Members(pipelist[k].apps),
           applist' = [applist EXCEPT ![i] = FreeSlot]
    PROVE  Mapped
  <1>1. \A j \in AppId : Loaded(j)' <=> Loaded(j) /\ j # i
    BY Numbers DEF TypeOK, Loaded, FreeSlot
  <1>2. Up' = Up \ {i} /\ i \in Up
    BY <1>1 DEF Up
  <1>3. ASSUME NEW k \in PipeId PROVE ~Graph!Uses(k, i)
    <2>1. CASE HasPipe(k)
      BY <2>1 DEF Graph!Uses, Members
    <2>2. CASE ~HasPipe(k)
      BY <2>2 DEF Graph!Uses, Rooted, NonePlain, NoPipe
    <2> QED BY <2>1, <2>2
  <1>4. Graph!RemoveApp(i)
    BY <1>2, <1>3 DEF Graph!RemoveApp, Up
  <1> QED BY <1>4 DEF Mapped, Graph!Next

LEMMA EnteredUp ==
    ASSUME TypeOK, Rooted, NEW k \in PipeId, ~HasPipe(k), NEW new \in Pipe, new.st # "none",
           Whole(new.apps), applist' = WithRoutes(k, new.apps, Len(new.apps)),
           pipelist' = [pipelist EXCEPT ![k] = new]
    PROVE  Mapped
  <1>1. new.apps \in Seq(Elem) /\ Len(new.apps) \in 0..Len(new.apps)
    BY DEF Pipe
  <1>2. \A e \in Elem : applist'[e].st = applist[e].st
    BY <1>1, RoutesStep
  <1>3. Up' = Up
    BY <1>2, Numbers DEF Up, Loaded
  <1>4. pipelist[k] = NoPipe /\ Graph!NoPipe = NoPipe
    BY DEF Rooted, NonePlain, NoPipe, Graph!NoPipe
  <1>5. pipelist'[k] = new
    BY DEF TypeOK, PipeTable
  <1>6. new \in Graph!Pipe
    BY DEF Graph!Pipe, Graph!Elem, Pipe, PipeState, Elem
  <1>7. \A n \in 1..Len(new.apps) : new.apps[n] \in Up \cup SysApps
    BY <1>1 DEF Whole, Up, Elem
  <1>8. Graph!AddPipe(k)
    BY <1>3, <1>4, <1>5, <1>6, <1>7 DEF Graph!AddPipe, Up
  <1> QED BY <1>8 DEF Mapped, Graph!Next

LEMMA ForgottenUp ==
    ASSUME applist' = applist, pipelist' = NoPipes
    PROVE  Mapped
  <1>1. Graph!ForgetPipes
    BY DEF Graph!ForgetPipes, NoPipes, NoPipe, Graph!NoPipe, Up, Loaded
  <1> QED BY <1>1 DEF Mapped, Graph!Next

\* clean forgets the PIPEs, at once.
LEMMA CleanUp ==
    ASSUME Rooted, NEW p, NEW r, Clean(p, r) \/ CleanRaises(p), applist' = applist
    PROVE  Mapped
  BY ForgottenUp DEF Clean, CleanRaises, Rooted, PipesRouted

LEMMA ValidateUp ==
    ASSUME Rooted, NEW p, NEW arg, NEW tpls, NEW hasrepo,
           Validate(p, arg, tpls, hasrepo), applist' = applist
    PROVE  Mapped
  <1>1. CASE \E r : Clean(p, r) \/ CleanRaises(p)
    BY <1>1, CleanUp
  <1>2. CASE pipelist' = pipelist
    BY <1>2, SameUp
  <1> QED BY <1>1, <1>2 DEF Validate, Enter

\* A coroutine that launches a cell holds an id.
LEMMA SpawnBusy ==
    ASSUME NEW r \in Co, Stage(r), r.at = "spawn"
    PROVE  Busy(r)
  <1>1. r.kind = "app_new" => r.arg.kind = "repo"
    BY DEF Stage, NoConfig
  <1> QED BY <1>1 DEF Stage, Busy, Co, Kind, Idle

LEMMA CommandUp ==
    ASSUME Serial, SInv, NEW c \in Client, Command(c)
    PROVE  Mapped
  <1>0. TypeOK /\ Rooted
    BY DEF SInv, IInv, Kept
  <1>1. ASSUME NEW a \in App, AppNew(c, a) PROVE Mapped
    <2>1. PICK i \in NewAppId : applist' = [applist EXCEPT ![i] = ReservedSlot]
      BY <1>1 DEF AppNew, Reserve
    <2>2. i \in AppId /\ ~Loaded(i) /\ ReservedSlot.st # "loaded" /\ pipelist' = pipelist
      BY <1>1 DEF NewAppId, Present, Loaded, ReservedSlot, FreeSlot, AppNew
    <2> QED BY <1>0, <2>1, <2>2, BlankUp
  <1>2. ASSUME \/ \E a \in App : AppNewInstall(c, a)
               \/ \E arg \in ConfigArgs : ConfigureRepo(c, arg)
               \/ Upgrade(c)
        PROVE  Mapped
    BY <1>2, SameUp DEF AppNewInstall, ConfigureRepo, Upgrade
  <1>3. ASSUME NEW i \in AppId, AppRemove(c, i) PROVE Mapped
    BY <1>0, <1>3, Unlisted, RemovedUp DEF AppRemove, Vacate
  <1>4. ASSUME NEW k \in PipeId, NEW arg \in PipeArgs, PipeNew(c, k, arg) PROVE Mapped
    <2> DEFINE new == [st |-> TryStart(arg.auto), apps |-> arg.apps]
    <2>1. arg.apps \in Seq(Elem)
      BY ArgAssumption DEF PipeArg
    <2>2. new \in Pipe /\ new.st # "none" /\ new.apps = arg.apps
      BY <2>1 DEF Pipe, PipeState, TryStart
    <2>3. /\ applist' = WithRoutes(k, new.apps, Len(new.apps)) /\ Whole(new.apps)
          /\ pipelist' = [pipelist EXCEPT ![k] = new] /\ ~HasPipe(k)
      BY <1>4, <2>2 DEF PipeNew, NewPipeId
    <2> HIDE DEF new
    <2> QED BY <1>0, <2>2, <2>3, EnteredUp
  <1>5. ASSUME NEW k \in PipeId, NEW arg \in PipeArgs, PipeNewRaises(c, k, arg) PROVE Mapped
    <2>1. arg.apps \in Seq(Elem)
      BY ArgAssumption DEF PipeArg
    <2>2. PICK n \in 0..Len(arg.apps) : applist' = WithRoutes(k, arg.apps, n)
      BY <1>5 DEF PipeNewRaises, Reach
    <2>3. \A e \in Elem : applist'[e].st = applist[e].st
      BY <1>0, <2>1, <2>2, RoutesStep
    <2> QED BY <1>5, <2>3, SameUp, Numbers DEF PipeNewRaises
  <1>6. ASSUME NEW k \in PipeId, PipeRemove(c, k) PROVE Mapped
    <2> DEFINE s == pipelist[k].apps
    <2>1. s \in Seq(Elem)
      BY <1>0 DEF TypeOK, PipeTable, Pipe
    <2>2. Len(s) \in 0..Len(s)
      BY <2>1
    <2>3. /\ applist' = WithoutRoutes(k, s, Len(s)) /\ pipelist[k].st = "stopped"
          /\ pipelist' = [pipelist EXCEPT ![k] = NoPipe]
      BY <1>6 DEF PipeRemove
    <2> HIDE DEF s
    <2>4. \A e \in Elem : applist'[e].st = applist[e].st
      BY <1>0, <2>1, <2>2, <2>3, RoutesStep
    <2>5. Up' = Up
      BY <2>4, Numbers DEF Up, Loaded
    <2>6. Graph!RemovePipe(k)
      BY <2>3, <2>5 DEF Graph!RemovePipe, Graph!NoPipe, NoPipe, Up
    <2> QED BY <2>6 DEF Mapped, Graph!Next
  <1>7. ASSUME NEW k \in PipeId, PipeRemoveRaises(c, k) PROVE Mapped
    <2>1. HasPipe(k) /\ ~Whole(pipelist[k].apps)
      BY <1>7 DEF PipeRemoveRaises, HasPipe
    <2> QED BY <1>0, <2>1 DEF Rooted, PipesRouted, Routed, Whole, Members
  <1>8. ASSUME NEW k \in PipeId, PipeStart(c, k) \/ PipeStop(c, k) PROVE Mapped
    <2>1. PICK cmd \in {"pipe_start", "pipe_stop"}, from, to \in {"stopped", "started"} :
              PipeSwitch(c, cmd, k, from, to)
      BY <1>8 DEF PipeStart, PipeStop
    <2>2. /\ pipelist[k].st # "none" /\ Up' = Up
          /\ pipelist' = [pipelist EXCEPT ![k].st = to]
      BY <2>1 DEF PipeSwitch, Up, Loaded
    <2>3. Graph!SwitchPipe(k)
      BY <2>2 DEF Graph!SwitchPipe, Up
    <2> QED BY <2>3 DEF Mapped, Graph!Next
  <1>9. ASSUME NEW arg \in ConfigArgs, Configure(c, arg) PROVE Mapped
    BY <1>0, <1>9, ValidateUp DEF Configure
  <1> QED BY <1>1, <1>2, <1>3, <1>4, <1>5, <1>6, <1>7, <1>8, <1>9 DEF Command

LEMMA ResumeUp ==
    ASSUME SInv, NEW p \in Proc, Resume(p)
    PROVE  Mapped
  <1>0. /\ TypeOK /\ Kept /\ Rooted /\ co[p] \in Co /\ Fit(co[p]) /\ Stage(co[p])
    BY Filled DEF SInv, IInv, Kept
  <1>1. ASSUME AppNewInstalled(p) PROVE Mapped
    <2>1. PICK i \in NewAppId : applist' = [applist EXCEPT ![i] = ReservedSlot]
      BY <1>1 DEF AppNewInstalled, Reserve
    <2>2. i \in AppId /\ ~Loaded(i) /\ ReservedSlot.st # "loaded" /\ pipelist' = pipelist
      BY <1>1 DEF NewAppId, Present, Loaded, ReservedSlot, FreeSlot, AppNewInstalled
    <2> QED BY <1>0, <2>1, <2>2, BlankUp
  <1>2. ASSUME \/ InstallFails(p) \/ ConfRaises(p) \/ RepoFails(p) \/ UpgradeFails(p)
               \/ ReconfRefused(p) \/ Finish(p) \/ Spawned(p) \/ Quit(p)
               \/ \E i \in AppId : CleanAppRaises(p, i) \/ Reconf(p, i)
        PROVE  Mapped
    <2>1. UNCHANGED <<applist, pipelist>>
      BY <1>2 DEF InstallFails, ConfRaises, RepoFails, UpgradeFails, ReconfRefused, Finish,
         Spawned, Quit, CleanAppRaises, Reconf
    <2> QED BY <2>1, SameUp
  <1>3. ASSUME SpawnFails(p) PROVE Mapped
    <2>1. /\ applist' = [applist EXCEPT ![co[p].id] = FreeSlot] /\ pipelist' = pipelist
          /\ FreeSlot.st # "loaded" /\ co[p].at = "spawn"
      BY <1>3 DEF SpawnFails, Vacate, FreeSlot
    <2>2. Busy(co[p])
      BY <1>0, <2>1, SpawnBusy
    <2> QED BY <1>0, <2>1, <2>2, HeldIds, BlankUp DEF Kept
  <1>4. ASSUME AppLoaded(p) PROVE Mapped
    <2>1. /\ applist' = [applist EXCEPT ![co[p].id] = LoadedSlot(co[p].app, co[p].addr)]
          /\ pipelist' = pipelist /\ Busy(co[p])
      BY <1>4 DEF AppLoaded, Busy
    <2>2. LoadedSlot(co[p].app, co[p].addr).st = "loaded"
      BY DEF LoadedSlot
    <2> QED BY <1>0, <2>1, <2>2, HeldIds, AddedUp DEF Kept
  <1>5. ASSUME RepoUpdated(p) \/ ConfigureInstalled(p) PROVE Mapped
    BY <1>0, <1>5, ValidateUp DEF RepoUpdated, ConfigureInstalled
  <1>6. ASSUME NEW i \in AppId, CleanApp(p, i) PROVE Mapped
    <2>1. /\ co[p].at \in {"forget", "clean"} /\ Loaded(i) /\ pipelist' = pipelist
          /\ applist' = [applist EXCEPT ![i] = FreeSlot]
      BY <1>6 DEF CleanApp, InClean, Vacate
    <2>2. \A k \in PipeId : ~HasPipe(k)
      BY <1>0, <2>1 DEF Fit, Cleaning, HasPipe, NoPipes, NoPipe
    <2> QED BY <1>0, <2>1, <2>2, RemovedUp
  <1>7. ASSUME NEW i \in AppId, LoadApp(p, i) PROVE Mapped
    <2>1. /\ applist' = [applist EXCEPT ![i] = ReservedSlot] /\ pipelist' = pipelist
          /\ i \in ToLoad(p) /\ co[p].arg.kind = "full"
      BY <1>7 DEF LoadApp, Reserve
    <2>2. Cleaned(p) \/ co[p].at = "apps"
      BY <2>1 DEF ToLoad
    <2>3. ~Loaded(i) /\ ReservedSlot.st # "loaded"
      BY <1>0, <2>1, <2>2, Filled DEF Present, Loaded, ReservedSlot, FreeSlot
    <2> QED BY <1>0, <2>1, <2>3, BlankUp
  <1>8. ASSUME Reconfigured(p) PROVE Mapped
    <2>1. /\ pipelist' = pipelist
          /\ \/ applist' = applist
             \/ applist' = [applist EXCEPT ![co[p].id].app = co[p].app]
      BY <1>8 DEF Reconfigured
    <2>2. \A i \in AppId : applist'[i].st = applist[i].st
      <3> TAKE i \in AppId
      <3>1. applist \in [Elem -> Slot] /\ i \in Elem /\ applist[i] \in Slot
        BY <1>0, Numbers DEF TypeOK
      <3> QED BY <2>1, <3>1 DEF Slot
    <2> QED BY <2>1, <2>2, SameUp
  <1>9. ASSUME NEW k \in PipeId, LoadPipe(p, k) PROVE Mapped
    <2> DEFINE new == [co[p].arg.pipes[k] EXCEPT !.st = TryStart(@ = "started")]
    <2>1. /\ k \in ToPipe(p) /\ Whole(new.apps)
          /\ applist' = WithRoutes(k, new.apps, Len(new.apps))
          /\ pipelist' = [pipelist EXCEPT ![k] = new]
      BY <1>9 DEF LoadPipe
    <2>2. co[p].arg.pipes[k] \in Pipe
      BY <1>0 DEF Co, Config, PipeTable
    <2>3. new \in Pipe /\ new.st # "none"
      BY <2>2 DEF Pipe, PipeState, TryStart
    <2> HIDE DEF new
    <2>4. ~HasPipe(k)
      BY <1>0, <2>1, Piped
    <2> QED BY <1>0, <2>1, <2>3, <2>4, EnteredUp
  <1>10. ASSUME NEW k \in PipeId, LoadPipeRaises(p, k) PROVE Mapped
    BY <1>0, <1>10, Piped DEF LoadPipeRaises
  <1>11. ASSUME UpgradeCleans(p) PROVE Mapped
    BY <1>0, <1>11, CleanUp DEF UpgradeCleans
  <1> QED
    BY <1>1, <1>2, <1>3, <1>4, <1>5, <1>6, <1>7, <1>8, <1>9, <1>10, <1>11 DEF Resume

\* AppMgr does what PipeGraph promises: every step is one of its steps or a
\* stutter.
THEOREM Promised ==
    ASSUME Serial
    PROVE  Spec => GraphSpec
  <1>1. Init => Graph!Init
    BY FreshTypes, Numbers
    DEF Init, Graph!Init, NoPipes, NoPipe, Graph!NoPipe, Loaded, FreeSlot
  <1>2. SInv /\ [Next]_vars => [Graph!Next]_<<{i \in AppId : Loaded(i)}, pipelist>>
    <2> SUFFICES ASSUME SInv, [Next]_vars
                 PROVE  Graph!Next \/ UNCHANGED <<{i \in AppId : Loaded(i)}, pipelist>>
      OBVIOUS
    <2>1. Mapped
      <3>1. CASE UNCHANGED vars
        BY <3>1, SameUp DEF vars
      <3>2. ASSUME NEW c \in Client, Command(c) PROVE Mapped
        BY <3>2, CommandUp
      <3>3. ASSUME NEW p \in Proc, Resume(p) PROVE Mapped
        BY <3>3, ResumeUp
      <3>4. CASE BootConfigures \/ BootRejects \/ SysmgrSaves
        BY <3>4, SameUp DEF BootConfigures, BootRejects, SysmgrSaves
      <3>5. CASE Restart
        <4>1. Up' = {}
          BY <3>5, FreshTypes DEF Restart, Up, Loaded, FreeSlot
        <4>2. Graph!Crash
          BY <3>5, <4>1 DEF Restart, Graph!Crash, NoPipes, NoPipe, Graph!NoPipe, Up
        <4> QED BY <4>2 DEF Mapped, Graph!Next
      <3> QED BY <3>1, <3>2, <3>3, <3>4, <3>5 DEF Next
    <2> QED BY <2>1 DEF Mapped, Up
  <1>3. SInv /\ [Next]_vars => SInv'
    BY SerialStep
  <1> QED BY <1>1, <1>2, <1>3, SerialInit, PTL DEF Spec, GraphSpec, Graph!Spec

-----------------------------------------------------------------------------
(* Ids and cells *)

\* A reserved id is claimed by the command that loads an APP into it; a cell
\* belongs to an APP or to the command that waits for its answer.
Claimed == \A i \in AppId :
    applist[i].st = "reserved" => \E p \in Proc : Busy(co[p]) /\ co[p].id = i
Sheltered == \A h \in cells :
    \/ \E i \in AppId : Loaded(i) /\ applist[i].addr = h
    \/ \E p \in Proc : Busy(co[p]) /\ co[p].at = "conf" /\ co[p].addr = h
Backed == Claimed /\ Sheltered

\* What a coroutine at work is busy with stays.
Goes(q) == Busy(co[q]) => /\ Busy(co[q])'
                          /\ co'[q].id = co[q].id
                          /\ co'[q].at = co[q].at
                          /\ co'[q].addr = co[q].addr

LEMMA OnlyGoes ==
    ASSUME NEW p \in Proc, Only(p)
    PROVE  \A q \in Proc \ {p} : Goes(q)
  BY DEF Only, Goes, Busy

\* Whoever held nothing changes at most what it waits for.
LEMMA StillBacked ==
    ASSUME Backed, NEW p \in Proc, Only(p), ~Busy(co[p]), cells' = cells,
           \A i \in AppId : /\ applist'[i].st = applist[i].st
                            /\ applist'[i].addr = applist[i].addr
    PROVE  Backed'
  <1>1. \A q \in Proc : Goes(q)
    BY OnlyGoes DEF Goes
  <1>2. Claimed'
    BY <1>1 DEF Backed, Claimed, Goes
  <1>3. Sheltered'
    BY <1>1 DEF Backed, Sheltered, Goes, Loaded
  <1> QED BY <1>2, <1>3 DEF Backed

LEMMA ReserveBacked ==
    ASSUME TypeOK, Backed, NEW p \in Proc, ~Busy(co[p]), NEW i \in AppId, ~Loaded(i),
           NEW a, NEW x \in Co, x.arg.kind # "apps", Reserve(p, i, a, x), cells' = cells
    PROVE  Backed'
  <1>1. PICK r : r = [x EXCEPT !.at = "spawn", !.id = i, !.app = a]
    OBVIOUS
  <1>2. r.at = "spawn" /\ r.id = i /\ r.arg = x.arg
    BY <1>1 DEF Co
  <1>3. co'[p] = r /\ Only(p)
    BY <1>1, CoIs DEF Reserve
  <1>4. Busy(co[p])' /\ co'[p].id = i
    BY <1>2, <1>3 DEF Busy
  <1>5. /\ applist'[i].st = "reserved"
        /\ \A j \in AppId : j # i => applist'[j] = applist[j]
    BY Numbers DEF TypeOK, Reserve, ReservedSlot, FreeSlot
  <1>6. \A q \in Proc : Goes(q)
    BY <1>3, OnlyGoes DEF Goes
  <1>7. Claimed'
    BY <1>4, <1>5, <1>6 DEF Backed, Claimed, Goes
  <1>8. Sheltered'
    BY <1>5, <1>6 DEF Backed, Sheltered, Goes, Loaded
  <1> QED BY <1>7, <1>8 DEF Backed

\* remove_app takes the slot and its cell.
LEMMA RemoveBacked ==
    ASSUME TypeOK, Backed, NEW i \in AppId, Vacate(i), Exit(i), \A q \in Proc : Goes(q)
    PROVE  Backed'
  <1>1. /\ applist'[i] = FreeSlot
        /\ \A j \in AppId : j # i => applist'[j] = applist[j]
    BY Numbers DEF TypeOK, Vacate
  <1>2. cells' = cells \ {applist[i].addr}
    BY DEF Exit
  <1>3. Claimed'
    BY <1>1 DEF Backed, Claimed, Goes, FreeSlot
  <1>4. Sheltered'
    BY <1>1, <1>2 DEF Backed, Sheltered, Goes, Loaded
  <1> QED BY <1>3, <1>4 DEF Backed

LEMMA SpawnedBacked ==
    ASSUME TypeOK, Kept, Backed, NEW p \in Proc, Spawned(p)
    PROVE  Backed'
  <1>1. PICK h \in Handle : /\ cells' = cells \cup {h}
                            /\ Become(p, [co[p] EXCEPT !.at = "conf", !.addr = h])
    BY DEF Spawned
  <1>2. PICK r : r = [co[p] EXCEPT !.at = "conf", !.addr = h]
    OBVIOUS
  <1>3. co[p] \in Co /\ Stage(co[p]) /\ co[p].at = "spawn" /\ applist' = applist
    BY Filled DEF Spawned
  <1>4. r.at = "conf" /\ r.addr = h /\ r.id = co[p].id /\ r.arg = co[p].arg
    BY <1>2, <1>3 DEF Co
  <1>5. co'[p] = r /\ Only(p) /\ Busy(co[p])
    BY <1>1, <1>2, <1>3, CoIs, SpawnBusy
  <1>6. Busy(co[p])' /\ co'[p].id = co[p].id /\ co'[p].at = "conf" /\ co'[p].addr = h
    BY <1>4, <1>5 DEF Busy
  <1>7. \A q \in Proc \ {p} : Goes(q)
    BY <1>5, OnlyGoes
  <1>8. Claimed'
    BY <1>3, <1>6, <1>7 DEF Backed, Claimed, Goes
  <1>9. Sheltered'
    BY <1>1, <1>3, <1>6, <1>7 DEF Backed, Sheltered, Goes, Loaded
  <1> QED BY <1>8, <1>9 DEF Backed

\* The id a command loads into is given up, or loaded.
LEMMA SettledBacked ==
    ASSUME TypeOK, Kept, Backed, NEW p \in Proc, Busy(co[p]), Only(p),
           NEW s \in Slot, applist' = [applist EXCEPT ![co[p].id] = s], cells' = cells,
           s.st # "reserved",
           co[p].at = "conf" => s.st = "loaded" /\ s.addr = co[p].addr
    PROVE  Backed'
  <1>1. PICK i \in AppId : i = co[p].id
    BY HeldIds DEF Kept
  <1>2. ~Loaded(i)
    BY <1>1, HeldIds DEF Kept
  <1>3. /\ applist'[i] = s
        /\ \A j \in AppId : j # i => applist'[j] = applist[j]
    BY <1>1, Numbers DEF TypeOK
  <1>4. \A q \in Proc \ {p} : Goes(q)
    BY OnlyGoes
  <1>5. Claimed'
    BY <1>1, <1>3, <1>4 DEF Backed, Claimed, Goes
  <1>6. Sheltered'
    BY <1>2, <1>3, <1>4 DEF Backed, Sheltered, Goes, Loaded
  <1> QED BY <1>5, <1>6 DEF Backed
-----------------------------------------------------------------------------

LEMMA CommandBacked ==
    ASSUME Serial, SInv, Backed, NEW c \in Client, Command(c)
    PROVE  Backed'
  <1>0. TypeOK /\ c \in Proc
    BY Numbers DEF SInv, IInv
  <1>1. ASSUME co[c] = Idle, \E r : Become(c, r), applist' = applist, cells' = cells
        PROVE  Backed'
    BY <1>0, <1>1, CoIs, StillBacked DEF Idle, Busy
  <1>2. ASSUME co' = co, cells' = cells,
               \A i \in AppId : /\ applist'[i].st = applist[i].st
                                /\ applist'[i].addr = applist[i].addr
        PROVE  Backed'
    BY <1>2 DEF Backed, Claimed, Sheltered, Busy, Loaded
  <1>3. ASSUME NEW k \in PipeId, NEW s \in Seq(Elem), NEW n \in 0..Len(s),
               applist' = WithRoutes(k, s, n) \/ applist' = WithoutRoutes(k, s, n),
               co' = co, cells' = cells
        PROVE  Backed'
    <2>1. \A e \in Elem : applist'[e].st = applist[e].st /\ applist'[e].addr = applist[e].addr
      BY <1>0, <1>3, RoutesStep
    <2> QED BY <1>2, <1>3, <2>1, Numbers
  <1>4. \A k \in PipeId : pipelist[k].apps \in Seq(Elem)
    BY <1>0 DEF TypeOK, PipeTable, Pipe
  <1>5. \A arg \in PipeArgs : arg.apps \in Seq(Elem)
    BY ArgAssumption DEF PipeArg
  <1>6. \A s \in Seq(Elem) : Len(s) \in 0..Len(s)
    OBVIOUS
  <1>7. ASSUME NEW a \in App, AppNew(c, a) PROVE Backed'
    <2>1. PICK i \in NewAppId : Reserve(c, i, a, [Idle EXCEPT !.kind = "app_new"])
      BY <1>7 DEF AppNew
    <2>2. PICK x : x = [Idle EXCEPT !.kind = "app_new"]
      OBVIOUS
    <2>3. x \in Co /\ x.arg.kind = "repo"
      BY <2>2, IdleTyped DEF Co, Kind, Idle, NoConfig
    <2>4. i \in AppId /\ ~Loaded(i) /\ ~Busy(co[c]) /\ cells' = cells
      BY <1>7 DEF NewAppId, Present, Loaded, AppNew, Ordinary, Idle, Busy
    <2> QED BY <1>0, <2>1, <2>2, <2>3, <2>4, ReserveBacked
  <1>8. ASSUME \/ \E a \in App : AppNewInstall(c, a)
               \/ \E arg \in ConfigArgs : ConfigureRepo(c, arg)
               \/ Upgrade(c)
        PROVE  Backed'
    BY <1>1, <1>8 DEF AppNewInstall, ConfigureRepo, Upgrade, Ordinary, Special
  <1>9. ASSUME NEW i \in AppId, AppRemove(c, i) PROVE Backed'
    <2>1. Vacate(i) /\ Exit(i) /\ co' = co
      BY <1>9 DEF AppRemove
    <2>2. \A q \in Proc : Goes(q)
      BY <2>1 DEF Goes, Busy
    <2> QED BY <1>0, <2>1, <2>2, RemoveBacked
  <1>10. ASSUME NEW k \in PipeId, NEW arg \in PipeArgs,
                PipeNew(c, k, arg) \/ PipeNewRaises(c, k, arg)
         PROVE  Backed'
    <2>1. PICK n \in 0..Len(arg.apps) : applist' = WithRoutes(k, arg.apps, n)
      BY <1>5, <1>6, <1>10 DEF PipeNew, PipeNewRaises, Reach
    <2>2. co' = co /\ cells' = cells
      BY <1>10 DEF PipeNew, PipeNewRaises
    <2> QED BY <1>3, <1>5, <2>1, <2>2
  <1>11. ASSUME NEW k \in PipeId, PipeRemove(c, k) \/ PipeRemoveRaises(c, k) PROVE Backed'
    <2>1. PICK n \in 0..Len(pipelist[k].apps) : applist' = WithoutRoutes(k, pipelist[k].apps, n)
      BY <1>4, <1>6, <1>11 DEF PipeRemove, PipeRemoveRaises, Reach
    <2>2. co' = co /\ cells' = cells
      BY <1>11 DEF PipeRemove, PipeRemoveRaises
    <2> QED BY <1>3, <1>4, <2>1, <2>2
  <1>12. ASSUME NEW k \in PipeId, PipeStart(c, k) \/ PipeStop(c, k) PROVE Backed'
    BY <1>2, <1>12 DEF PipeStart, PipeStop, PipeSwitch
  <1>13. ASSUME NEW arg \in ConfigArgs, Configure(c, arg) PROVE Backed'
    <2>1. \E r : Become(c, r)
      BY <1>13 DEF Configure, Validate, Enter, Clean, CleanRaises
    <2> QED BY <1>1, <1>13, <2>1 DEF Configure, Special
  <1> QED
    BY <1>7, <1>8, <1>9, <1>10, <1>11, <1>12, <1>13 DEF Command

LEMMA ResumeBacked ==
    ASSUME "conf_raises" \notin Faults, SInv, Backed, NEW p \in Proc, Resume(p)
    PROVE  Backed'
  <1>0. /\ TypeOK /\ Kept /\ co[p] \in Co /\ Fit(co[p]) /\ Stage(co[p])
    BY Filled DEF SInv, IInv, Kept
  <1>1. ASSUME ~Busy(co[p]), \E r : Become(p, r), cells' = cells,
               \A i \in AppId : /\ applist'[i].st = applist[i].st
                                /\ applist'[i].addr = applist[i].addr
        PROVE  Backed'
    BY <1>0, <1>1, CoIs, StillBacked
  <1>2. ASSUME NEW i \in AppId, ~Loaded(i), NEW a, Reserve(p, i, a, co[p]) \/
                   Reserve(p, i, a, [co[p] EXCEPT !.todo = ToLoad(p) \ {i}]),
               ~Busy(co[p]), co[p].arg.kind # "apps", cells' = cells, ToLoad(p) \subseteq AppId
        PROVE  Backed'
    <2>1. PICK x \in {co[p], [co[p] EXCEPT !.todo = ToLoad(p) \ {i}]} : Reserve(p, i, a, x)
      BY <1>2
    <2>2. x \in Co /\ x.arg = co[p].arg
      BY <1>0, <1>2, <2>1 DEF Co
    <2> QED BY <1>0, <1>2, <2>1, <2>2, ReserveBacked
  <1>3. ASSUME AppNewInstalled(p) PROVE Backed'
    <2>1. PICK i \in NewAppId : Reserve(p, i, co[p].app, co[p])
      BY <1>3 DEF AppNewInstalled
    <2>2. i \in AppId /\ ~Loaded(i) /\ ~Busy(co[p]) /\ cells' = cells
      BY <1>3 DEF NewAppId, Present, Loaded, AppNewInstalled, Busy
    <2>3. co[p].arg.kind = "repo"
      BY <1>0, <1>3 DEF AppNewInstalled, Stage, NoConfig
    <2> QED BY <1>0, <2>1, <2>2, <2>3, ReserveBacked
  <1>4. ASSUME \/ InstallFails(p) \/ RepoFails(p) \/ UpgradeFails(p)
               \/ ReconfRefused(p) \/ Finish(p) \/ Quit(p)
               \/ \E i \in AppId : CleanAppRaises(p, i) \/ Reconf(p, i)
               \/ RepoUpdated(p) \/ ConfigureInstalled(p) \/ UpgradeCleans(p)
        PROVE  Backed'
    <2>1. UNCHANGED <<applist, cells>>
      BY <1>4 DEF InstallFails, RepoFails, UpgradeFails, ReconfRefused, Finish, Quit,
         CleanAppRaises, Reconf, RepoUpdated, ConfigureInstalled, UpgradeCleans
    <2>2. ~Busy(co[p])
      BY <1>4 DEF InstallFails, RepoFails, UpgradeFails, ReconfRefused, Finish, Quit,
         CleanAppRaises, Reconf, RepoUpdated, ConfigureInstalled, UpgradeCleans, Busy,
         InClean, Cleaned, AppsDone, ToLoad
    <2>3. \E r : Become(p, r)
      BY <1>4 DEF InstallFails, RepoFails, UpgradeFails, ReconfRefused, Finish, Quit,
         CleanAppRaises, Reconf, RepoUpdated, ConfigureInstalled, UpgradeCleans,
         Validate, Enter, Clean, CleanRaises
    <2> QED BY <1>1, <2>1, <2>2, <2>3
  <1>5. ASSUME ConfRaises(p) PROVE Backed'
    <2>1. ~Busy(co[p])
      BY <1>0, <1>5 DEF ConfRaises, Fit
    <2> QED BY <1>1, <1>5, <2>1 DEF ConfRaises
  <1>6. ASSUME Spawned(p) PROVE Backed'
    BY <1>0, <1>6, SpawnedBacked
  <1>7. ASSUME SpawnFails(p) PROVE Backed'
    <2>1. /\ applist' = [applist EXCEPT ![co[p].id] = FreeSlot] /\ cells' = cells
          /\ Become(p, Idle) /\ co[p].at = "spawn"
      BY <1>7 DEF SpawnFails, Vacate
    <2>2. Busy(co[p]) /\ Only(p) /\ FreeSlot \in Slot /\ FreeSlot.st = "free"
      BY <1>0, <2>1, SpawnBusy, CoIs, SlotsTyped DEF FreeSlot
    <2> QED BY <1>0, <2>1, <2>2, SettledBacked
  <1>8. ASSUME AppLoaded(p) PROVE Backed'
    <2>1. PICK s : s = LoadedSlot(co[p].app, co[p].addr)
      OBVIOUS
    <2>2. s \in Slot /\ s.st = "loaded" /\ s.addr = co[p].addr
      BY <1>0, <2>1, SlotsTyped DEF LoadedSlot, Co
    <2>3. applist' = [applist EXCEPT ![co[p].id] = s] /\ cells' = cells /\ Busy(co[p])
      BY <1>8, <2>1 DEF AppLoaded, Busy
    <2>4. Only(p)
      BY <1>0, <1>8, CoIs DEF AppLoaded
    <2> QED BY <1>0, <2>2, <2>3, <2>4, SettledBacked
  <1>9. ASSUME NEW i \in AppId, CleanApp(p, i) PROVE Backed'
    <2>1. Vacate(i) /\ Exit(i) /\ ~Busy(co[p]) /\ \E r : Become(p, r)
      BY <1>9 DEF CleanApp, InClean, Busy
    <2>2. \A q \in Proc : Goes(q)
      BY <1>0, <2>1, CoIs, OnlyGoes DEF Goes
    <2> QED BY <1>0, <2>1, <2>2, RemoveBacked
  <1>10. ASSUME NEW i \in AppId, LoadApp(p, i) PROVE Backed'
    <2>1. /\ Reserve(p, i, co[p].arg.apps[i], [co[p] EXCEPT !.todo = ToLoad(p) \ {i}])
          /\ i \in ToLoad(p) /\ co[p].arg.kind = "full" /\ cells' = cells
      BY <1>10 DEF LoadApp
    <2>2. /\ Cleaned(p) \/ co[p].at = "apps"
          /\ ToLoad(p) = co[p].todo \/ ToLoad(p) = AppsIn(co[p].arg)
      BY <2>1 DEF ToLoad
    <2>3. ~Busy(co[p])
      BY <2>2 DEF Cleaned, InClean, Busy
    <2>4. ~Present(i)
      BY <1>0, <2>1, <2>2, Filled
    <2>5. co[p].at = "apps" => co[p].todo \subseteq AppsIn(co[p].arg)
      BY <1>0, Filled DEF Sound
    <2>6. ToLoad(p) \subseteq AppId
      BY <2>5 DEF ToLoad, AppsIn
    <2> QED BY <1>2, <2>1, <2>3, <2>4, <2>6 DEF Present, Loaded
  <1>11. ASSUME Reconfigured(p) PROVE Backed'
    <2>1. /\ \/ applist' = applist
             \/ applist' = [applist EXCEPT ![co[p].id].app = co[p].app]
          /\ cells' = cells /\ ~Busy(co[p]) /\ \E r : Become(p, r)
      BY <1>11 DEF Reconfigured, Busy
    <2>2. \A i \in AppId : /\ applist'[i].st = applist[i].st
                           /\ applist'[i].addr = applist[i].addr
      <3> TAKE i \in AppId
      <3>1. applist \in [Elem -> Slot] /\ i \in Elem /\ applist[i] \in Slot
        BY <1>0, Numbers DEF TypeOK
      <3> QED BY <2>1, <3>1 DEF Slot
    <2> QED BY <1>1, <2>1, <2>2
  <1>12. ASSUME NEW k \in PipeId, LoadPipe(p, k) \/ LoadPipeRaises(p, k) PROVE Backed'
    <2> DEFINE s == co[p].arg.pipes[k].apps
    <2>1. s \in Seq(Elem) /\ Len(s) \in 0..Len(s)
      BY <1>0 DEF Co, Config, PipeTable, Pipe
    <2>2. co[p].arg.pipes[k] \in Pipe
      BY <1>0 DEF Co, Config, PipeTable
    <2>3. \A st : [co[p].arg.pipes[k] EXCEPT !.st = st].apps = s
      BY <2>2 DEF Pipe
    <2>4. (\E n \in 0..Len(s) : applist' = WithRoutes(k, s, n)) /\ cells' = cells
      BY <1>12, <2>1, <2>3 DEF LoadPipe, LoadPipeRaises, Reach
    <2>5. k \in ToPipe(p) /\ \E r : Become(p, r)
      BY <1>12 DEF LoadPipe, LoadPipeRaises
    <2>6. ~Busy(co[p])
      BY <2>5 DEF ToPipe, AppsDone, Cleaned, InClean, Busy
    <2> HIDE DEF s
    <2>7. \A e \in Elem : applist'[e].st = applist[e].st /\ applist'[e].addr = applist[e].addr
      BY <1>0, <2>1, <2>4, RoutesStep
    <2> QED BY <1>1, <2>4, <2>5, <2>6, <2>7, Numbers
  <1> QED
    BY <1>3, <1>4, <1>5, <1>6, <1>7, <1>8, <1>9, <1>10, <1>11, <1>12 DEF Resume

LEMMA FreshBacked == Fresh => Backed
  BY SysAppAssumption, Numbers
  DEF Fresh, Backed, Claimed, Sheltered, EmptyList, FreeSlot, Elem

LEMMA AgainBacked == Fresh' => Backed'
  BY FreshBacked, PTL

LEMMA BackedStep ==
    Serial /\ "conf_raises" \notin Faults /\ SInv /\ Backed /\ [Next]_vars => Backed'
  <1> SUFFICES ASSUME Serial, "conf_raises" \notin Faults, SInv, Backed, [Next]_vars
               PROVE  Backed'
    OBVIOUS
  <1>1. CASE UNCHANGED vars
    BY <1>1 DEF vars, Backed, Claimed, Sheltered, Busy, Loaded
  <1>2. ASSUME NEW c \in Client, Command(c) PROVE Backed'
    BY <1>2, CommandBacked
  <1>3. ASSUME NEW p \in Proc, Resume(p) PROVE Backed'
    BY <1>3, ResumeBacked
  <1>4. CASE BootConfigures \/ BootRejects
    <2>1. /\ co[Boot].at = "start" /\ (\E r : Become(Boot, r))
          /\ applist' = applist /\ cells' = cells
      BY <1>4 DEF BootConfigures, BootRejects
    <2>2. ~Busy(co[Boot])
      BY <2>1 DEF Busy
    <2> QED BY <2>1, <2>2, Numbers, CoIs, StillBacked DEF SInv, IInv
  <1>5. CASE SysmgrSaves
    BY <1>5 DEF SysmgrSaves, Backed, Claimed, Sheltered, Busy, Loaded
  <1>6. CASE Restart
    BY <1>6, RestartFresh, AgainBacked
  <1> QED BY <1>1, <1>2, <1>3, <1>4, <1>5, <1>6 DEF Next

\* When maintenance is issued in quiet and no cell raises while it takes its
\* configuration: an id is reserved exactly while one command loads an APP
\* into it (load_app: "to reserve id"), however launches fail.
THEOREM Reserved ==
    ASSUME Serial, "conf_raises" \notin Faults
    PROVE  Spec => []IdReserved
  <1>1. SInv /\ Backed => IdReserved
    <2> SUFFICES ASSUME SInv, Backed PROVE IdReserved
      OBVIOUS
    <2>1. \A p \in Proc : Loading(p) <=> Busy(co[p])
      BY DEF Loading, Busy
    <2>2. TypeOK /\ AllFit /\ Distinct
      BY DEF SInv, IInv, Kept
    <2>3. \A p \in Proc : Busy(co[p]) => applist[co[p].id].st = "reserved"
      BY <2>2, HeldIds
    <2> QED BY <2>1, <2>2, <2>3 DEF IdReserved, Backed, Claimed, Distinct
  <1>2. SInv /\ Backed /\ [Next]_vars => SInv' /\ Backed'
    BY SerialStep, BackedStep
  <1>3. Init => SInv /\ Backed
    BY SerialInit, InitFresh, FreshBacked
  <1> QED BY <1>1, <1>2, <1>3, PTL DEF Spec

\* Under the same conditions every running cell is that of a loaded APP or of
\* an APP being loaded: remove_app and load_app forget none.
THEOREM NoneForgotten ==
    ASSUME Serial, "conf_raises" \notin Faults
    PROVE  Spec => []NoOrphan
  <1>1. Backed => NoOrphan
    BY DEF Backed, Sheltered, NoOrphan, Loading, Busy
  <1>2. SInv /\ Backed /\ [Next]_vars => SInv' /\ Backed'
    BY SerialStep, BackedStep
  <1>3. Init => SInv /\ Backed
    BY SerialInit, InitFresh, FreshBacked
  <1> QED BY <1>1, <1>2, <1>3, PTL DEF Spec

-----------------------------------------------------------------------------
(* Entries and PIPEs *)

\* The coroutine of load_all takes no command.
Booting == co[Boot].kind \in {"none", "boot"}

LEMMA CommandOnly ==
    ASSUME TypeOK, NEW c \in Client, Command(c)
    PROVE  Only(c)
  <1>0. c \in Proc
    BY Numbers
  <1>1. co' = co \/ \E r : Become(c, r)
    BY DEF Command, AppNew, AppNewInstall, Reserve, AppRemove, PipeNew, PipeNewRaises,
       PipeRemove, PipeRemoveRaises, PipeStart, PipeStop, PipeSwitch, Configure, Validate,
       Enter, Clean, CleanRaises, ConfigureRepo, Upgrade
  <1> QED BY <1>0, <1>1, CoIs DEF Only

\* A coroutine goes on with the command it has.
LEMMA ResumeKind ==
    ASSUME TypeOK, Kept, NEW p \in Proc, Resume(p)
    PROVE  /\ Only(p) /\ co[p].at # "idle"
           /\ co'[p] = Idle \/ co'[p].kind = co[p].kind
  <1>0. co[p] \in Co /\ Stage(co[p])
    BY Filled
  <1>1. ASSUME NEW r, Become(p, r), r = Idle \/ r.kind = co[p].kind,
               co[p].at # "idle"
        PROVE  /\ Only(p) /\ co[p].at # "idle"
               /\ co'[p] = Idle \/ co'[p].kind = co[p].kind
    BY <1>1, CoIs
  <1>2. Idle.kind = "none"
    BY DEF Idle
  <1>3. ASSUME \/ AppNewInstalled(p) \/ InstallFails(p) \/ SpawnFails(p)
               \/ ConfRaises(p) \/ RepoFails(p) \/ ReconfRefused(p) \/ UpgradeFails(p)
               \/ Spawned(p) \/ AppLoaded(p) \/ Reconfigured(p)
        PROVE  /\ co[p].at # "idle"
               /\ \E r : Become(p, r) /\ (r = Idle \/ r.kind = co[p].kind)
    <2>1. CASE AppNewInstalled(p)
      <3>1. PICK i : Become(p, [co[p] EXCEPT !.at = "spawn", !.id = i, !.app = co[p].app])
        BY <2>1 DEF AppNewInstalled, Reserve
      <3>2. [co[p] EXCEPT !.at = "spawn", !.id = i, !.app = co[p].app].kind = co[p].kind
        BY <1>0 DEF Co
      <3> QED BY <2>1, <3>1, <3>2 DEF AppNewInstalled
    <2>2. CASE InstallFails(p) \/ ConfRaises(p) \/ RepoFails(p) \/ ReconfRefused(p)
               \/ UpgradeFails(p) \/ SpawnFails(p)
      BY <1>2, <2>2 DEF InstallFails, ConfRaises, RepoFails, ReconfRefused, UpgradeFails, SpawnFails
    <2>3. CASE Spawned(p)
      <3>1. PICK h : Become(p, [co[p] EXCEPT !.at = "conf", !.addr = h])
        BY <2>3 DEF Spawned
      <3>2. [co[p] EXCEPT !.at = "conf", !.addr = h].kind = co[p].kind
        BY <1>0 DEF Co
      <3> QED BY <2>3, <3>1, <3>2 DEF Spawned
    <2>4. CASE AppLoaded(p) \/ Reconfigured(p)
      <3>1. [co[p] EXCEPT !.at = "apps", !.id = 0, !.app = NoApp, !.addr = NoAddr].kind = co[p].kind
        BY <1>0 DEF Co
      <3> QED BY <1>2, <2>4, <3>1 DEF AppLoaded, Reconfigured
    <2> QED BY <1>3, <2>1, <2>2, <2>3, <2>4
  <1>4. ASSUME RepoUpdated(p) \/ ConfigureInstalled(p) \/ UpgradeCleans(p)
        PROVE  /\ co[p].at # "idle"
               /\ \E r : Become(p, r) /\ (r = Idle \/ r.kind = co[p].kind)
    <2>1. ASSUME NEW arg, NEW tpls, NEW hasrepo, Validate(p, arg, tpls, hasrepo)
          PROVE  \E r : Become(p, r) /\ (r = Idle \/ r.kind = "configure")
      <3>1. ASSUME NEW x, x = [Idle EXCEPT !.kind = "configure", !.arg = arg]
            PROVE  /\ [x EXCEPT !.at = "forget"].kind = "configure"
                   /\ [x EXCEPT !.at = "apps", !.todo = AppsIn(arg)].kind = "configure"
        BY <3>1 DEF Idle
      <3>2. \A a : [Idle EXCEPT !.kind = "configure", !.at = "install", !.arg = arg, !.app = a].kind
                   = "configure"
        BY DEF Idle
      <3>3. CASE Enter(p, arg)
        BY <1>2, <3>1, <3>3 DEF Enter, Clean, CleanRaises
      <3> QED BY <1>2, <2>1, <3>2, <3>3 DEF Validate
    <2>2. CASE RepoUpdated(p) \/ ConfigureInstalled(p)
      <3>1. co[p].kind = "configure" /\ co[p].at # "idle"
        <4>1. \/ co[p].at = "repo"
              \/ co[p].kind = "configure" /\ co[p].at = "install"
          BY <2>2 DEF RepoUpdated, ConfigureInstalled
        <4> QED BY <1>0, <4>1 DEF Stage, Co, Kind, Idle
      <3> QED BY <2>1, <2>2, <3>1 DEF RepoUpdated, ConfigureInstalled
    <2>3. CASE UpgradeCleans(p)
      <3>1. [co[p] EXCEPT !.at = "forget"].kind = co[p].kind
        BY <1>0 DEF Co
      <3> QED BY <1>2, <2>3, <3>1 DEF UpgradeCleans, Clean, CleanRaises
    <2> QED BY <1>4, <2>2, <2>3
  <1>5. ASSUME NEW i \in AppId,
               CleanApp(p, i) \/ CleanAppRaises(p, i) \/ LoadApp(p, i) \/ Reconf(p, i)
        PROVE  /\ co[p].at # "idle"
               /\ \E r : Become(p, r) /\ (r = Idle \/ r.kind = co[p].kind)
    <2>1. co[p].at # "idle"
      BY <1>5 DEF CleanApp, CleanAppRaises, LoadApp, Reconf, ToLoad, Cleaned, InClean
    <2>3. CASE CleanApp(p, i)
      <3>1. \A a : [co[p] EXCEPT !.at = "clean", !.todo = a].kind = co[p].kind
        BY <1>0 DEF Co
      <3> QED BY <2>1, <2>3, <3>1 DEF CleanApp
    <2>4. CASE CleanAppRaises(p, i)
      BY <1>2, <2>1, <2>4 DEF CleanAppRaises
    <2>5. CASE LoadApp(p, i)
      <3>1. PICK x : x = [co[p] EXCEPT !.todo = ToLoad(p) \ {i}]
        OBVIOUS
      <3>2. PICK r : r = [x EXCEPT !.at = "spawn", !.id = i, !.app = co[p].arg.apps[i]]
        OBVIOUS
      <3>3. Become(p, r)
        BY <2>5, <3>1, <3>2 DEF LoadApp, Reserve
      <3>4. r.kind = co[p].kind
        BY <1>0, <3>1, <3>2 DEF Co
      <3> QED BY <2>1, <3>3, <3>4
    <2>6. CASE Reconf(p, i)
      <3>1. PICK a : a = [tpl |-> applist[i].app.tpl, conf |-> co[p].arg.apps[i].conf]
        OBVIOUS
      <3>2. PICK r : r = [co[p] EXCEPT !.at = "conf", !.todo = ToLoad(p) \ {i}, !.id = i,
                                       !.addr = applist[i].addr, !.app = a]
        OBVIOUS
      <3>3. Become(p, r) \/ Become(p, Idle)
        BY <2>6, <3>1, <3>2 DEF Reconf
      <3>4. r.kind = co[p].kind
        BY <1>0, <3>2 DEF Co
      <3> QED BY <1>2, <2>1, <3>3, <3>4
    <2> QED BY <1>5, <2>3, <2>4, <2>5, <2>6
  <1>6. ASSUME NEW k \in PipeId, LoadPipe(p, k) \/ LoadPipeRaises(p, k)
        PROVE  /\ co[p].at # "idle"
               /\ \E r : Become(p, r) /\ (r = Idle \/ r.kind = co[p].kind)
    <2>1. co[p].at # "idle"
      BY <1>6 DEF LoadPipe, LoadPipeRaises, ToPipe, AppsDone, Cleaned, InClean
    <2>2. \A a : [co[p] EXCEPT !.at = "pipes", !.todo = a].kind = co[p].kind
      BY <1>0 DEF Co
    <2> QED BY <1>2, <1>6, <2>1, <2>2 DEF LoadPipe, LoadPipeRaises
  <1>7. ASSUME Finish(p) \/ Quit(p)
        PROVE  /\ co[p].at # "idle"
               /\ \E r : Become(p, r) /\ (r = Idle \/ r.kind = co[p].kind)
    <2>1. [Idle EXCEPT !.kind = "upgrade", !.at = "quit"].kind = "upgrade"
      BY DEF Idle
    <2> QED BY <1>7, <2>1 DEF Finish, Quit, AppsDone, Cleaned, InClean
  <1>8. /\ co[p].at # "idle"
        /\ \E r : Become(p, r) /\ (r = Idle \/ r.kind = co[p].kind)
    BY <1>3, <1>4, <1>5, <1>6, <1>7 DEF Resume
  <1> QED BY <1>1, <1>8

LEMMA BootingStep == SInv /\ Booting /\ [Next]_vars => Booting'
  <1> SUFFICES ASSUME SInv, Booting, [Next]_vars PROVE Booting'
    OBVIOUS
  <1>0. TypeOK /\ Kept /\ Boot \in Proc
    BY Numbers DEF SInv, IInv
  <1>1. ASSUME NEW c \in Client, Command(c) PROVE Booting'
    BY <1>0, <1>1, CommandOnly, ProcAssumption DEF Booting, Only
  <1>2. ASSUME NEW p \in Proc, Resume(p) PROVE Booting'
    <2>1. Only(p) /\ (co'[p] = Idle \/ co'[p].kind = co[p].kind)
      BY <1>0, <1>2, ResumeKind
    <2> QED BY <1>0, <2>1 DEF Booting, Only, Idle
  <1>3. CASE BootConfigures
    <2>1. PICK total : Become(Boot, [Idle EXCEPT !.kind = "boot", !.at = "apps",
                                                 !.arg = total, !.todo = AppsIn(total)])
      BY <1>3 DEF BootConfigures
    <2>2. PICK r : r = [Idle EXCEPT !.kind = "boot", !.at = "apps",
                                    !.arg = total, !.todo = AppsIn(total)]
      OBVIOUS
    <2>3. r.kind = "boot" /\ co'[Boot] = r
      BY <1>0, <2>1, <2>2, CoIs DEF Idle
    <2> QED BY <2>3 DEF Booting
  <1>4. CASE BootRejects
    BY <1>0, <1>4, CoIs DEF BootRejects, Booting, Idle
  <1>5. CASE Restart
    BY <1>0, <1>5 DEF Restart, Booting, Idle
  <1> QED BY <1>1, <1>2, <1>3, <1>4, <1>5 DEF Next, vars, SysmgrSaves, Booting

LEMMA InitBooting == Init => Booting
  BY Numbers DEF Init, Booting, Idle

\* A maintained gateway boots alone; otherwise load_all is over.
LEMMA BootIdle ==
    ASSUME TypeOK, AllFit, Booting, ~Maintaining(Boot)
    PROVE  co[Boot] = Idle
  BY Numbers DEF AllFit, Fit, Stage, Booting, Maintaining
-----------------------------------------------------------------------------

Listed == \A i \in AppId, k \in PipeId :
    applist[i].route[k].has => HasPipe(k) /\ i \in Members(pipelist[k].apps)
Bare == \A i \in AppId : ~Loaded(i) => applist[i].route = NoRoutes
Emptying(r) == Cleaning(r) \/ r.at = "upgrade"
Guarded == \A p \in Proc : Emptying(co[p]) => locked
Tidy == Bare /\ Guarded /\ (Listed \/ \E p \in Proc : Cleaning(co[p]))
-----------------------------------------------------------------------------
(* What a step does to the entries *)

LEMMA Blank == \A k \in PipeId : ~NoRoutes[k].has
  BY DEF NoRoutes, NoRoute

LEMMA SameListed ==
    ASSUME \A i \in AppId : /\ applist'[i].st = applist[i].st
                            /\ applist'[i].route = applist[i].route
    PROVE  /\ Bare => Bare'
           /\ Listed /\ pipelist' = pipelist => Listed'
  BY DEF Bare, Listed, Loaded, HasPipe

\* A slot is emptied, reserved or loaded: without entries.
LEMMA SlotListed ==
    ASSUME TypeOK, NEW i \in AppId, NEW s, s.route = NoRoutes,
           applist' = [applist EXCEPT ![i] = s]
    PROVE  /\ Bare => Bare'
           /\ Listed /\ pipelist' = pipelist => Listed'
  <1>1. /\ applist'[i] = s
        /\ \A j \in AppId : j # i => applist'[j] = applist[j]
    BY Numbers DEF TypeOK
  <1>2. Bare => Bare'
    BY <1>1 DEF Bare, Loaded
  <1>3. Listed /\ pipelist' = pipelist => Listed'
    BY <1>1, Blank DEF Listed, HasPipe
  <1> QED BY <1>2, <1>3

LEMMA RouteEntries ==
    ASSUME TypeOK, NEW k \in PipeId, NEW s \in Seq(Elem), NEW n \in 0..Len(s),
           applist' = WithRoutes(k, s, n) \/ applist' = WithoutRoutes(k, s, n),
           NEW e \in Elem
    PROVE  /\ applist'[e].st = applist[e].st
           /\ \A j \in PipeId \ {k} : applist'[e].route[j] = applist[e].route[j]
           /\ e \notin {s[i] : i \in 1..n} => applist'[e] = applist[e]
           /\ applist' = WithoutRoutes(k, s, n) /\ e \in {s[i] : i \in 1..n}
                  => applist'[e].route[k] = NoRoute
  <1>1. applist'[e].st = applist[e].st
        /\ \A j \in PipeId \ {k} : applist'[e].route[j] = applist[e].route[j]
    BY RoutesMade
  <1>2. e \notin {s[i] : i \in 1..n} => applist'[e] = applist[e]
    <2>1. CASE applist' = WithRoutes(k, s, n)
      BY <2>1, Zenon DEF WithRoutes
    <2>2. CASE applist' = WithoutRoutes(k, s, n)
      BY <2>2, Zenon DEF WithoutRoutes
    <2> QED BY <2>1, <2>2
  <1>3. ASSUME applist' = WithoutRoutes(k, s, n), e \in {s[i] : i \in 1..n}
        PROVE  applist'[e].route[k] = NoRoute
    <2>1. applist'[e] = [applist[e] EXCEPT !.route[k] = NoRoute]
      BY <1>3, Zenon DEF WithoutRoutes
    <2>2. applist[e] \in Slot
      BY DEF TypeOK
    <2> QED BY <2>1, <2>2 DEF Slot
  <1> QED BY <1>1, <1>2, <1>3

\* Entries are written for APPs that are loaded.
LEMMA RoutesBare ==
    ASSUME TypeOK, Bare, NEW k \in PipeId, NEW s \in Seq(Elem), NEW n \in 0..Len(s),
           applist' = WithRoutes(k, s, n) \/ applist' = WithoutRoutes(k, s, n),
           \A i \in 1..n : Loaded(s[i])
    PROVE  Bare'
  <1> SUFFICES ASSUME NEW i \in AppId, ~Loaded(i)' PROVE applist'[i].route = NoRoutes
    BY DEF Bare
  <1>1. i \in Elem
    BY Numbers
  <1>2. applist'[i].st = applist[i].st
        /\ (i \notin {s[j] : j \in 1..n} => applist'[i] = applist[i])
    BY <1>1, RouteEntries
  <1>3. ~Loaded(i)
    BY <1>2 DEF Loaded
  <1>4. i \notin {s[j] : j \in 1..n}
    BY <1>3
  <1> QED BY <1>2, <1>3, <1>4 DEF Bare

LEMMA EnteredListed ==
    ASSUME TypeOK, Bare, NEW k \in PipeId, ~HasPipe(k), NEW new \in Pipe, new.st # "none",
           Whole(new.apps), applist' = WithRoutes(k, new.apps, Len(new.apps)),
           pipelist' = [pipelist EXCEPT ![k] = new]
    PROVE  Bare' /\ (Listed => Listed')
  <1>1. PICK s \in Seq(Elem) : s = new.apps /\ Len(s) \in 0..Len(s)
    BY DEF Pipe
  <1>0. applist' = WithRoutes(k, s, Len(s)) /\ Whole(s)
    BY <1>1
  <1>2. Bare'
    BY <1>0, <1>1, RoutesBare DEF Whole
  <1>3. pipelist'[k] = new /\ \A j \in PipeId \ {k} : pipelist'[j] = pipelist[j]
    BY DEF TypeOK, PipeTable
  <1>4. ASSUME Listed, NEW i \in AppId, NEW j \in PipeId, applist'[i].route[j].has
        PROVE  HasPipe(j)' /\ i \in Members(pipelist'[j].apps)
    <2>0. i \in Elem /\ Members(s) = {s[m] : m \in 1..Len(s)}
      BY Numbers DEF Members
    <2>1. /\ j # k => applist'[i].route[j] = applist[i].route[j]
          /\ i \notin Members(s) => applist'[i] = applist[i]
      BY <1>0, <1>1, <2>0, RouteEntries
    <2>2. CASE j = k
      <3>1. i \in Members(s)
        BY <1>4, <2>1, <2>2 DEF Listed
      <3> QED BY <1>1, <1>3, <2>2, <3>1 DEF HasPipe
    <2>3. CASE j # k
      BY <1>3, <1>4, <2>1, <2>3 DEF Listed, HasPipe
    <2> QED BY <2>2, <2>3
  <1> QED BY <1>2, <1>4 DEF Listed

LEMMA RemovedListed ==
    ASSUME TypeOK, Bare, NEW k \in PipeId, Whole(pipelist[k].apps),
           applist' = WithoutRoutes(k, pipelist[k].apps, Len(pipelist[k].apps)),
           pipelist' = [pipelist EXCEPT ![k] = NoPipe]
    PROVE  Bare' /\ (Listed => Listed')
  <1>1. PICK s \in Seq(Elem) : s = pipelist[k].apps
    BY DEF TypeOK, PipeTable, Pipe
  <1>2. Len(s) \in 0..Len(s)
    OBVIOUS
  <1>3. applist' = WithoutRoutes(k, s, Len(s)) /\ \A i \in 1..Len(s) : Loaded(s[i])
    BY <1>1 DEF Whole
  <1>4. Bare'
    BY <1>2, <1>3, RoutesBare
  <1>5. \A j \in PipeId \ {k} : pipelist'[j] = pipelist[j]
    BY DEF TypeOK, PipeTable
  <1>6. ASSUME Listed, NEW i \in AppId, NEW j \in PipeId, applist'[i].route[j].has
        PROVE  HasPipe(j)' /\ i \in Members(pipelist'[j].apps)
    <2>0. i \in Elem /\ Members(s) = {s[m] : m \in 1..Len(s)}
      BY Numbers DEF Members
    <2>1. /\ j # k => applist'[i].route[j] = applist[i].route[j]
          /\ i \notin Members(s) => applist'[i] = applist[i]
          /\ i \in Members(s) => applist'[i].route[k] = NoRoute
      BY <1>2, <1>3, <2>0, RouteEntries
    <2>2. j # k
      <3> SUFFICES ASSUME j = k PROVE FALSE
        OBVIOUS
      <3>1. i \notin Members(s)
        BY <1>6, <2>1 DEF NoRoute
      <3>2. i \in Members(pipelist[k].apps)
        BY <1>6, <2>1, <3>1 DEF Listed
      <3> QED BY <1>1, <3>1, <3>2
    <2> QED BY <1>5, <1>6, <2>1, <2>2 DEF Listed, HasPipe
  <1> QED BY <1>4, <1>6 DEF Listed

LEMMA SwitchListed ==
    ASSUME TypeOK, Bare, NEW k \in PipeId, HasPipe(k), NEW st \in {"stopped", "started"},
           applist' = applist, pipelist' = [pipelist EXCEPT ![k].st = st]
    PROVE  Bare' /\ (Listed => Listed')
  <1>1. \A j \in PipeId : pipelist'[j].apps = pipelist[j].apps /\ (HasPipe(j)' <=> HasPipe(j))
    BY DEF TypeOK, PipeTable, Pipe, HasPipe
  <1> QED BY <1>1 DEF Bare, Listed, Loaded

\* When clean is over no entry is left.
LEMMA CleanedListed ==
    ASSUME TypeOK, Kept, Bare, NEW p \in Proc, Cleaned(p)
    PROVE  Listed
  <1>1. \A i \in AppId : ~Loaded(i)
    BY Filled DEF Cleaned, Present, Loaded
  <1> QED BY <1>1, Blank DEF Bare, Listed
-----------------------------------------------------------------------------

\* The step of a coroutine, the others not being in a clean or an upgrade.
LEMMA GuardStep ==
    ASSUME NEW p \in Proc, Only(p), \A q \in Proc \ {p} : ~Emptying(co[q]),
           Emptying(co[p])' => locked'
    PROVE  Guarded'
  BY DEF Guarded, Only, Emptying, Cleaning

LEMMA OthersOff ==
    ASSUME TypeOK, Alone, AllFit, NEW p \in Proc, co[p].at # "idle"
    PROVE  \A q \in Proc \ {p} : ~Emptying(co[q]) /\ ~Cleaning(co[q])
  <1>1. CASE \A q \in Proc \ {p} : co[q] = Idle
    BY <1>1 DEF Emptying, Cleaning, Idle
  <1>2. CASE \A q \in Proc : ~Maintaining(q)
    <2>1. \A q \in Proc : co[q] \in Co /\ Stage(co[q])
      BY DEF TypeOK, AllFit, Fit
    <2> QED BY <1>2, <2>1 DEF Emptying, Cleaning, Stage, Co, Kind, Maintaining, Idle
  <1> QED BY <1>1, <1>2, Working

\* A coroutine that does not clean: what it makes of the tables decides.
LEMMA TidyStep ==
    ASSUME TypeOK, Kept, NEW p \in Proc, co[p].at # "idle", Only(p), Bare',
           Emptying(co[p])' => locked', Listed' \/ Cleaning(co[p])'
    PROVE  Tidy'
  <1>1. Guarded'
    BY OthersOff, GuardStep DEF Kept
  <1> QED BY <1>1 DEF Tidy

LEMMA CleanTidy ==
    ASSUME TypeOK, Rooted, NEW p \in Proc, NEW r \in Co, Clean(p, r) \/ CleanRaises(p)
    PROVE  Cleaning(co[p])' /\ Only(p)
  <1>1. Clean(p, r)
    BY DEF CleanRaises, Rooted, PipesRouted
  <1>2. PICK x : x = [r EXCEPT !.at = "forget"]
    OBVIOUS
  <1>3. x.at = "forget" /\ co'[p] = x /\ Only(p)
    BY <1>1, <1>2, CoIs DEF Clean, Co
  <1> QED BY <1>3 DEF Cleaning

LEMMA ValidateTidy ==
    ASSUME TypeOK, Rooted, NEW p \in Proc, NEW arg \in Config, NEW tpls, NEW hasrepo,
           Validate(p, arg, tpls, hasrepo)
    PROVE  /\ Only(p)
           /\ \/ Cleaning(co[p])' /\ locked' = TRUE
              \/ ~Emptying(co[p])' /\ pipelist' = pipelist
  <1> DEFINE x == [Idle EXCEPT !.kind = "configure", !.arg = arg]
  <1>1. x \in Co
    BY IdleTyped DEF Co, Kind
  <1>2. ASSUME NEW r, Become(p, r), r.at \in {"idle", "install", "apps"}
        PROVE  Only(p) /\ ~Emptying(co[p])'
    BY <1>2, CoIs DEF Emptying, Cleaning
  <1>3. Idle.at = "idle" /\ [x EXCEPT !.at = "apps", !.todo = AppsIn(arg)].at = "apps"
    BY DEF Idle
  <1>4. \A a : [Idle EXCEPT !.kind = "configure", !.at = "install", !.arg = arg, !.app = a].at
               = "install"
    BY DEF Idle
  <1>5. CASE Enter(p, arg)
    <2>1. CASE Clean(p, x) \/ CleanRaises(p)
      BY <1>1, <1>5, <2>1, CleanTidy DEF Enter
    <2>2. CASE Become(p, [x EXCEPT !.at = "apps", !.todo = AppsIn(arg)]) /\ pipelist' = pipelist
      BY <1>2, <1>3, <2>2
    <2>3. CASE Become(p, Idle) /\ pipelist' = pipelist
      BY <1>2, <1>3, <2>3
    <2> QED BY <1>5, <2>1, <2>2, <2>3 DEF Enter
  <1>6. CASE /\ \E i \in Missing(arg, tpls) :
                    Become(p, [Idle EXCEPT !.kind = "configure", !.at = "install",
                                           !.arg = arg, !.app = arg.apps[i]])
             /\ pipelist' = pipelist
    BY <1>2, <1>4, <1>6
  <1>7. CASE Become(p, Idle) /\ pipelist' = pipelist
    BY <1>2, <1>3, <1>7
  <1> QED BY <1>5, <1>6, <1>7 DEF Validate

\* Nothing is reserved while no command loads: pipe_new does not raise.
LEMMA NoneRaises ==
    ASSUME Serial, \A p, q \in Client : p = q, SInv, Backed, Booting,
           NEW c \in Client, NEW k \in PipeId, NEW arg \in PipeArgs
    PROVE  ~PipeNewRaises(c, k, arg)
  <1> SUFFICES ASSUME PipeNewRaises(c, k, arg) PROVE FALSE
    OBVIOUS
  <1>1. co[c] = Idle /\ \A q \in Proc : ~Maintaining(q)
    BY OpenCommand DEF PipeNewRaises
  <1>2. \A q \in Client : co[q] = Idle
    BY <1>1
  <1>4. co[Boot] = Idle
    BY <1>1, Numbers, BootIdle DEF SInv, IInv, Kept
  <1>5. \A q \in Proc : ~Busy(co[q])
    BY <1>2, <1>4 DEF Proc, Busy, Idle
  <1>6. PICK i \in 1..Len(arg.apps) : ~Loaded(arg.apps[i])
    BY DEF PipeNewRaises, Whole
  <1>7. arg.apps \in Seq(Elem)
    BY ArgAssumption DEF PipeArg
  <1>8. arg.apps[i] \in Elem /\ Present(arg.apps[i])
    BY <1>7 DEF PipeNewRaises, Members
  <1>9. arg.apps[i] \in AppId
    BY <1>6, <1>8 DEF SInv, Kept, Rooted, SysKept, Loaded, Elem
  <1>10. applist[arg.apps[i]].st = "reserved"
    BY <1>6, <1>8 DEF SInv, IInv, TypeOK, Slot, Present, Loaded
  <1> QED BY <1>5, <1>9, <1>10 DEF Backed, Claimed

-----------------------------------------------------------------------------
(* Entries and PIPEs: every step *)

LEMMA CommandTidy ==
    ASSUME Serial, \A p, q \in Client : p = q, SInv, Backed, Booting, Tidy,
           NEW c \in Client, Command(c)
    PROVE  Tidy'
  <1>0. /\ c \in Proc /\ c # Boot /\ Boot \in Proc
        /\ TypeOK /\ Kept /\ Rooted /\ Bare /\ Guarded
    BY Numbers, ProcAssumption DEF SInv, IInv, Kept, Tidy
  <1>1. ~locked
    BY DEF Command, AppNew, AppNewInstall, AppRemove, PipeNew, PipeNewRaises, PipeRemove,
       PipeRemoveRaises, PipeStart, PipeStop, PipeSwitch, Configure, ConfigureRepo, Upgrade,
       Ordinary, Special
  <1>2. Listed /\ \A q \in Proc : ~Emptying(co[q])
    BY <1>0, <1>1 DEF Tidy, Guarded, Emptying
  <1>3. ASSUME Bare', Listed' \/ Cleaning(co[c])', Only(c), Emptying(co[c])' => locked'
        PROVE  Tidy'
    <2>1. Guarded'
      BY <1>0, <1>2, <1>3, GuardStep
    <2> QED BY <1>0, <1>3, <2>1 DEF Tidy
  <1>4. ASSUME Bare', Listed', co' = co PROVE Tidy'
    BY <1>0, <1>2, <1>3, <1>4 DEF Only, Emptying, Cleaning
  <1>5. ASSUME NEW r, Become(c, r), r.at \notin {"forget", "clean", "upgrade"} \/ locked',
               Bare', Listed'
        PROVE  Tidy'
    BY <1>0, <1>3, <1>5, CoIs DEF Emptying, Cleaning
  <1>6. ASSUME NEW a \in App, AppNew(c, a) PROVE Tidy'
    <2>1. PICK x : x = [Idle EXCEPT !.kind = "app_new"]
      OBVIOUS
    <2>2. PICK i \in NewAppId : Reserve(c, i, a, x)
      BY <1>6, <2>1 DEF AppNew
    <2>3. PICK r : r = [x EXCEPT !.at = "spawn", !.id = i, !.app = a]
      OBVIOUS
    <2>4. r.at = "spawn" /\ Become(c, r)
      BY <2>1, <2>2, <2>3 DEF Reserve, Idle
    <2>5. i \in AppId /\ applist' = [applist EXCEPT ![i] = ReservedSlot] /\ pipelist' = pipelist
          /\ ReservedSlot.route = NoRoutes
      BY <1>6, <2>2 DEF NewAppId, Reserve, AppNew, ReservedSlot, FreeSlot
    <2>6. Bare' /\ Listed'
      BY <1>0, <1>2, <2>5, SlotListed
    <2> QED BY <1>5, <2>4, <2>6
  <1>7. ASSUME \/ \E a \in App : AppNewInstall(c, a)
               \/ \E arg \in ConfigArgs : ConfigureRepo(c, arg)
               \/ Upgrade(c)
        PROVE  Tidy'
    <2>1. Bare' /\ Listed'
      BY <1>0, <1>2, <1>7, SameListed DEF AppNewInstall, ConfigureRepo, Upgrade
    <2>2. \A a : /\ [Idle EXCEPT !.kind = "app_new", !.at = "install", !.app = a].at = "install"
                 /\ [Idle EXCEPT !.kind = "configure", !.at = "repo", !.arg = a].at = "repo"
      BY DEF Idle
    <2>3. CASE \E a \in App : AppNewInstall(c, a)
      BY <1>5, <2>1, <2>2, <2>3 DEF AppNewInstall
    <2>4. CASE \E arg \in ConfigArgs : ConfigureRepo(c, arg)
      BY <1>5, <2>1, <2>2, <2>4 DEF ConfigureRepo
    <2>5. CASE Upgrade(c)
      BY <1>5, <2>1, <2>5 DEF Upgrade
    <2> QED BY <1>7, <2>3, <2>4, <2>5
  <1>8. ASSUME NEW i \in AppId, AppRemove(c, i) PROVE Tidy'
    <2>1. FreeSlot.route = NoRoutes
      BY DEF FreeSlot
    <2>2. Bare' /\ Listed'
      BY <1>0, <1>2, <1>8, <2>1, SlotListed DEF AppRemove, Vacate
    <2> QED BY <1>4, <1>8, <2>2 DEF AppRemove
  <1>9. ASSUME NEW k \in PipeId, NEW arg \in PipeArgs, PipeNew(c, k, arg) PROVE Tidy'
    <2>1. PICK new : new = [st |-> TryStart(arg.auto), apps |-> arg.apps]
      OBVIOUS
    <2>2. arg.apps \in Seq(Elem)
      BY ArgAssumption DEF PipeArg
    <2>3. new \in Pipe /\ new.st # "none" /\ new.apps = arg.apps
      BY <2>1, <2>2 DEF Pipe, PipeState, TryStart
    <2>4. /\ applist' = WithRoutes(k, new.apps, Len(new.apps)) /\ Whole(new.apps)
          /\ pipelist' = [pipelist EXCEPT ![k] = new] /\ ~HasPipe(k) /\ co' = co
      BY <1>9, <2>1, <2>3 DEF PipeNew, NewPipeId
    <2> QED BY <1>0, <1>2, <1>4, <2>3, <2>4, EnteredListed
  <1>10. ASSUME NEW k \in PipeId, PipeRemove(c, k) PROVE Tidy'
    BY <1>0, <1>2, <1>4, <1>10, RemovedListed DEF PipeRemove
  <1>11. ASSUME NEW k \in PipeId, PipeRemoveRaises(c, k) PROVE Tidy'
    <2>1. HasPipe(k) /\ ~Whole(pipelist[k].apps)
      BY <1>11 DEF PipeRemoveRaises, HasPipe
    <2> QED BY <1>0, <2>1 DEF Rooted, PipesRouted, Routed, Whole, Members
  <1>12. ASSUME NEW k \in PipeId, PipeStart(c, k) \/ PipeStop(c, k) PROVE Tidy'
    <2>1. PICK cmd \in {"pipe_start", "pipe_stop"}, from, to \in {"stopped", "started"} :
              PipeSwitch(c, cmd, k, from, to)
      BY <1>12 DEF PipeStart, PipeStop
    <2>2. /\ HasPipe(k) /\ applist' = applist /\ pipelist' = [pipelist EXCEPT ![k].st = to]
          /\ co' = co
      BY <2>1 DEF PipeSwitch, HasPipe
    <2> QED BY <1>0, <1>2, <1>4, <2>2, SwitchListed
  <1>13. ASSUME NEW arg \in ConfigArgs, Configure(c, arg) PROVE Tidy'
    <2>1. arg \in Config /\ Validate(c, arg, tpllist, repo) /\ applist' = applist
      BY <1>13, ArgAssumption DEF Configure
    <2>2. Only(c) /\ (\/ Cleaning(co[c])' /\ locked' = TRUE
                      \/ ~Emptying(co[c])' /\ pipelist' = pipelist)
      BY <1>0, <2>1, ValidateTidy
    <2>3. Bare' /\ (pipelist' = pipelist => Listed')
      BY <1>0, <1>2, <2>1, SameListed
    <2> QED BY <1>3, <2>2, <2>3
  <1>14. \A k \in PipeId, arg \in PipeArgs : ~PipeNewRaises(c, k, arg)
    BY NoneRaises
  <1> QED
    BY <1>6, <1>7, <1>8, <1>9, <1>10, <1>11, <1>12, <1>13, <1>14 DEF Command

LEMMA ResumeTidy ==
    ASSUME SInv, Backed, Tidy, NEW p \in Proc, Resume(p)
    PROVE  Tidy'
  <1>0. /\ TypeOK /\ Kept /\ Rooted /\ Alone /\ AllFit /\ Bare /\ Guarded
        /\ co[p] \in Co /\ Fit(co[p]) /\ Stage(co[p])
    BY Filled DEF SInv, IInv, Kept, Tidy
  <1>1. Only(p) /\ co[p].at # "idle"
    BY <1>0, ResumeKind
  <1>2. Listed \/ Cleaning(co[p])
    BY <1>0, <1>1, OthersOff DEF Tidy
  <1>3. ASSUME Bare', Listed' \/ Cleaning(co[p])', Emptying(co[p])' => locked'
        PROVE  Tidy'
    BY <1>0, <1>1, <1>3, TidyStep
  <1>4. ASSUME NEW r, Become(p, r), r.at \notin {"forget", "clean", "upgrade"}, Bare', Listed'
        PROVE  Tidy'
    BY <1>0, <1>3, <1>4, CoIs DEF Emptying, Cleaning
  <1>5. ASSUME Cleaned(p) \/ ~Cleaning(co[p]) PROVE Listed
    BY <1>0, <1>2, <1>5, CleanedListed
  <1>6. Idle.at = "idle"
    BY DEF Idle
  <1>7. FreeSlot.route = NoRoutes /\ ReservedSlot.route = NoRoutes
        /\ \A a, h : LoadedSlot(a, h).route = NoRoutes
    BY DEF FreeSlot, ReservedSlot, LoadedSlot
  <1>8. ASSUME Cleaned(p) \/ ~Cleaning(co[p]), NEW i \in AppId, NEW a, NEW x \in Co,
               Reserve(p, i, a, x), pipelist' = pipelist
        PROVE  Tidy'
    <2>1. PICK r : r = [x EXCEPT !.at = "spawn", !.id = i, !.app = a]
      OBVIOUS
    <2>2. r.at = "spawn" /\ Become(p, r) /\ applist' = [applist EXCEPT ![i] = ReservedSlot]
      BY <1>8, <2>1 DEF Reserve, Co
    <2>3. Bare' /\ Listed'
      BY <1>0, <1>5, <1>7, <1>8, <2>2, SlotListed
    <2> QED BY <1>4, <2>2, <2>3
  <1>9. ASSUME AppNewInstalled(p) PROVE Tidy'
    <2>1. PICK i \in NewAppId : Reserve(p, i, co[p].app, co[p])
      BY <1>9 DEF AppNewInstalled
    <2>2. i \in AppId /\ ~Cleaning(co[p]) /\ pipelist' = pipelist
      BY <1>9 DEF NewAppId, AppNewInstalled, Cleaning
    <2> QED BY <1>0, <1>8, <2>1, <2>2
  <1>10. ASSUME \/ InstallFails(p) \/ ConfRaises(p) \/ RepoFails(p) \/ UpgradeFails(p)
                \/ ReconfRefused(p) \/ Finish(p)
         PROVE  Tidy'
    <2>1. UNCHANGED <<applist, pipelist>> /\ Become(p, Idle)
      BY <1>10 DEF InstallFails, ConfRaises, RepoFails, UpgradeFails, ReconfRefused, Finish
    <2>2. Cleaned(p) \/ ~Cleaning(co[p])
      BY <1>10 DEF InstallFails, ConfRaises, RepoFails, UpgradeFails, ReconfRefused, Finish,
         AppsDone, Cleaning
    <2>3. Bare' /\ Listed'
      BY <1>0, <1>5, <2>1, <2>2, SameListed
    <2> QED BY <1>4, <1>6, <2>1, <2>3
  <1>11. ASSUME NEW i \in AppId, CleanAppRaises(p, i) PROVE Tidy'
    <2>1. /\ co[p].at \in {"forget", "clean"} /\ applist[i].st = "reserved"
          /\ co[p].kind \in {"configure", "upgrade"}
      <3>1. co[p].at \in {"forget", "clean"} /\ Present(i) /\ ~Loaded(i)
        BY <1>11 DEF CleanAppRaises, InClean
      <3>2. applist[i].st \in {"free", "reserved", "loaded"}
        BY <1>0, Numbers DEF TypeOK, Slot
      <3> QED BY <1>0, <3>1, <3>2 DEF Present, Loaded, Stage, Co, Kind, Idle
    <2>2. PICK q \in Proc : Busy(co[q])
      BY <2>1 DEF Backed, Claimed
    <2>3. q # p /\ co[q] # Idle
      BY <2>1, <2>2, IdleFit DEF Busy
    <2> QED BY <1>0, <2>1, <2>3 DEF Alone, Maintaining
  <1>12. ASSUME Spawned(p) PROVE Tidy'
    <2>1. PICK h : Become(p, [co[p] EXCEPT !.at = "conf", !.addr = h])
      BY <1>12 DEF Spawned
    <2>2. [co[p] EXCEPT !.at = "conf", !.addr = h].at = "conf"
      BY <1>0 DEF Co
    <2>3. UNCHANGED <<applist, pipelist>> /\ ~Cleaning(co[p])
      BY <1>12 DEF Spawned, Cleaning
    <2>4. Bare' /\ Listed'
      BY <1>0, <1>5, <2>3, SameListed
    <2> QED BY <1>4, <2>1, <2>2, <2>4
  <1>13. ASSUME SpawnFails(p) PROVE Tidy'
    <2>1. /\ applist' = [applist EXCEPT ![co[p].id] = FreeSlot] /\ pipelist' = pipelist
          /\ Become(p, Idle) /\ co[p].at = "spawn"
      BY <1>13 DEF SpawnFails, Vacate
    <2>2. Busy(co[p]) /\ ~Cleaning(co[p])
      BY <1>0, <2>1, SpawnBusy DEF Cleaning
    <2>3. co[p].id \in AppId
      BY <1>0, <2>2, HeldIds DEF Kept
    <2>4. Bare' /\ Listed'
      BY <1>0, <1>5, <1>7, <2>1, <2>2, <2>3, SlotListed
    <2> QED BY <1>4, <1>6, <2>1, <2>4
  <1>14. [co[p] EXCEPT !.at = "apps", !.id = 0, !.app = NoApp, !.addr = NoAddr].at = "apps"
    BY <1>0 DEF Co
  <1>15. ASSUME AppLoaded(p) PROVE Tidy'
    <2>1. /\ applist' = [applist EXCEPT ![co[p].id] = LoadedSlot(co[p].app, co[p].addr)]
          /\ pipelist' = pipelist /\ Busy(co[p]) /\ ~Cleaning(co[p])
      BY <1>15 DEF AppLoaded, Busy, Cleaning
    <2>2. co[p].id \in AppId
      BY <1>0, <2>1, HeldIds DEF Kept
    <2>3. Bare' /\ Listed'
      BY <1>0, <1>5, <1>7, <2>1, <2>2, SlotListed
    <2> QED BY <1>4, <1>6, <1>14, <1>15, <2>3 DEF AppLoaded
  <1>16. ASSUME RepoUpdated(p) \/ ConfigureInstalled(p) PROVE Tidy'
    <2>1. PICK tpls, hasrepo : Validate(p, co[p].arg, tpls, hasrepo)
      BY <1>16 DEF RepoUpdated, ConfigureInstalled
    <2>2. applist' = applist /\ ~Cleaning(co[p]) /\ co[p].arg \in Config
      BY <1>0, <1>16 DEF RepoUpdated, ConfigureInstalled, Cleaning, Co
    <2>3. \/ Cleaning(co[p])' /\ locked' = TRUE
          \/ ~Emptying(co[p])' /\ pipelist' = pipelist
      BY <1>0, <2>1, <2>2, ValidateTidy
    <2>4. Bare' /\ (pipelist' = pipelist => Listed')
      BY <1>0, <1>5, <2>2, SameListed
    <2> QED BY <1>3, <2>3, <2>4
  <1>17. ASSUME NEW i \in AppId, CleanApp(p, i) PROVE Tidy'
    <2>1. PICK r : r = [co[p] EXCEPT !.at = "clean", !.todo = ToClean(p) \ {i}]
      OBVIOUS
    <2>2. r.at = "clean" /\ co'[p] = r
      BY <1>0, <1>17, <2>1, CoIs DEF CleanApp, Co
    <2>3. locked' = locked /\ Emptying(co[p]) /\ applist' = [applist EXCEPT ![i] = FreeSlot]
      BY <1>17 DEF CleanApp, InClean, Emptying, Cleaning, Vacate
    <2>4. locked' /\ Bare'
      BY <1>0, <1>7, <2>3, SlotListed DEF Guarded
    <2> QED BY <1>3, <2>2, <2>4 DEF Cleaning
  <1>18. ASSUME NEW i \in AppId, LoadApp(p, i) PROVE Tidy'
    <2>1. PICK x : x = [co[p] EXCEPT !.todo = ToLoad(p) \ {i}]
      OBVIOUS
    <2>2. /\ Reserve(p, i, co[p].arg.apps[i], x) /\ pipelist' = pipelist
          /\ i \in ToLoad(p) /\ co[p].arg.kind = "full"
      BY <1>18, <2>1 DEF LoadApp
    <2>3. /\ Cleaned(p) \/ co[p].at = "apps"
          /\ ToLoad(p) = co[p].todo \/ ToLoad(p) = AppsIn(co[p].arg)
      BY <2>2 DEF ToLoad
    <2>4. x \in Co
      <3>1. ToLoad(p) \subseteq AppId \cup PipeId
        BY <1>0, <2>3 DEF Co, AppsIn
      <3> QED BY <1>0, <2>1, <3>1 DEF Co
    <2>5. Cleaned(p) \/ ~Cleaning(co[p])
      BY <2>3 DEF Cleaning
    <2> QED BY <1>8, <2>2, <2>4, <2>5
  <1>19. ASSUME NEW i \in AppId, Reconf(p, i) PROVE Tidy'
    <2>1. PICK a : a = [tpl |-> applist[i].app.tpl, conf |-> co[p].arg.apps[i].conf]
      OBVIOUS
    <2>2. PICK r : r = [co[p] EXCEPT !.at = "conf", !.todo = ToLoad(p) \ {i}, !.id = i,
                                     !.addr = applist[i].addr, !.app = a]
      OBVIOUS
    <2>3. /\ Become(p, r) \/ Become(p, Idle)
          /\ UNCHANGED <<applist, pipelist>> /\ i \in ToLoad(p)
      BY <1>19, <2>1, <2>2 DEF Reconf
    <2>4. r.at = "conf"
      BY <1>0, <2>2 DEF Co
    <2>5. Cleaned(p) \/ ~Cleaning(co[p])
      BY <2>3 DEF ToLoad, Cleaning
    <2>6. Bare' /\ Listed'
      BY <1>0, <1>5, <2>3, <2>5, SameListed
    <2> QED BY <1>4, <1>6, <2>3, <2>4, <2>6
  <1>20. ASSUME Reconfigured(p) PROVE Tidy'
    <2>1. /\ \/ applist' = applist
             \/ applist' = [applist EXCEPT ![co[p].id].app = co[p].app]
          /\ pipelist' = pipelist /\ ~Cleaning(co[p])
          /\ Become(p, [co[p] EXCEPT !.at = "apps", !.id = 0, !.app = NoApp, !.addr = NoAddr])
      BY <1>20 DEF Reconfigured, Cleaning
    <2>2. \A i \in AppId : /\ applist'[i].st = applist[i].st
                           /\ applist'[i].route = applist[i].route
      <3> TAKE i \in AppId
      <3>1. applist \in [Elem -> Slot] /\ i \in Elem /\ applist[i] \in Slot
        BY <1>0, Numbers DEF TypeOK
      <3> QED BY <2>1, <3>1 DEF Slot
    <2>3. Bare' /\ Listed'
      BY <1>0, <1>5, <2>1, <2>2, SameListed
    <2> QED BY <1>4, <1>14, <2>1, <2>3
  <1>21. ASSUME NEW k \in PipeId, LoadPipe(p, k) PROVE Tidy'
    <2>1. PICK new : new = [co[p].arg.pipes[k] EXCEPT !.st = TryStart(@ = "started")]
      OBVIOUS
    <2>2. co[p].arg.pipes[k] \in Pipe
      BY <1>0 DEF Co, Config, PipeTable
    <2>3. new \in Pipe /\ new.st # "none"
      BY <2>1, <2>2 DEF Pipe, PipeState, TryStart
    <2>4. /\ k \in ToPipe(p) /\ Whole(new.apps)
          /\ applist' = WithRoutes(k, new.apps, Len(new.apps))
          /\ pipelist' = [pipelist EXCEPT ![k] = new]
          /\ Become(p, [co[p] EXCEPT !.at = "pipes", !.todo = ToPipe(p) \ {k}])
      BY <1>21, <2>1 DEF LoadPipe
    <2>5. [co[p] EXCEPT !.at = "pipes", !.todo = ToPipe(p) \ {k}].at = "pipes"
      BY <1>0 DEF Co
    <2>6. ~HasPipe(k)
      BY <1>0, <2>4, Piped
    <2>7. Cleaned(p) \/ ~Cleaning(co[p])
      BY <2>4 DEF ToPipe, AppsDone, Cleaning
    <2>8. Bare' /\ Listed'
      BY <1>0, <1>5, <2>3, <2>4, <2>6, <2>7, EnteredListed
    <2> QED BY <1>4, <2>4, <2>5, <2>8
  <1>22. ASSUME NEW k \in PipeId, LoadPipeRaises(p, k) PROVE Tidy'
    BY <1>0, <1>22, Piped DEF LoadPipeRaises
  <1>23. ASSUME UpgradeCleans(p) PROVE Tidy'
    <2>1. Cleaning(co[p])'
      BY <1>0, <1>23, CleanTidy, Zenon DEF UpgradeCleans
    <2>2. locked' = locked /\ Emptying(co[p]) /\ applist' = applist
      BY <1>23 DEF UpgradeCleans, Emptying
    <2>3. locked' /\ Bare'
      BY <1>0, <2>2, SameListed DEF Guarded
    <2> QED BY <1>3, <2>1, <2>3
  <1>24. ASSUME Quit(p) PROVE Tidy'
    <2>1. [Idle EXCEPT !.kind = "upgrade", !.at = "quit"].at = "quit"
      BY DEF Idle
    <2>2. Cleaned(p) /\ UNCHANGED <<applist, pipelist>>
          /\ Become(p, [Idle EXCEPT !.kind = "upgrade", !.at = "quit"])
      BY <1>24 DEF Quit
    <2>3. Bare' /\ Listed'
      BY <1>0, <1>5, <2>2, SameListed
    <2> QED BY <1>4, <2>1, <2>2, <2>3
  <1> QED
    BY <1>9, <1>10, <1>11, <1>12, <1>13, <1>15, <1>16, <1>17, <1>18, <1>19, <1>20, <1>21,
       <1>22, <1>23, <1>24 DEF Resume

LEMMA FreshTidy == Fresh => Tidy
  <1> SUFFICES ASSUME Fresh PROVE Tidy
    OBVIOUS
  <1>1. \A i \in AppId : applist[i].route = NoRoutes
    BY SysAppAssumption, Numbers DEF Fresh, EmptyList, FreeSlot, Elem
  <1>2. Bare /\ Listed
    BY <1>1, Blank DEF Bare, Listed
  <1>3. \A p \in Proc : co[p].at \in {"idle", "start"}
    BY DEF Fresh, Idle
  <1>4. Guarded
    BY <1>3 DEF Guarded, Emptying, Cleaning
  <1> QED BY <1>2, <1>4 DEF Tidy

LEMMA AgainTidy == Fresh' => Tidy'
  BY FreshTidy, PTL

LEMMA TidyNext ==
    ASSUME Serial, \A p, q \in Client : p = q
    PROVE  SInv /\ Backed /\ Booting /\ Tidy /\ [Next]_vars => Tidy'
  <1> SUFFICES ASSUME SInv, Backed, Booting, Tidy, [Next]_vars PROVE Tidy'
    OBVIOUS
  <1>1. ASSUME UNCHANGED <<locked, co, applist, pipelist>> PROVE Tidy'
    BY <1>1 DEF Tidy, Bare, Guarded, Listed, Emptying, Cleaning, Loaded, HasPipe
  <1>2. ASSUME NEW c \in Client, Command(c) PROVE Tidy'
    BY <1>2, CommandTidy
  <1>3. ASSUME NEW p \in Proc, Resume(p) PROVE Tidy'
    BY <1>3, ResumeTidy
  <1>4. CASE BootConfigures \/ BootRejects
    <2>0. TypeOK /\ Kept /\ Alone /\ AllFit /\ Bare /\ Boot \in Proc
      BY Numbers DEF SInv, IInv, Kept, Tidy
    <2>1. co[Boot].at = "start" /\ UNCHANGED <<applist, pipelist>>
      BY <1>4 DEF BootConfigures, BootRejects
    <2>2. \E r : Become(Boot, r) /\ r.at \in {"apps", "idle"} /\ r.kind \in {"boot", "none"}
      <3>1. CASE BootConfigures
        <4>1. PICK total : Become(Boot, [Idle EXCEPT !.kind = "boot", !.at = "apps",
                                                     !.arg = total, !.todo = AppsIn(total)])
          BY <3>1 DEF BootConfigures
        <4>2. PICK r : r = [Idle EXCEPT !.kind = "boot", !.at = "apps",
                                        !.arg = total, !.todo = AppsIn(total)]
          OBVIOUS
        <4>3. r.at = "apps" /\ r.kind = "boot"
          BY <4>2 DEF Idle
        <4> QED BY <4>1, <4>2, <4>3
      <3>2. CASE BootRejects
        BY <3>2 DEF BootRejects, Idle
      <3> QED BY <1>4, <3>1, <3>2
    <2>3. Only(Boot) /\ ~Emptying(co[Boot])'
      BY <2>0, <2>2, CoIs DEF Emptying, Cleaning
    <2>4. Listed
      BY <2>0, <2>1, OthersOff DEF Tidy, Cleaning
    <2>5. Bare' /\ Listed'
      BY <2>0, <2>1, <2>4, SameListed
    <2> QED BY <2>0, <2>1, <2>3, <2>5, TidyStep
  <1>5. CASE Restart
    BY <1>5, RestartFresh, AgainTidy
  <1> QED BY <1>1, <1>2, <1>3, <1>4, <1>5 DEF Next, vars, SysmgrSaves

\* When one client issues the commands, maintenance in quiet, and no cell
\* raises while it takes its configuration: whenever commands are taken, the
\* route table of an APP has entries of PIPEs that list it only, so that
\* app_remove is refused for no other reason ("APP used by PIPE").  With two
\* clients pipe_new meets APPs still being loaded and leaves entries behind.
THEOREM UsedByPipe ==
    ASSUME Serial, "conf_raises" \notin Faults, \A p, q \in Client : p = q
    PROVE  Spec => []InUseByPipe
  <1>1. Tidy => InUseByPipe
    BY DEF Tidy, Guarded, Emptying, Listed, InUseByPipe
  <1>2. SInv /\ Backed /\ Booting /\ Tidy /\ [Next]_vars => SInv' /\ Backed' /\ Booting' /\ Tidy'
    BY SerialStep, BackedStep, BootingStep, TidyNext
  <1>3. Init => SInv /\ Backed /\ Booting /\ Tidy
    BY SerialInit, InitFresh, InitBooting, FreshBacked, FreshTidy
  <1> QED BY <1>1, <1>2, <1>3, PTL DEF Spec

-----------------------------------------------------------------------------
(* What the mailbox of sysmgr amounts to *)

LEMMA Least ==
    ASSUME NEW T \in SUBSET Nat, T # {}
    PROVE  \E x \in T : \A y \in T : x <= y
  <1> DEFINE R == {ss \in Nat \X Nat : ss[1] < ss[2]}
  <1>1. IsWellFoundedOn(R, Nat)
    BY NatLessThanWellFounded DEF OpToRel
  <1> HIDE DEF R
  <1>2. PICK x \in T : \A y \in T : ~ (<<y, x>> \in R)
    BY <1>1, WFMin
  <1>3. ASSUME NEW y \in T PROVE x <= y
    <2>1. ~ (y < x)
      BY <1>2 DEF R
    <2> QED BY <2>1
  <1> QED BY <1>3

\* Induction up to n, with the set of numbers for which the claim holds.
LEMMA Climb ==
    ASSUME NEW n \in Nat, NEW S, 0 \in S,
           \A i \in 0..n : i < n /\ i \in S => i + 1 \in S
    PROVE  \A i \in 0..n : i \in S
  <1> DEFINE T == {i \in 0..n : i \notin S}
  <1> SUFFICES ASSUME T # {} PROVE FALSE
    OBVIOUS
  <1>1. T \in SUBSET Nat
    OBVIOUS
  <1>2. PICK x \in T : \A y \in T : x <= y
    BY <1>1, Least
  <1>3. x # 0 /\ x \in 0..n /\ x \notin S
    OBVIOUS
  <1>4. x - 1 \in 0..n /\ x - 1 < n
    BY <1>3
  <1>5. x - 1 \in S
    BY <1>2, <1>4
  <1> QED BY <1>3, <1>4, <1>5

\* A trace of c through the requests q is what Persisted tells.
Trace(T, c, q) ==
    /\ T = [n \in 0..Len(q) |-> T[n]]
    /\ T[0] = c
    /\ \A n \in 1..Len(q) : T[n] = Applied(T[n - 1], q[n])

LEMMA TraceIs ==
    ASSUME NEW c, NEW q, Len(q) \in Nat, NEW T, Trace(T, c, q)
    PROVE  Persisted(c, q) = T
  <1> DEFINE E(f) == [n \in 0..Len(q) |-> IF n = 0 THEN c ELSE Applied(f[n - 1], q[n])]
  <1>1. \A n \in 0..Len(q) : T[n] = IF n = 0 THEN c ELSE Applied(T[n - 1], q[n])
    BY DEF Trace
  <1>2. T = E(T)
    BY <1>1, Zenon DEF Trace
  <1>3. ASSUME NEW f, f = E(f) PROVE f = T
    <2> DEFINE S == {n \in 0..Len(q) : f[n] = T[n]}
    <2>1. \A n \in 0..Len(q) : f[n] = IF n = 0 THEN c ELSE Applied(f[n - 1], q[n])
      BY <1>3, Zenon
    <2>2. 0 \in S
      BY <2>1 DEF Trace
    <2>3. ASSUME NEW i \in 0..Len(q), i < Len(q), i \in S PROVE i + 1 \in S
      <3>1. i + 1 \in 1..Len(q) /\ i + 1 \in 0..Len(q) /\ i + 1 # 0 /\ i + 1 - 1 = i
        BY <2>3
      <3>2. PICK j \in 1..Len(q) : j \in 0..Len(q) /\ j = i + 1 /\ j # 0 /\ j - 1 = i
        BY <3>1
      <3>4. f[j] = Applied(f[j - 1], q[j])
        BY <2>1, <3>2, Zenon
      <3>5. T[j] = Applied(T[j - 1], q[j])
        BY Zenon DEF Trace
      <3>3. f[i] = T[i]
        BY <2>3
      <3> QED BY <3>2, <3>3, <3>4, <3>5
    <2> HIDE DEF S
    <2>4. \A i \in 0..Len(q) : i \in S
      BY <2>2, <2>3, Climb
    <2>5. \A i \in 0..Len(q) : f[i] = T[i]
      BY <2>4 DEF S
    <2>6. f = [n \in 0..Len(q) |-> f[n]]
      BY <1>3, <2>1, Zenon
    <2>7. [n \in 0..Len(q) |-> f[n]] = [n \in 0..Len(q) |-> T[n]]
      BY <2>5, Zenon
    <2> QED BY <2>6, <2>7, Zenon DEF Trace
  <1>4. Persisted(c, q) = CHOOSE f : f = E(f)
    BY Zenon DEF Persisted
  <1> HIDE DEF E
  <1>5. (CHOOSE f : f = E(f)) = E(CHOOSE f : f = E(f))
    BY <1>2, Zenon
  <1> QED BY <1>3, <1>4, <1>5, Zenon

-----------------------------------------------------------------------------
(* Memory, mailbox and disk *)

Saved == [repo : BOOLEAN, apps : AppTable, pipes : PipeTable]
Loadable(c) == /\ c.repo
               /\ PipesValid(c)
               /\ \A k \in PipeId : c.pipes[k].st = "none" => c.pipes[k] = NoPipe
Suits(c, r) ==
    /\ r.kind = "put" /\ c.apps[r.id] # NoApp => c.apps[r.id].tpl = r.app.tpl
    /\ r.kind = "del" => r.app = c.apps[r.id]
\* What memory amounts to, were it saved at once.
Now == [repo |-> TRUE, apps |-> Image, pipes |-> pipelist]
Chronicle(T) ==
    /\ Trace(T, cfg, queue)
    /\ \A n \in 0..Len(queue) : T[n] \in Saved /\ Loadable(T[n])
    /\ \A n \in 1..Len(queue) : Suits(T[n - 1], queue[n])
Written == \E T : Chronicle(T) /\ (co[Boot] = Idle => T[Len(queue)] = Now)
Filed == files = {<<i, cfg.apps[i]>> : i \in {j \in AppId : cfg.apps[j] # NoApp}}
Long == \A k \in PipeId : HasPipe(k) => Len(pipelist[k].apps) > 1

LEMMA NowSaved == TypeOK /\ Rooted /\ Long => Now \in Saved /\ Loadable(Now)
  <1> SUFFICES ASSUME TypeOK, Rooted, Long
               PROVE  Now \in Saved /\ Loadable(Now)
    OBVIOUS
  <1>1. Image \in AppTable
    <2>1. \A i \in AppId : i \in Elem /\ applist[i] \in Slot
      BY Numbers DEF TypeOK
    <2>2. \A i \in AppId : applist[i].app \in App \cup {NoApp}
      BY <2>1 DEF Slot
    <2> QED BY <2>2 DEF Image, AppTable
  <1>2. pipelist \in PipeTable
    BY DEF TypeOK
  <1>3. ASSUME NEW k \in PipeId, HasPipe(k)
        PROVE  Members(pipelist[k].apps) \subseteq {i \in AppId : Image[i] # NoApp} \cup SysApps
    <2> SUFFICES ASSUME NEW e \in Members(pipelist[k].apps), e \notin SysApps
                 PROVE  e \in AppId /\ Image[e] # NoApp
      OBVIOUS
    <2>1. Loaded(e)
      BY <1>3 DEF Rooted, PipesRouted, Routed
    <2>2. e \in AppId
      BY <1>2 DEF PipeTable, Pipe, Members, Elem
    <2>3. applist[e].app \in App
      BY <2>1, <2>2 DEF TypeOK, Described
    <2> QED BY <2>1, <2>2, <2>3, AppAssumption DEF Image
  <1>4. PipesValid(Now)
    BY <1>3 DEF PipesValid, Now, PipesIn, AppsIn, Long, HasPipe
  <1> QED BY <1>1, <1>2, <1>4 DEF Saved, Loadable, Now, Rooted, NonePlain, HasPipe

LEMMA NowSavedNext == (TypeOK /\ Rooted /\ Long)' => (Now \in Saved)' /\ Loadable(Now)'
  BY NowSaved, PTL

-----------------------------------------------------------------------------
(* Steps of sysmgr's mailbox *)

LEMMA QueueIs ==
    ASSUME TypeOK
    PROVE  queue \in Seq(Request) /\ Len(queue) \in Nat
  BY DEF TypeOK

\* Nothing is sent and nothing saved.
LEMMA StayWritten ==
    ASSUME Written, queue' = queue, cfg' = cfg,
           co'[Boot] = Idle => \/ co[Boot] = Idle /\ Now' = Now
                               \/ queue = <<>> /\ Now' = cfg
    PROVE  Written'
  <1>1. PICK T : Chronicle(T) /\ (co[Boot] = Idle => T[Len(queue)] = Now)
    BY DEF Written
  <1>2. Chronicle(T)'
    BY <1>1 DEF Chronicle
  <1>3. co'[Boot] = Idle => T[Len(queue')] = Now'
    BY <1>1 DEF Chronicle, Trace
  <1> QED BY <1>2, <1>3 DEF Written

\* A decision is sent.
LEMMA SendWritten ==
    ASSUME TypeOK, Written, co[Boot] = Idle, NEW r, queue' = Append(queue, r), cfg' = cfg,
           Now' = Applied(Now, r), Suits(Now, r), (Now \in Saved)', Loadable(Now)'
    PROVE  Written'
  <1>1. PICK T : Chronicle(T) /\ T[Len(queue)] = Now
    BY DEF Written
  <1> DEFINE l == Len(queue)
             U == [n \in 0..(l + 1) |-> IF n = l + 1 THEN Now' ELSE T[n]]
  <1>2. l \in Nat /\ Len(queue') = l + 1 /\ queue'[l + 1] = r
        /\ \A n \in 1..l : queue'[n] = queue[n]
    BY QueueIs
  <1>3. Now' \in Saved /\ Loadable(Now')
    <2>1. PICK c : c = Now'
      OBVIOUS
    <2>2. c \in Saved
      BY <2>1 DEF Saved
    <2>3. Loadable(c)
      BY <2>1 DEF Loadable, PipesValid, PipesIn, AppsIn
    <2> QED BY <2>1, <2>2, <2>3
  <1> HIDE DEF l
  <1>4. U[l + 1] = Now' /\ \A n \in 0..l : U[n] = T[n]
    BY <1>2
  <1>5. \A n \in 0..(l + 1) : U[n] \in Saved /\ Loadable(U[n])
    <2>1. \A n \in 0..l : T[n] \in Saved /\ Loadable(T[n])
      BY <1>1 DEF Chronicle, l
    <2>2. \A n \in 0..(l + 1) : n = l + 1 \/ n \in 0..l
      BY <1>2
    <2> QED BY <1>3, <1>4, <2>1, <2>2
  <1>6. ASSUME NEW n \in 1..(l + 1)
        PROVE  U[n] = Applied(U[n - 1], queue'[n]) /\ Suits(U[n - 1], queue'[n])
    <2>1. CASE n = l + 1
      <3>1. n - 1 = l /\ l \in 0..l
        BY <1>2, <2>1
      <3>2. U[n - 1] = Now
        BY <1>1, <1>4, <3>1 DEF l
      <3> QED BY <1>2, <1>4, <2>1, <3>2
    <2>2. CASE n # l + 1
      <3>1. n \in 1..l /\ n \in 0..l /\ n - 1 \in 0..l
        BY <1>2, <2>2
      <3>2. T[n] = Applied(T[n - 1], queue[n]) /\ Suits(T[n - 1], queue[n])
        BY <1>1, <3>1 DEF Chronicle, Trace, l
      <3>3. U[n] = T[n] /\ U[n - 1] = T[n - 1] /\ queue'[n] = queue[n]
        BY <1>2, <1>4, <3>1
      <3> QED BY <3>2, <3>3
    <2> QED BY <2>1, <2>2
  <1>7. U[0] = cfg'
    BY <1>1, <1>2, <1>4 DEF Chronicle, Trace
  <1>8. U = [n \in 0..Len(queue') |-> U[n]]
    BY <1>2, Zenon
  <1>9. Trace(U, cfg', queue')
    <2>1. \A n \in 1..Len(queue') : U[n] = Applied(U[n - 1], queue'[n])
      BY <1>2, <1>6
    <2> HIDE DEF U
    <2> QED BY <1>7, <1>8, <2>1, Zenon DEF Trace
  <1>10. PICK V : V = U
    OBVIOUS
  <1> HIDE DEF U
  <1>11. Chronicle(V)'
    <2>1. \A n \in 0..Len(queue') : V[n] \in Saved /\ Loadable(V[n])
      BY <1>2, <1>5, <1>10
    <2>2. \A n \in 1..Len(queue') : Suits(V[n - 1], queue'[n])
      BY <1>2, <1>6, <1>10
    <2>3. Trace(V, cfg', queue')
      BY <1>9, <1>10
    <2> QED BY <2>1, <2>2, <2>3 DEF Chronicle
  <1>12. V[Len(queue')] = Now'
    BY <1>2, <1>4, <1>10
  <1> QED BY <1>11, <1>12 DEF Written

\* The oldest request is worked.
LEMMA ShiftWritten ==
    ASSUME TypeOK, Written, queue # <<>>, queue' = Tail(queue),
           cfg' = Applied(cfg, Head(queue)), co' = co, Now' = Now
    PROVE  Written' /\ Suits(cfg, Head(queue))
  <1>1. PICK T : Chronicle(T) /\ (co[Boot] = Idle => T[Len(queue)] = Now)
    BY DEF Written
  <1> DEFINE l == Len(queue)
             U == [n \in 0..(l - 1) |-> T[n + 1]]
  <1>2. /\ l \in Nat /\ l > 0 /\ Len(queue') = l - 1 /\ Head(queue) = queue[1]
        /\ \A n \in 1..(l - 1) : queue'[n] = queue[n + 1]
    BY QueueIs
  <1> HIDE DEF l
  <1>3. \A n \in 1..l : /\ T[n] = Applied(T[n - 1], queue[n])
                        /\ Suits(T[n - 1], queue[n])
    BY <1>1 DEF Chronicle, Trace, l
  <1>4. \A n \in 0..l : T[n] \in Saved /\ Loadable(T[n])
    BY <1>1 DEF Chronicle, l
  <1>5. T[0] = cfg
    BY <1>1 DEF Chronicle, Trace
  <1>6. 1 \in 1..l /\ 1 - 1 = 0
    BY <1>2
  <1>7. T[1] = cfg' /\ Suits(cfg, Head(queue))
    <2>1. T[1] = Applied(T[1 - 1], queue[1]) /\ Suits(T[1 - 1], queue[1])
      BY <1>3, <1>6
    <2> QED BY <1>2, <1>5, <1>6, <2>1
  <1>8. \A n \in 0..(l - 1) : n + 1 \in 0..l /\ U[n] = T[n + 1]
    BY <1>2
  <1>9. ASSUME NEW n \in 1..(l - 1)
        PROVE  U[n] = Applied(U[n - 1], queue'[n]) /\ Suits(U[n - 1], queue'[n])
    <2>1. PICK m \in 1..l : m = n + 1 /\ m - 1 = n
      BY <1>2
    <2>2. T[m] = Applied(T[m - 1], queue[m]) /\ Suits(T[m - 1], queue[m])
      BY <1>3
    <2>3. n \in 0..(l - 1) /\ n - 1 \in 0..(l - 1) /\ n - 1 + 1 = n
      BY <1>2
    <2>4. U[n] = T[m] /\ U[n - 1] = T[n] /\ queue'[n] = queue[m]
      BY <1>2, <1>8, <2>1, <2>3
    <2> QED BY <2>1, <2>2, <2>4
  <1>10. U = [n \in 0..Len(queue') |-> U[n]]
    BY <1>2, Zenon
  <1>11. PICK V : V = U
    OBVIOUS
  <1>12. V[0] = cfg' /\ (co'[Boot] = Idle => V[Len(queue')] = Now')
    <2>1. 0 \in 0..(l - 1) /\ l - 1 \in 0..(l - 1) /\ 0 + 1 = 1 /\ l - 1 + 1 = l
      BY <1>2
    <2>2. U[0] = T[1] /\ U[l - 1] = T[l]
      BY <1>8, <2>1
    <2> QED BY <1>1, <1>2, <1>7, <1>11, <2>2 DEF l
  <1> HIDE DEF U
  <1>13. Chronicle(V)'
    <2>1. \A n \in 0..Len(queue') : V[n] \in Saved /\ Loadable(V[n])
      BY <1>2, <1>4, <1>8, <1>11
    <2>2. \A n \in 1..Len(queue') : /\ V[n] = Applied(V[n - 1], queue'[n])
                                    /\ Suits(V[n - 1], queue'[n])
      BY <1>2, <1>9, <1>11
    <2>3. V = [n \in 0..Len(queue') |-> V[n]]
      BY <1>10, <1>11
    <2>4. Trace(V, cfg', queue')
      BY <1>12, <2>2, <2>3, Zenon DEF Trace
    <2> QED BY <2>1, <2>2, <2>4 DEF Chronicle
  <1> QED BY <1>7, <1>12, <1>13 DEF Written

\* Nothing is on its way, and boot has still to tell.
LEMMA FirstWritten ==
    queue = <<>> /\ co[Boot] # Idle /\ cfg \in Saved /\ Loadable(cfg) => Written
  <1> SUFFICES ASSUME queue = <<>>, co[Boot] # Idle, cfg \in Saved, Loadable(cfg)
               PROVE  Written
    OBVIOUS
  <1> DEFINE T == [n \in 0..0 |-> cfg]
  <1>1. T[0] = cfg /\ Len(queue) = 0 /\ \A n \in 0..0 : n = 0
    OBVIOUS
  <1>2. Chronicle(T)
    BY <1>1 DEF Chronicle, Trace
  <1> QED BY <1>2 DEF Written
LEMMA AgainWritten ==
    (queue = <<>> /\ co[Boot] # Idle /\ cfg \in Saved /\ Loadable(cfg))' => Written'
  BY FirstWritten, PTL

-----------------------------------------------------------------------------
(* The files are what is saved *)

LEMMA OthersKept ==
    ASSUME cfg \in Saved, Filed, NEW i \in AppId, NEW t,
           cfg.apps[i] # NoApp => cfg.apps[i].tpl = t
    PROVE  Others(i, t) = {<<j, cfg.apps[j]>> : j \in {j \in AppId \ {i} : cfg.apps[j] # NoApp}}
  BY DEF Others, Filed

LEMMA SavesFiled ==
    ASSUME TypeOK, Filed, queue # <<>>, SysmgrSaves, Suits(cfg, Head(queue))
    PROVE  Filed'
  <1>1. PICK r : r = Head(queue)
    OBVIOUS
  <1>2. r \in Request
    BY <1>1, QueueIs
  <1>3. cfg \in Saved
    BY DEF TypeOK, Saved
  <1>4. CASE r.kind = "put"
    <2>1. r.id \in AppId /\ r.app \in App /\ r.app # NoApp
      BY <1>2, <1>4, AppAssumption DEF Request
    <2>2. cfg' = [cfg EXCEPT !.apps[r.id] = r.app]
      BY <1>1, <1>4 DEF SysmgrSaves, Applied
    <2>3. files' = Others(r.id, r.app.tpl) \cup {<<r.id, r.app>>}
      BY <1>1, <1>4 DEF SysmgrSaves
    <2>4. Others(r.id, r.app.tpl)
            = {<<j, cfg.apps[j]>> : j \in {j \in AppId \ {r.id} : cfg.apps[j] # NoApp}}
      BY <1>1, <1>3, <1>4, <2>1, OthersKept DEF Suits
    <2>5. /\ cfg'.apps[r.id] = r.app
          /\ \A j \in AppId \ {r.id} : cfg'.apps[j] = cfg.apps[j]
      BY <1>3, <2>1, <2>2 DEF Saved, AppTable
    <2> QED BY <2>1, <2>3, <2>4, <2>5 DEF Filed
  <1>5. CASE r.kind = "del"
    <2>1. r.id \in AppId
      BY <1>2, <1>5 DEF Request
    <2>2. cfg' = [cfg EXCEPT !.apps[r.id] = NoApp]
      BY <1>1, <1>5 DEF SysmgrSaves, Applied
    <2>3. /\ cfg'.apps[r.id] = NoApp
          /\ \A j \in AppId \ {r.id} : cfg'.apps[j] = cfg.apps[j]
      BY <1>3, <2>1, <2>2 DEF Saved, AppTable
    <2>4. CASE cfg.apps[r.id] = NoApp
      <3>1. files' = files
        BY <1>1, <1>5, <2>4 DEF SysmgrSaves
      <3>2. \A j \in AppId : cfg'.apps[j] = cfg.apps[j]
        BY <2>3, <2>4
      <3> QED BY <3>1, <3>2 DEF Filed
    <2>5. CASE cfg.apps[r.id] # NoApp
      <3>1. files' = Others(r.id, r.app.tpl)
        BY <1>1, <1>5, <2>5 DEF SysmgrSaves
      <3>2. r.app = cfg.apps[r.id]
        BY <1>1, <1>5 DEF Suits
      <3>3. Others(r.id, r.app.tpl)
              = {<<j, cfg.apps[j]>> : j \in {j \in AppId \ {r.id} : cfg.apps[j] # NoApp}}
        BY <1>3, <2>1, <3>2, OthersKept
      <3> QED BY <2>1, <2>3, <3>1, <3>3 DEF Filed
    <2> QED BY <2>4, <2>5
  <1>6. CASE r.kind = "pipes"
    <2>1. cfg'.apps = cfg.apps
      BY <1>1, <1>3, <1>6 DEF SysmgrSaves, Applied, Saved
    <2>2. files' = files
      BY <1>1, <1>6 DEF SysmgrSaves
    <2> QED BY <2>1, <2>2 DEF Filed
  <1> QED BY <1>2, <1>4, <1>5, <1>6 DEF Request

\* What a restart reads is what was saved last.
LEMMA ReadBack ==
    ASSUME TypeOK, Filed, NEW t \in Readable
    PROVE  t = cfg.apps
  <1>1. cfg.apps \in AppTable /\ t \in AppTable
    BY DEF TypeOK, Readable
  <1>2. ASSUME NEW i \in AppId PROVE t[i] = cfg.apps[i]
    <2>1. CASE t[i] = NoApp
      <3>1. \A f \in files : f[1] # i
        BY <2>1 DEF Readable
      <3>2. cfg.apps[i] # NoApp => <<i, cfg.apps[i]>> \in files
        BY DEF Filed
      <3> QED BY <2>1, <3>1, <3>2
    <2>2. CASE t[i] # NoApp
      <3>1. <<i, t[i]>> \in files
        BY <2>2 DEF Readable
      <3> QED BY <3>1 DEF Filed
    <2> QED BY <2>1, <2>2
  <1> QED BY <1>1, <1>2 DEF AppTable

-----------------------------------------------------------------------------
(* Commands tell sysmgr *)

\* What a step outside boot does to memory it tells sysmgr in the same step.
Tells ==
    /\ cfg' = cfg /\ files' = files
    /\ Long'
    /\ \/ queue' = queue /\ Now' = Now
       \/ \E r : /\ queue' = Append(queue, r)
                 /\ Now' = Applied(Now, r)
                 /\ Suits(Now, r)

LEMMA SameImage ==
    ASSUME \A i \in AppId : applist'[i].st = applist[i].st /\ applist'[i].app = applist[i].app
    PROVE  Image' = Image
  BY DEF Image, Loaded

LEMMA SlotImage ==
    ASSUME TypeOK, NEW i \in AppId, NEW s, applist' = [applist EXCEPT ![i] = s]
    PROVE  /\ Image' = [Image EXCEPT ![i] = IF s.st = "loaded" THEN s.app ELSE NoApp]
           /\ ~Loaded(i) /\ s.st # "loaded" => Image' = Image
  <1>1. i \in Elem /\ AppId \subseteq Elem /\ DOMAIN applist = Elem
    BY Numbers DEF TypeOK
  <1>2. applist'[i] = s /\ \A j \in AppId \ {i} : applist'[j] = applist[j]
    BY <1>1
  <1>3. \A j \in AppId : Image'[j] = IF j = i THEN IF s.st = "loaded" THEN s.app ELSE NoApp
                                     ELSE Image[j]
    BY <1>2 DEF Image, Loaded
  <1>4. Image = [j \in AppId |-> Image[j]] /\ Image' = [j \in AppId |-> Image'[j]]
    BY DEF Image
  <1>5. Image' = [Image EXCEPT ![i] = IF s.st = "loaded" THEN s.app ELSE NoApp]
    BY <1>3, <1>4
  <1>6. ASSUME ~Loaded(i), s.st # "loaded" PROVE Image' = Image
    <2>1. Image[i] = NoApp
      BY <1>6 DEF Image
    <2> QED BY <1>3, <1>4, <1>6, <2>1
  <1> QED BY <1>5, <1>6

LEMMA RoutesImage ==
    ASSUME TypeOK, NEW k \in PipeId, NEW s \in Seq(Elem), NEW n \in 0..Len(s),
           applist' = WithRoutes(k, s, n) \/ applist' = WithoutRoutes(k, s, n)
    PROVE  Image' = Image
  <1>1. ASSUME NEW i \in AppId
        PROVE  applist'[i].st = applist[i].st /\ applist'[i].app = applist[i].app
    <2>1. i \in Elem /\ applist[i] \in Slot
      BY Numbers DEF TypeOK
    <2>2. PICK x : x = applist[i]
      OBVIOUS
    <2>3. \A r : /\ [x EXCEPT !.route[k] = r].st = x.st
                 /\ [x EXCEPT !.route[k] = r].app = x.app
      BY <2>1, <2>2 DEF Slot
    <2>4. \/ applist'[i] = x
          \/ \E r : applist'[i] = [x EXCEPT !.route[k] = r]
      BY <2>1, <2>2 DEF WithRoutes, WithoutRoutes
    <2> QED BY <2>2, <2>3, <2>4
  <1> QED BY <1>1, SameImage

LEMMA AppliedNow ==
    ASSUME NEW p, NEW i, NEW a
    PROVE  /\ Applied(Now, [kind |-> "put", by |-> p, id |-> i, app |-> a])
                = [repo |-> TRUE, apps |-> [Image EXCEPT ![i] = a], pipes |-> pipelist]
           /\ Applied(Now, [kind |-> "del", by |-> p, id |-> i, app |-> a])
                = [repo |-> TRUE, apps |-> [Image EXCEPT ![i] = NoApp], pipes |-> pipelist]
           /\ Applied(Now, [kind |-> "pipes", by |-> p, list |-> a])
                = [repo |-> TRUE, apps |-> Image, pipes |-> a]
  BY DEF Applied, Now

LEMMA StayTells ==
    ASSUME UNCHANGED <<cfg, files, queue, pipelist>>, Image' = Image, Long
    PROVE  Tells
  BY DEF Tells, Long, Now, HasPipe

LEMMA PutTells ==
    ASSUME NEW p, NEW i \in AppId, NEW a, Put(p, i, a), UNCHANGED <<cfg, files, pipelist>>,
           Image' = [Image EXCEPT ![i] = a], Image[i] # NoApp => Image[i].tpl = a.tpl, Long
    PROVE  Tells
  <1>1. PICK r : r = [kind |-> "put", by |-> p, id |-> i, app |-> a]
    OBVIOUS
  <1>2. queue' = Append(queue, r)
    BY <1>1 DEF Put
  <1>3. Now' = Applied(Now, r)
    <2>1. Now' = [repo |-> TRUE, apps |-> [Image EXCEPT ![i] = a], pipes |-> pipelist]
      BY DEF Now
    <2>2. Applied(Now, [kind |-> "put", by |-> p, id |-> i, app |-> a])
            = [repo |-> TRUE, apps |-> [Image EXCEPT ![i] = a], pipes |-> pipelist]
      BY DEF Applied, Now
    <2> QED BY <1>1, <2>1, <2>2, Zenon
  <1>4. Suits(Now, r)
    BY <1>1 DEF Suits, Now
  <1>5. Long'
    BY DEF Long, HasPipe
  <1> QED BY <1>2, <1>3, <1>4, <1>5 DEF Tells

LEMMA DelTells ==
    ASSUME NEW p, NEW i \in AppId, Loaded(i), Del(p, i), UNCHANGED <<cfg, files, pipelist>>,
           Image' = [Image EXCEPT ![i] = NoApp], Long
    PROVE  Tells
  <1>1. PICK r : r = [kind |-> "del", by |-> p, id |-> i, app |-> applist[i].app]
    OBVIOUS
  <1>2. queue' = Append(queue, r)
    BY <1>1 DEF Del
  <1>3. Now' = Applied(Now, r)
    <2>1. Now' = [repo |-> TRUE, apps |-> [Image EXCEPT ![i] = NoApp], pipes |-> pipelist]
      BY DEF Now
    <2>2. Applied(Now, [kind |-> "del", by |-> p, id |-> i, app |-> applist[i].app])
            = [repo |-> TRUE, apps |-> [Image EXCEPT ![i] = NoApp], pipes |-> pipelist]
      BY DEF Applied, Now
    <2> QED BY <1>1, <2>1, <2>2, Zenon
  <1>4. Suits(Now, r)
    BY <1>1 DEF Suits, Now, Image
  <1>5. Long'
    BY DEF Long, HasPipe
  <1> QED BY <1>2, <1>3, <1>4, <1>5 DEF Tells

LEMMA PipesTells ==
    ASSUME NEW p, PutPipes(p, pipelist'), UNCHANGED <<cfg, files>>, Image' = Image, Long'
    PROVE  Tells
  <1>1. PICK r : r = [kind |-> "pipes", by |-> p, list |-> pipelist']
    OBVIOUS
  <1>2. queue' = Append(queue, r)
    BY <1>1 DEF PutPipes
  <1>3. Now' = Applied(Now, r)
    BY <1>1, AppliedNow DEF Now
  <1>4. Suits(Now, r)
    BY <1>1 DEF Suits
  <1> QED BY <1>2, <1>3, <1>4 DEF Tells

\* A PIPE is entered, switched or removed.
LEMMA EnteredLong ==
    ASSUME TypeOK, Long, NEW k \in PipeId, NEW new, pipelist' = [pipelist EXCEPT ![k] = new],
           new.st = "none" \/ Len(new.apps) > 1
    PROVE  Long'
  BY DEF TypeOK, PipeTable, Long, HasPipe

-----------------------------------------------------------------------------
(* Commands tell *)

LEMMA CleanTells ==
    ASSUME TypeOK, Rooted, NEW p, NEW r, Clean(p, r) \/ CleanRaises(p),
           UNCHANGED <<applist, cfg, files>>
    PROVE  Tells
  <1>1. Image' = Image
    BY DEF Image, Loaded
  <1>2. Clean(p, r)
    BY DEF CleanRaises, Rooted, PipesRouted
  <1>3. pipelist' = NoPipes /\ PutPipes(p, pipelist')
    BY <1>2 DEF Clean
  <1>4. Long'
    BY <1>3 DEF Long, HasPipe, NoPipes, NoPipe
  <1> QED BY <1>1, <1>3, <1>4, PipesTells

LEMMA ValidateTells ==
    ASSUME TypeOK, Rooted, Long, NEW p, NEW arg, NEW tpls, NEW hasrepo,
           Validate(p, arg, tpls, hasrepo), UNCHANGED <<applist, cfg, files>>
    PROVE  Tells
  <1>1. Image' = Image
    BY DEF Image, Loaded
  <1>2. UNCHANGED <<pipelist, queue>> => Tells
    BY <1>1, StayTells
  <1>3. CASE Enter(p, arg)
    <2>1. PICK r : r = [Idle EXCEPT !.kind = "configure", !.arg = arg]
      OBVIOUS
    <2>2. UNCHANGED <<pipelist, queue>> \/ Clean(p, r) \/ CleanRaises(p)
      BY <1>3, <2>1 DEF Enter
    <2> QED BY <1>2, <2>2, CleanTells
  <1>4. Enter(p, arg) \/ UNCHANGED <<pipelist, queue>>
    BY DEF Validate
  <1> QED BY <1>2, <1>3, <1>4

LEMMA CommandTells ==
    ASSUME TypeOK, Rooted, Long, NEW c \in Client, Command(c)
    PROVE  Tells
  <1>1. ASSUME UNCHANGED <<cfg, files, queue, pipelist, applist>> PROVE Tells
    BY <1>1, StayTells DEF Image, Loaded
  <1>2. ASSUME NEW a \in App, AppNew(c, a) PROVE Tells
    <2>1. PICK i \in NewAppId : applist' = [applist EXCEPT ![i] = ReservedSlot]
      BY <1>2 DEF AppNew, Reserve
    <2>2. i \in AppId /\ ~Loaded(i) /\ ReservedSlot.st # "loaded"
      BY <2>1 DEF NewAppId, Present, Loaded, ReservedSlot, FreeSlot
    <2>3. Image' = Image
      BY <2>1, <2>2, SlotImage
    <2> QED BY <1>2, <2>3, StayTells DEF AppNew, sysmgrVars
  <1>3. ASSUME NEW a \in App, AppNewInstall(c, a) PROVE Tells
    BY <1>1, <1>3 DEF AppNewInstall, sysmgrVars
  <1>4. ASSUME NEW i \in AppId, AppRemove(c, i) PROVE Tells
    <2>1. applist' = [applist EXCEPT ![i] = FreeSlot] /\ FreeSlot.st # "loaded"
      BY <1>4 DEF AppRemove, Vacate, FreeSlot
    <2>2. Image' = [Image EXCEPT ![i] = NoApp]
      BY <2>1, SlotImage
    <2> QED BY <1>4, <2>2, DelTells DEF AppRemove, sysmgrVars
  <1>5. ASSUME NEW k \in PipeId, NEW arg \in PipeArgs, PipeNew(c, k, arg) PROVE Tells
    <2>1. arg.apps \in Seq(Elem) /\ Len(arg.apps) \in 0..Len(arg.apps)
      BY ArgAssumption DEF PipeArg
    <2>2. Image' = Image
      BY <1>5, <2>1, RoutesImage DEF PipeNew
    <2>3. PICK new : new = [st |-> TryStart(arg.auto), apps |-> arg.apps]
      OBVIOUS
    <2>4. pipelist' = [pipelist EXCEPT ![k] = new] /\ Len(new.apps) > 1
      BY <1>5, <2>3 DEF PipeNew
    <2>5. PutPipes(c, pipelist') /\ UNCHANGED <<cfg, files>>
      BY <1>5 DEF PipeNew, sysmgrVars
    <2> QED BY <2>2, <2>4, <2>5, EnteredLong, PipesTells
  <1>6. ASSUME NEW k \in PipeId, NEW arg \in PipeArgs, PipeNewRaises(c, k, arg) PROVE Tells
    <2>1. arg.apps \in Seq(Elem) /\ Reach(arg.apps) \subseteq 0..Len(arg.apps)
      BY ArgAssumption DEF PipeArg, Reach
    <2>2. PICK n \in Reach(arg.apps) : applist' = WithRoutes(k, arg.apps, n)
      BY <1>6 DEF PipeNewRaises
    <2>3. Image' = Image
      BY <2>1, <2>2, RoutesImage
    <2> QED BY <1>6, <2>3, StayTells DEF PipeNewRaises, sysmgrVars
  <1>7. ASSUME NEW k \in PipeId PROVE pipelist[k].apps \in Seq(Elem)
    BY DEF TypeOK, PipeTable, Pipe
  <1>8. ASSUME NEW k \in PipeId, PipeRemove(c, k) PROVE Tells
    <2>1. Image' = Image
      BY <1>7, <1>8, RoutesImage DEF PipeRemove
    <2>2. pipelist' = [pipelist EXCEPT ![k] = NoPipe] /\ NoPipe.st = "none"
      BY <1>8 DEF PipeRemove, NoPipe
    <2>3. PutPipes(c, pipelist') /\ UNCHANGED <<cfg, files>>
      BY <1>8 DEF PipeRemove, sysmgrVars
    <2> QED BY <2>1, <2>2, <2>3, EnteredLong, PipesTells
  <1>9. ASSUME NEW k \in PipeId, PipeRemoveRaises(c, k) PROVE Tells
    <2>1. PICK n \in Reach(pipelist[k].apps) : applist' = WithoutRoutes(k, pipelist[k].apps, n)
      BY <1>9 DEF PipeRemoveRaises
    <2>2. Image' = Image
      BY <1>7, <2>1, RoutesImage DEF Reach
    <2> QED BY <1>9, <2>2, StayTells DEF PipeRemoveRaises, sysmgrVars
  <1>10. ASSUME NEW k \in PipeId, NEW cmd, NEW from \in {"stopped", "started"},
                NEW to, PipeSwitch(c, cmd, k, from, to)
         PROVE  Tells
    <2>1. PICK new : new = [pipelist[k] EXCEPT !.st = to]
      OBVIOUS
    <2>2. pipelist' = [pipelist EXCEPT ![k] = new] /\ HasPipe(k)
      BY <1>10, <2>1 DEF PipeSwitch, HasPipe
    <2>3. Len(new.apps) > 1
      BY <2>1, <2>2 DEF Long, TypeOK, PipeTable, Pipe
    <2>4. PutPipes(c, pipelist') /\ UNCHANGED <<cfg, files, applist>>
      BY <1>10 DEF PipeSwitch, sysmgrVars
    <2>5. Image' = Image
      BY <2>4 DEF Image, Loaded
    <2> QED BY <2>2, <2>3, <2>4, <2>5, EnteredLong, PipesTells
  <1>11. ASSUME NEW arg \in ConfigArgs, Configure(c, arg) \/ ConfigureRepo(c, arg) PROVE Tells
    <2>1. CASE Configure(c, arg)
      BY <2>1, ValidateTells DEF Configure, sysmgrVars
    <2>2. CASE ConfigureRepo(c, arg)
      BY <1>1, <2>2 DEF ConfigureRepo, sysmgrVars
    <2> QED BY <1>11, <2>1, <2>2
  <1>12. CASE Upgrade(c)
    BY <1>1, <1>12 DEF Upgrade, sysmgrVars
  <1> QED BY <1>2, <1>3, <1>4, <1>5, <1>6, <1>8, <1>9, <1>10, <1>11, <1>12
          DEF Command, PipeStart, PipeStop

-----------------------------------------------------------------------------
(* Coroutines tell sysmgr *)

Reconfiguring(r) == r.at = "conf" /\ r.arg.kind = "apps"
\* do_configure waits for the cell of an APP that is still the one it called.
Told == \A p \in Proc : Reconfiguring(co[p]) =>
            /\ Loaded(co[p].id)
            /\ applist[co[p].id].addr = co[p].addr
            /\ applist[co[p].id].app.tpl = co[p].app.tpl

LEMMA NotReconfiguring ==
    ASSUME TypeOK, AllFit, NEW q \in Proc, ~Maintaining(q)
    PROVE  ~Reconfiguring(co[q])
  <1>1. co[q] \in Co /\ Stage(co[q])
    BY DEF TypeOK, AllFit, Fit
  <1>2. co[q].kind \in {"none", "app_new"}
    BY <1>1 DEF Maintaining, Co, Kind
  <1> QED BY <1>1, <1>2 DEF Stage, Reconfiguring, NoConfig, Idle

LEMMA ToldStep ==
    ASSUME NEW p \in Proc, Only(p), \A q \in Proc \ {p} : ~Reconfiguring(co[q]),
           Reconfiguring(co'[p]) =>
                /\ applist'[co'[p].id].st = "loaded"
                /\ applist'[co'[p].id].addr = co'[p].addr
                /\ applist'[co'[p].id].app.tpl = co'[p].app.tpl
    PROVE  Told'
  <1> SUFFICES ASSUME NEW q \in Proc, Reconfiguring(co'[q])
               PROVE  /\ applist'[co'[q].id].st = "loaded"
                      /\ applist'[co'[q].id].addr = co'[q].addr
                      /\ applist'[co'[q].id].app.tpl = co'[q].app.tpl
    BY DEF Told, Reconfiguring, Loaded
  <1>1. q = p
    BY DEF Only
  <1> QED BY <1>1

\* Who takes a step that is not a command's first is alone, or nobody is in
\* maintenance.
LEMMA OthersTold ==
    ASSUME TypeOK, Alone, AllFit, NEW p \in Proc, co[p].at # "idle"
    PROVE  \A q \in Proc \ {p} : ~Reconfiguring(co[q])
  <1>1. ASSUME NEW q \in Proc, co[q] = Idle PROVE ~Reconfiguring(co[q])
    BY <1>1 DEF Reconfiguring, Idle
  <1>2. CASE \A q \in Proc : ~Maintaining(q)
    BY <1>2, NotReconfiguring
  <1> QED BY <1>1, <1>2, Working

\* Of the places a step leads to, one is an answer to conf of do_configure.
LEMMA ValidateTold ==
    ASSUME TypeOK, NEW p \in Proc, NEW arg, NEW tpls, NEW hasrepo,
           Validate(p, arg, tpls, hasrepo)
    PROVE  ~Reconfiguring(co'[p]) /\ co'[p].kind # "boot" /\ Only(p)
  <1>1. ASSUME NEW r, Become(p, r), r.at # "conf", r.kind # "boot"
        PROVE  ~Reconfiguring(co'[p]) /\ co'[p].kind # "boot" /\ Only(p)
    BY <1>1, CoIs DEF Reconfiguring
  <1>2. Idle.at # "conf" /\ Idle.kind # "boot"
    BY DEF Idle
  <1>3. CASE Enter(p, arg)
    <2>1. PICK r : r = [Idle EXCEPT !.kind = "configure", !.arg = arg]
      OBVIOUS
    <2>2. \/ Become(p, [r EXCEPT !.at = "forget"])
          \/ Become(p, Idle)
          \/ Become(p, [r EXCEPT !.at = "apps", !.todo = AppsIn(arg)])
      BY <1>3, <2>1 DEF Enter, Clean, CleanRaises
    <2>3. /\ [r EXCEPT !.at = "forget"].at # "conf"
          /\ [r EXCEPT !.at = "forget"].kind # "boot"
          /\ [r EXCEPT !.at = "apps", !.todo = AppsIn(arg)].at # "conf"
          /\ [r EXCEPT !.at = "apps", !.todo = AppsIn(arg)].kind # "boot"
      BY <2>1 DEF Idle
    <2> QED BY <1>1, <1>2, <2>2, <2>3
  <1>4. CASE \E i \in Missing(arg, tpls) :
               Become(p, [Idle EXCEPT !.kind = "configure", !.at = "install",
                                      !.arg = arg, !.app = arg.apps[i]])
    <2>1. PICK i, r : /\ r = [Idle EXCEPT !.kind = "configure", !.at = "install",
                                          !.arg = arg, !.app = arg.apps[i]]
                      /\ Become(p, r)
      BY <1>4
    <2>2. r.at # "conf" /\ r.kind # "boot"
      BY <2>1 DEF Idle
    <2> QED BY <1>1, <2>1, <2>2
  <1>5. CASE Become(p, Idle)
    BY <1>1, <1>2, <1>5
  <1> QED BY <1>3, <1>4, <1>5 DEF Validate

\* A command does not meet maintenance.
LEMMA CommandOpen ==
    ASSUME Serial, NEW c \in Client, Command(c)
    PROVE  \A q \in Proc : ~Maintaining(q)
  <1>1. \A cmd : Ordinary(c, cmd) => \A q \in Proc : ~Maintaining(q)
    BY OpenCommand
  <1>2. \A cmd : Special(c, cmd) => \A q \in Proc : ~Maintaining(q)
    BY LoneCommand DEF Maintaining, Idle
  <1> QED BY <1>1, <1>2 DEF Command, AppNew, AppNewInstall, AppRemove, PipeNew, PipeNewRaises,
             PipeRemove, PipeRemoveRaises, PipeStart, PipeStop, PipeSwitch,
             Configure, ConfigureRepo, Upgrade

LEMMA CommandTold ==
    ASSUME Serial, TypeOK, AllFit, NEW c \in Client, co[c].kind # "boot", Command(c)
    PROVE  Told' /\ co'[c].kind # "boot"
  <1>1. c \in Proc
    BY DEF Proc
  <1>2. \A q \in Proc : ~Reconfiguring(co[q])
    BY CommandOpen, NotReconfiguring
  <1>3. ~Reconfiguring(co'[c]) /\ co'[c].kind # "boot"
    <2>1. ASSUME NEW r, Become(c, r), r.at # "conf", r.kind # "boot"
          PROVE  ~Reconfiguring(co'[c]) /\ co'[c].kind # "boot"
      BY <1>1, <2>1, CoIs DEF Reconfiguring
    <2>2. CASE co' = co
      BY <1>1, <1>2, <2>2
    <2>3. ASSUME NEW a \in App, AppNew(c, a)
          PROVE  ~Reconfiguring(co'[c]) /\ co'[c].kind # "boot"
      <3>1. PICK i, r : /\ r = [[Idle EXCEPT !.kind = "app_new"] EXCEPT
                                   !.at = "spawn", !.id = i, !.app = a]
                        /\ Become(c, r)
        BY <2>3 DEF AppNew, Reserve
      <3>2. r.at # "conf" /\ r.kind # "boot"
        BY <3>1 DEF Idle
      <3> QED BY <2>1, <3>1, <3>2
    <2>4. ASSUME NEW a \in App, AppNewInstall(c, a)
          PROVE  ~Reconfiguring(co'[c]) /\ co'[c].kind # "boot"
      <3>1. PICK r : r = [Idle EXCEPT !.kind = "app_new", !.at = "install", !.app = a]
        OBVIOUS
      <3>2. r.at # "conf" /\ r.kind # "boot"
        BY <3>1 DEF Idle
      <3> QED BY <2>1, <2>4, <3>1, <3>2 DEF AppNewInstall
    <2>5. ASSUME NEW arg \in ConfigArgs, Configure(c, arg) \/ ConfigureRepo(c, arg)
          PROVE  ~Reconfiguring(co'[c]) /\ co'[c].kind # "boot"
      <3>1. CASE Configure(c, arg)
        BY <1>1, <3>1, ValidateTold DEF Configure
      <3>2. PICK r : r = [Idle EXCEPT !.kind = "configure", !.at = "repo", !.arg = arg]
        OBVIOUS
      <3>3. r.at # "conf" /\ r.kind # "boot"
        BY <3>2 DEF Idle
      <3> QED BY <2>1, <2>5, <3>1, <3>2, <3>3 DEF ConfigureRepo
    <2>6. CASE Upgrade(c)
      <3>1. PICK r : r = [Idle EXCEPT !.kind = "upgrade", !.at = "upgrade"]
        OBVIOUS
      <3>2. r.at # "conf" /\ r.kind # "boot"
        BY <3>1 DEF Idle
      <3> QED BY <2>1, <2>6, <3>1, <3>2 DEF Upgrade
    <2>7. \/ co' = co
          \/ \E a \in App : AppNew(c, a) \/ AppNewInstall(c, a)
          \/ \E arg \in ConfigArgs : Configure(c, arg) \/ ConfigureRepo(c, arg)
          \/ Upgrade(c)
      BY DEF Command, AppRemove, PipeNew, PipeNewRaises,
             PipeRemove, PipeRemoveRaises, PipeStart, PipeStop, PipeSwitch
    <2> QED BY <2>2, <2>3, <2>4, <2>5, <2>6, <2>7
  <1>4. Only(c)
    BY CommandOnly
  <1> QED BY <1>1, <1>2, <1>3, <1>4, ToldStep

LEMMA ResumeTold ==
    ASSUME TypeOK, Kept, NEW p \in Proc, Resume(p)
    PROVE  Told'
  <1>0. /\ co[p] \in Co /\ Sound(co[p]) /\ Fit(co[p]) /\ Stage(co[p])
        /\ Only(p) /\ \A q \in Proc \ {p} : ~Reconfiguring(co[q])
    BY Filled, ResumeKind, OthersTold DEF Kept
  <1>1. ASSUME NEW r, Become(p, r), r.at # "conf" PROVE Told'
    BY <1>0, <1>1, CoIs, ToldStep DEF Reconfiguring
  <1>2. Idle.at # "conf"
    BY DEF Idle
  <1>3. ASSUME AppNewInstalled(p) \/ \E i \in AppId : LoadApp(p, i) PROVE Told'
    <2>1. PICK x, i, a : x \in Co /\ Reserve(p, i, a, x)
      <3>1. [co[p] EXCEPT !.todo = {}] \in Co /\ \A s \in SUBSET (AppId \cup PipeId) :
               [co[p] EXCEPT !.todo = s] \in Co
        BY <1>0 DEF Co
      <3>2. ASSUME NEW i \in AppId, LoadApp(p, i)
            PROVE  \E x, a : x \in Co /\ Reserve(p, i, a, x)
        <4>1. ToLoad(p) \ {i} \in SUBSET (AppId \cup PipeId)
          <5>1. ToLoad(p) \subseteq AppsIn(co[p].arg) \cup co[p].todo
            BY DEF ToLoad
          <5> QED BY <1>0, <5>1 DEF AppsIn, Co
        <4> QED BY <3>1, <3>2, <4>1 DEF LoadApp
      <3> QED BY <1>0, <1>3, <3>2 DEF AppNewInstalled
    <2>2. [x EXCEPT !.at = "spawn", !.id = i, !.app = a].at # "conf"
      BY <2>1 DEF Co
    <2> QED BY <1>1, <2>1, <2>2 DEF Reserve
  <1>4. ASSUME \/ InstallFails(p) \/ SpawnFails(p) \/ ConfRaises(p) \/ RepoFails(p)
               \/ ReconfRefused(p) \/ Finish(p) \/ UpgradeFails(p)
               \/ \E i \in AppId : CleanAppRaises(p, i)
               \/ \E k \in PipeId : LoadPipeRaises(p, k)
        PROVE  Told'
    BY <1>1, <1>2, <1>4 DEF InstallFails, SpawnFails, ConfRaises, RepoFails, ReconfRefused,
       Finish, UpgradeFails, CleanAppRaises, LoadPipeRaises
  <1>5. ASSUME Spawned(p) PROVE Told'
    <2>1. PICK h : Become(p, [co[p] EXCEPT !.at = "conf", !.addr = h]) /\ co[p].at = "spawn"
      BY <1>5 DEF Spawned
    <2>2. co[p].arg.kind # "apps"
      BY <1>0, <2>1, SpawnBusy DEF Busy
    <2>3. [co[p] EXCEPT !.at = "conf", !.addr = h].arg = co[p].arg
      BY <1>0 DEF Co
    <2>4. ~Reconfiguring(co'[p])
      BY <2>1, <2>2, <2>3, CoIs DEF Reconfiguring
    <2> QED BY <1>0, <2>4, ToldStep
  <1>6. ASSUME AppLoaded(p) \/ Reconfigured(p) PROVE Told'
    <2>1. \/ Become(p, Idle)
          \/ Become(p, [co[p] EXCEPT !.at = "apps", !.id = 0, !.app = NoApp, !.addr = NoAddr])
      BY <1>6 DEF AppLoaded, Reconfigured
    <2>2. [co[p] EXCEPT !.at = "apps", !.id = 0, !.app = NoApp, !.addr = NoAddr].at # "conf"
      BY <1>0 DEF Co
    <2> QED BY <1>1, <1>2, <2>1, <2>2
  <1>7. ASSUME RepoUpdated(p) \/ ConfigureInstalled(p) PROVE Told'
    <2>1. ~Reconfiguring(co'[p])
      BY <1>7, ValidateTold DEF RepoUpdated, ConfigureInstalled
    <2> QED BY <1>0, <2>1, ToldStep
  <1>8. ASSUME NEW i \in AppId, CleanApp(p, i) PROVE Told'
    <2>1. [co[p] EXCEPT !.at = "clean", !.todo = ToClean(p) \ {i}].at # "conf"
      BY <1>0 DEF Co
    <2> QED BY <1>1, <1>8, <2>1 DEF CleanApp
  <1>9. ASSUME NEW i \in AppId, Reconf(p, i) PROVE Told'
    <2>1. CASE Loaded(i)
      <3>1. PICK a : a = [tpl |-> applist[i].app.tpl, conf |-> co[p].arg.apps[i].conf]
        OBVIOUS
      <3>2. PICK r : r = [co[p] EXCEPT !.at = "conf", !.todo = ToLoad(p) \ {i}, !.id = i,
                                       !.addr = applist[i].addr, !.app = a]
        OBVIOUS
      <3>3. Become(p, r) /\ applist' = applist
        BY <1>9, <2>1, <3>1, <3>2 DEF Reconf
      <3>4. r.id = i /\ r.addr = applist[i].addr /\ r.app.tpl = applist[i].app.tpl
        BY <1>0, <3>1, <3>2 DEF Co
      <3>5. co'[p] = r
        BY <3>3, CoIs
      <3> QED BY <1>0, <2>1, <3>3, <3>4, <3>5, ToldStep DEF Loaded
    <2>2. CASE ~Loaded(i)
      BY <1>1, <1>2, <1>9, <2>2 DEF Reconf
    <2> QED BY <2>1, <2>2
  <1>10. ASSUME NEW k \in PipeId, LoadPipe(p, k) PROVE Told'
    <2>1. [co[p] EXCEPT !.at = "pipes", !.todo = ToPipe(p) \ {k}].at # "conf"
      BY <1>0 DEF Co
    <2> QED BY <1>1, <1>10, <2>1 DEF LoadPipe
  <1>11. ASSUME UpgradeCleans(p) PROVE Told'
    <2>1. [co[p] EXCEPT !.at = "forget"].at # "conf"
      BY <1>0 DEF Co
    <2> QED BY <1>1, <1>2, <1>11, <2>1 DEF UpgradeCleans, Clean, CleanRaises
  <1>12. ASSUME Quit(p) PROVE Told'
    <2>1. [Idle EXCEPT !.kind = "upgrade", !.at = "quit"].at # "conf"
      BY DEF Idle
    <2> QED BY <1>1, <1>12, <2>1 DEF Quit
  <1> QED BY <1>3, <1>4, <1>5, <1>6, <1>7, <1>8, <1>9, <1>10, <1>11, <1>12 DEF Resume

\* Coroutines other than boot tell what they do.
LEMMA ResumeTells ==
    ASSUME TypeOK, Kept, Long, Told, cfg.repo, NEW p \in Proc, co[p].kind # "boot", Resume(p)
    PROVE  Tells
  <1>0. /\ Rooted /\ co[p] \in Co /\ Sound(co[p]) /\ Fit(co[p]) /\ Stage(co[p])
    BY Filled DEF Kept
  <1>1. AppNewInstalled(p) => Tells
    <2> HAVE AppNewInstalled(p)
    <2>1. PICK i \in NewAppId : applist' = [applist EXCEPT ![i] = ReservedSlot]
      BY DEF AppNewInstalled, Reserve
    <2>2. i \in AppId /\ ~Loaded(i) /\ ReservedSlot.st # "loaded"
      BY <2>1 DEF NewAppId, Present, Loaded, ReservedSlot, FreeSlot
    <2>3. Image' = Image
      BY <2>1, <2>2, SlotImage
    <2> QED BY <2>3, StayTells DEF AppNewInstalled, sysmgrVars
  <1>2. ASSUME \/ InstallFails(p) \/ ConfRaises(p) \/ RepoFails(p) \/ UpgradeFails(p)
               \/ ReconfRefused(p) \/ Finish(p) \/ Spawned(p) \/ Quit(p)
               \/ \E i \in AppId : CleanAppRaises(p, i) \/ Reconf(p, i)
        PROVE  Tells
    <2>1. UNCHANGED <<applist, pipelist, queue, cfg, files>>
      BY <1>2 DEF InstallFails, ConfRaises, RepoFails, UpgradeFails, ReconfRefused, Finish,
         Spawned, Quit, CleanAppRaises, Reconf, sysmgrVars
    <2> QED BY <2>1, SameImage, StayTells
  <1>3. ASSUME SpawnFails(p) PROVE Tells
    <2>1. /\ applist' = [applist EXCEPT ![co[p].id] = FreeSlot]
          /\ FreeSlot.st # "loaded" /\ co[p].at = "spawn"
      BY <1>3 DEF SpawnFails, Vacate, FreeSlot
    <2>2. co[p].id \in AppId /\ ~Loaded(co[p].id)
      BY <1>0, <2>1, SpawnBusy, HeldIds DEF Kept
    <2>3. Image' = Image
      BY <2>1, <2>2, SlotImage
    <2> QED BY <1>3, <2>3, StayTells DEF SpawnFails, sysmgrVars
  <1>4. ASSUME AppLoaded(p) PROVE Tells
    <2>1. /\ applist' = [applist EXCEPT ![co[p].id] = LoadedSlot(co[p].app, co[p].addr)]
          /\ Busy(co[p]) /\ Put(p, co[p].id, co[p].app) /\ UNCHANGED <<pipelist, cfg, files>>
      BY <1>4 DEF AppLoaded, Busy, sysmgrVars
    <2>2. LoadedSlot(co[p].app, co[p].addr).st = "loaded"
          /\ LoadedSlot(co[p].app, co[p].addr).app = co[p].app
      BY DEF LoadedSlot
    <2>3. PICK i \in AppId : i = co[p].id /\ ~Loaded(i)
      BY <2>1, HeldIds DEF Kept
    <2>4. PICK a : a = co[p].app
      OBVIOUS
    <2>5. Image' = [Image EXCEPT ![i] = a] /\ Image[i] = NoApp
      <3>1. Image' = [Image EXCEPT ![i] = IF LoadedSlot(co[p].app, co[p].addr).st = "loaded"
                         THEN LoadedSlot(co[p].app, co[p].addr).app ELSE NoApp]
        BY <2>1, <2>3, SlotImage
      <3> QED BY <2>2, <2>3, <2>4, <3>1 DEF Image
    <2>6. Put(p, i, a)
      BY <2>1, <2>3, <2>4
    <2> QED BY <2>1, <2>5, <2>6, PutTells
  <1>5. ASSUME RepoUpdated(p) \/ ConfigureInstalled(p) PROVE Tells
    <2>1. cfg' = cfg
      <3>1. cfg \in Saved
        BY DEF TypeOK, Saved
      <3> QED BY <1>5, <3>1 DEF RepoUpdated, ConfigureInstalled, Saved, sysmgrVars
    <2> QED BY <1>0, <1>5, <2>1, ValidateTells DEF RepoUpdated, ConfigureInstalled, sysmgrVars
  <1>6. ASSUME NEW i \in AppId, CleanApp(p, i) PROVE Tells
    <2>1. /\ Loaded(i) /\ applist' = [applist EXCEPT ![i] = FreeSlot] /\ FreeSlot.st # "loaded"
          /\ Del(p, i) /\ UNCHANGED <<pipelist, cfg, files>>
      BY <1>6 DEF CleanApp, Vacate, FreeSlot, sysmgrVars
    <2>2. Image' = [Image EXCEPT ![i] = NoApp]
      BY <2>1, SlotImage
    <2> QED BY <2>1, <2>2, DelTells
  <1>7. ASSUME NEW i \in AppId, LoadApp(p, i) PROVE Tells
    <2>1. /\ applist' = [applist EXCEPT ![i] = ReservedSlot]
          /\ i \in ToLoad(p) /\ co[p].arg.kind = "full"
      BY <1>7 DEF LoadApp, Reserve
    <2>2. Cleaned(p) \/ co[p].at = "apps"
      BY <2>1 DEF ToLoad
    <2>3. ~Loaded(i) /\ ReservedSlot.st # "loaded"
      BY <2>1, <2>2, Filled DEF Present, Loaded, ReservedSlot, FreeSlot
    <2>4. Image' = Image
      BY <2>1, <2>3, SlotImage
    <2> QED BY <1>7, <2>4, StayTells DEF LoadApp, sysmgrVars
  <1>8. ASSUME Reconfigured(p) PROVE Tells
    <2>1. PICK i \in AppId : i = co[p].id
      BY <1>0, <1>8 DEF Reconfigured, Sound
    <2>2. PICK a : a = co[p].app
      OBVIOUS
    <2>3. Loaded(i) /\ applist[i].addr = co[p].addr /\ applist[i].app.tpl = a.tpl
      BY <1>8, <2>1, <2>2 DEF Reconfigured, Told, Reconfiguring
    <2>4. /\ applist' = [applist EXCEPT ![i].app = a]
          /\ Put(p, i, a) /\ UNCHANGED <<pipelist, cfg, files>>
      BY <1>8, <2>1, <2>2, <2>3 DEF Reconfigured, sysmgrVars
    <2>5. PICK s : s = [applist[i] EXCEPT !.app = a]
      OBVIOUS
    <2>6. s.st = "loaded" /\ s.app = a
      <3>1. applist[i] \in Slot
        BY Numbers DEF TypeOK
      <3> QED BY <2>3, <2>5, <3>1 DEF Slot, Loaded
    <2>7. applist' = [applist EXCEPT ![i] = s]
      BY <2>4, <2>5
    <2>8. Image' = [Image EXCEPT ![i] = a]
      <3>1. Image' = [Image EXCEPT ![i] = IF s.st = "loaded" THEN s.app ELSE NoApp]
        BY <2>7, SlotImage
      <3> QED BY <2>6, <3>1
    <2>9. Image[i].tpl = a.tpl
      BY <2>3 DEF Image
    <2> QED BY <2>4, <2>8, <2>9, PutTells
  <1>9. ASSUME NEW k \in PipeId, LoadPipe(p, k) PROVE Tells
    <2> DEFINE new == [co[p].arg.pipes[k] EXCEPT !.st = TryStart(@ = "started")]
    <2>1. /\ k \in ToPipe(p)
          /\ applist' = WithRoutes(k, new.apps, Len(new.apps))
          /\ pipelist' = [pipelist EXCEPT ![k] = new]
          /\ PutPipes(p, pipelist') /\ UNCHANGED <<cfg, files>>
      BY <1>9 DEF LoadPipe, sysmgrVars
    <2>2. co[p].arg.pipes[k] \in Pipe
      BY <1>0 DEF Co, Config, PipeTable
    <2>3. new.apps = co[p].arg.pipes[k].apps
      BY <2>2 DEF Pipe
    <2> HIDE DEF new
    <2>4. Len(new.apps) > 1 /\ new.apps \in Seq(Elem)
      BY <2>1, <2>2, <2>3, Piped DEF PipesValid, Pipe
    <2>5. Image' = Image
      BY <2>1, <2>4, RoutesImage
    <2>6. Long'
      BY <2>1, <2>4, EnteredLong
    <2> QED BY <2>1, <2>5, <2>6, PipesTells
  <1>10. ASSUME NEW k \in PipeId, LoadPipeRaises(p, k) PROVE Tells
    BY <1>10, Piped DEF LoadPipeRaises
  <1>11. ASSUME UpgradeCleans(p) PROVE Tells
    BY <1>0, <1>11, CleanTells DEF UpgradeCleans, sysmgrVars
  <1> QED
    BY <1>1, <1>2, <1>3, <1>4, <1>5, <1>6, <1>7, <1>8, <1>9, <1>10, <1>11 DEF Resume

-----------------------------------------------------------------------------
(* Boot *)

\* How far boot is: what is there is what is saved.
Copied(r) ==
    /\ r.arg.apps = cfg.apps /\ r.arg.pipes = cfg.pipes
    /\ \A i \in AppId : Loaded(i) => applist[i].app = cfg.apps[i]
    /\ Busy(r) => r.app = cfg.apps[r.id]
    /\ \A k \in PipeId : HasPipe(k) => pipelist[k] = cfg.pipes[k]
    /\ r.at = "pipes" => \A k \in PipesIn(r.arg) \ r.todo : HasPipe(k)
Booted == co[Boot].kind = "boot" =>
    /\ queue = <<>>
    /\ co[Boot].at # "start" => Copied(co[Boot])
Restored == co'[Boot] = Idle /\ Image' = cfg.apps /\ pipelist' = cfg.pipes

LEMMA LongKept ==
    ASSUME Long, pipelist' = pipelist
    PROVE  Long'
  BY DEF Long, HasPipe

\* What boot does in one step, when nothing of it fails.
LEMMA BootResumes ==
    ASSUME TypeOK, Kept, Long, Booted, Loadable(cfg), co[Boot].kind = "boot", Resume(Boot),
           "conf_raises" \notin Faults, "boot_spawn_fails" \notin Faults
    PROVE  /\ UNCHANGED <<cfg, files, queue>> /\ Long'
           /\ Restored \/ (co'[Boot].at # "start" /\ co'[Boot].kind = "boot" /\ Copied(co[Boot])')
  <1> DEFINE b == co[Boot]
             Goal == /\ UNCHANGED <<cfg, files, queue>> /\ Long'
                     /\ \/ Restored
                        \/ co'[Boot].at # "start" /\ co'[Boot].kind = "boot" /\ Copied(co[Boot])'
  <1>0. /\ Boot \in Proc /\ Rooted /\ b \in Co /\ Sound(b) /\ Fit(b) /\ Stage(b)
        /\ b.at \in {"start", "apps", "spawn", "conf", "pipes"}
        /\ b.at # "start" => b.arg.kind = "full" /\ Copied(b)
        /\ queue = <<>> /\ ~Waiting(Boot) /\ ~Cleaned(Boot)
    <2>1. Boot \in Proc
      BY Numbers
    <2>2. Rooted /\ b \in Co /\ Sound(b) /\ Fit(b) /\ Stage(b)
      BY <2>1, Filled DEF Kept
    <2>3. /\ b.at \in {"start", "apps", "spawn", "conf", "pipes"}
          /\ b.at # "start" => b.arg.kind = "full"
      BY <2>2 DEF Stage
    <2>4. queue = <<>> /\ (b.at # "start" => Copied(b))
      BY DEF Booted
    <2>5. ~Waiting(Boot) /\ ~Cleaned(Boot)
      BY <2>3, <2>4 DEF Waiting, Cleaned, InClean
    <2> QED BY <2>1, <2>2, <2>3, <2>4, <2>5
  <1>1. ASSUME NEW r \in Co, Become(Boot, r), UNCHANGED <<cfg, files, queue, pipelist>>,
               r.at \in {"apps", "spawn", "conf"}, r.kind = "boot", r.arg = b.arg, b.at # "start",
               \A i \in AppId : Loaded(i)' => applist'[i].app = cfg.apps[i],
               Busy(r) => r.app = cfg.apps[r.id]
        PROVE  Goal
    <2>1. co'[Boot] = r
      BY <1>0, <1>1, CoIs
    <2>2. \A k \in PipeId : HasPipe(k)' => pipelist'[k] = cfg.pipes[k]
      BY <1>0, <1>1 DEF Copied, HasPipe
    <2>3. r.arg.apps = cfg.apps /\ r.arg.pipes = cfg.pipes
      BY <1>0, <1>1 DEF Copied
    <2>4. Copied(r)'
      BY <1>1, <2>2, <2>3 DEF Copied
    <2>5. Copied(co[Boot])'
      BY <2>1, <2>4
    <2> QED BY <1>1, <2>1, <2>5, LongKept
  <1>2. Spawned(Boot) => Goal
    <2> HAVE Spawned(Boot)
    <2>1. PICK h \in Handle : Become(Boot, [b EXCEPT !.at = "conf", !.addr = h])
      BY DEF Spawned
    <2>2. b.at = "spawn" /\ UNCHANGED <<cfg, files, queue, pipelist, applist>>
      BY DEF Spawned, sysmgrVars
    <2>3. PICK r : r = [b EXCEPT !.at = "conf", !.addr = h]
      OBVIOUS
    <2>4. /\ r \in Co /\ r.at = "conf" /\ r.kind = "boot" /\ r.arg = b.arg
          /\ r.app = b.app /\ r.id = b.id
      BY <1>0, <2>1, <2>3, Numbers DEF Co, Place
    <2>5. Busy(r) => r.app = cfg.apps[r.id]
      BY <1>0, <2>2, <2>4 DEF Busy, Copied
    <2>6. \A i \in AppId : Loaded(i)' => applist'[i].app = cfg.apps[i]
      BY <1>0, <2>2 DEF Copied, Loaded
    <2>7. Become(Boot, r)
      BY <2>1, <2>3
    <2> QED BY <1>1, <2>2, <2>4, <2>5, <2>6, <2>7
  <1>3. AppLoaded(Boot) => Goal
    <2> HAVE AppLoaded(Boot)
    <2>1. /\ b.at = "conf" /\ b.arg.kind # "apps"
          /\ applist' = [applist EXCEPT ![b.id] = LoadedSlot(b.app, b.addr)]
          /\ Become(Boot, [b EXCEPT !.at = "apps", !.id = 0, !.app = NoApp, !.addr = NoAddr])
          /\ UNCHANGED <<cfg, files, queue, pipelist>>
      BY DEF AppLoaded, sysmgrVars
    <2>2. PICK r : r = [b EXCEPT !.at = "apps", !.id = 0, !.app = NoApp, !.addr = NoAddr]
      OBVIOUS
    <2>3. /\ r \in Co /\ r.at = "apps" /\ r.kind = "boot" /\ r.arg = b.arg
      BY <1>0, <2>2, Numbers DEF Co, Place
    <2>4. b.id \in AppId /\ b.app = cfg.apps[b.id]
      BY <1>0, <2>1 DEF Sound, Copied, Busy
    <2>5. LoadedSlot(b.app, b.addr).app = b.app
      BY DEF LoadedSlot
    <2>6. \A i \in AppId : Loaded(i)' => applist'[i].app = cfg.apps[i]
      <3> TAKE i \in AppId
      <3>1. i \in Elem /\ DOMAIN applist = Elem
        BY Numbers DEF TypeOK
      <3> QED BY <1>0, <2>1, <2>4, <2>5, <3>1 DEF Copied, Loaded
    <2>7. Become(Boot, r) /\ ~Busy(r)
      BY <2>1, <2>2, <2>3 DEF Busy
    <2> QED BY <1>1, <2>1, <2>3, <2>6, <2>7
  <1>4. ASSUME NEW i \in AppId, LoadApp(Boot, i) PROVE Goal
    <2>1. b.at = "apps" /\ i \in b.todo /\ ToLoad(Boot) = b.todo
      BY <1>0, <1>4 DEF LoadApp, ToLoad
    <2>2. PICK x : x = [b EXCEPT !.todo = b.todo \ {i}]
      OBVIOUS
    <2>3. /\ Reserve(Boot, i, b.arg.apps[i], x)
          /\ UNCHANGED <<cfg, files, queue, pipelist>>
      BY <1>4, <2>1, <2>2 DEF LoadApp, sysmgrVars
    <2>4. PICK r : r = [x EXCEPT !.at = "spawn", !.id = i, !.app = b.arg.apps[i]]
      OBVIOUS
    <2>5. /\ r.at = "spawn" /\ r.kind = "boot" /\ r.arg = b.arg
          /\ r.id = i /\ r.app = b.arg.apps[i] /\ r \in Co
      <3>1. b.arg.apps[i] \in App \cup {NoApp}
        BY <1>0 DEF Co, Config, AppTable
      <3>2. x \in Co /\ x.kind = "boot" /\ x.arg = b.arg
        BY <1>0, <2>2 DEF Co
      <3> QED BY <2>4, <3>1, <3>2 DEF Co, Place
    <2>6. applist' = [applist EXCEPT ![i] = ReservedSlot] /\ ReservedSlot.st # "loaded"
      BY <2>3 DEF Reserve, ReservedSlot, FreeSlot
    <2>7. \A j \in AppId : Loaded(j)' => applist'[j].app = cfg.apps[j]
      <3> TAKE j \in AppId
      <3>1. j \in Elem /\ DOMAIN applist = Elem
        BY Numbers DEF TypeOK
      <3> QED BY <1>0, <2>1, <2>6, <3>1 DEF Copied, Loaded
    <2>8. r.app = cfg.apps[r.id]
      BY <1>0, <2>1, <2>5 DEF Copied
    <2>9. Become(Boot, r)
      BY <2>3, <2>4 DEF Reserve
    <2> QED BY <1>1, <2>1, <2>3, <2>5, <2>7, <2>8, <2>9
  <1>5. ASSUME NEW k \in PipeId, LoadPipe(Boot, k) PROVE Goal
    <2> DEFINE new == [b.arg.pipes[k] EXCEPT !.st = TryStart(@ = "started")]
    <2>1. /\ k \in ToPipe(Boot)
          /\ applist' = WithRoutes(k, new.apps, Len(new.apps))
          /\ pipelist' = [pipelist EXCEPT ![k] = new]
          /\ UNCHANGED <<cfg, files, queue>>
          /\ Become(Boot, [b EXCEPT !.at = "pipes", !.todo = ToPipe(Boot) \ {k}])
      BY <1>5 DEF LoadPipe, sysmgrVars
    <2>2. /\ b.arg.pipes[k] \in Pipe /\ b.arg.pipes[k].st # "none" /\ b.at # "start"
          /\ Len(b.arg.pipes[k].apps) > 1 /\ ToPipe(Boot) \subseteq PipesIn(b.arg)
      <3>1. b.arg.pipes[k] \in Pipe
        BY <1>0 DEF Co, Config, PipeTable
      <3>2. b.at # "start"
        BY <1>0, <2>1 DEF ToPipe, AppsDone
      <3> QED BY <1>0, <2>1, <3>1, <3>2, Piped DEF PipesValid, PipesIn
    <2>3. new = cfg.pipes[k]
      <3>1. new = b.arg.pipes[k]
        BY <2>2 DEF Pipe, PipeState, TryStart
      <3> QED BY <1>0, <2>2, <3>1 DEF Copied
    <2>4. new \in Pipe /\ new.st # "none" /\ Len(new.apps) > 1 /\ new.apps \in Seq(Elem)
      <3>1. cfg.pipes[k] = b.arg.pipes[k]
        BY <1>0, <2>2 DEF Copied
      <3> HIDE DEF new
      <3> QED BY <2>2, <2>3, <3>1 DEF Pipe
    <2> HIDE DEF new
    <2>5. Image' = Image /\ \A e \in Elem : applist'[e].st = applist[e].st
      BY <2>1, <2>4, RoutesImage, RoutesMade
    <2>6. \A i \in AppId : Loaded(i)' => applist'[i].app = cfg.apps[i]
      <3> TAKE i \in AppId
      <3>1. Loaded(i)' = Loaded(i)
        BY <2>5, Numbers DEF Loaded
      <3>2. Image'[i] = Image[i]
        BY <2>5
      <3> QED BY <1>0, <2>2, <3>1, <3>2 DEF Image, Copied
    <2>7. Long'
      BY <2>1, <2>4, EnteredLong
    <2>8. PICK r : r = [b EXCEPT !.at = "pipes", !.todo = ToPipe(Boot) \ {k}]
      OBVIOUS
    <2>9. /\ r.at = "pipes" /\ r.kind = "boot" /\ r.arg = b.arg
          /\ r.todo = ToPipe(Boot) \ {k} /\ ~Busy(r)
      BY <1>0, <2>8 DEF Co, Busy
    <2>10. co'[Boot] = r
      BY <1>0, <2>1, <2>8, CoIs
    <2>11. \A j \in PipeId : pipelist'[j] = IF j = k THEN new ELSE pipelist[j]
      BY <2>1 DEF TypeOK, PipeTable
    <2>12. \A j \in PipeId : HasPipe(j)' => pipelist'[j] = cfg.pipes[j]
      BY <1>0, <2>2, <2>3, <2>11 DEF Copied, HasPipe
    <2>13. \A j \in PipesIn(r.arg) \ r.todo : HasPipe(j)'
      <3> TAKE j \in PipesIn(r.arg) \ r.todo
      <3>1. j \in PipeId /\ j \in PipesIn(b.arg) /\ (j = k \/ j \notin ToPipe(Boot))
        BY <2>9 DEF PipesIn
      <3>2. CASE j = k
        BY <2>4, <2>11, <3>1, <3>2 DEF HasPipe
      <3>3. CASE j # k
        <4>1. j \notin ToPipe(Boot)
          BY <3>1, <3>3
        <4>2. b.at = "pipes" /\ ToPipe(Boot) = b.todo
          <5>1. ToPipe(Boot) # PipesIn(b.arg)
            BY <3>1, <4>1
          <5> QED BY <1>0, <2>1, <2>2, <5>1 DEF ToPipe
        <4>3. HasPipe(j)
          BY <1>0, <2>2, <3>1, <4>1, <4>2 DEF Copied
        <4> QED BY <2>11, <3>1, <3>3, <4>3 DEF HasPipe
      <3> QED BY <3>2, <3>3
    <2>14. r.arg.apps = cfg.apps /\ r.arg.pipes = cfg.pipes
      BY <1>0, <2>2, <2>9 DEF Copied
    <2>15. Copied(r)'
      BY <2>1, <2>6, <2>9, <2>12, <2>13, <2>14 DEF Copied
    <2>16. Copied(co[Boot])'
      BY <2>10, <2>15
    <2> QED BY <2>1, <2>7, <2>9, <2>10, <2>16
  <1>6. Finish(Boot) => Goal
    <2> HAVE Finish(Boot)
    <2>1. /\ Become(Boot, Idle) /\ UNCHANGED <<cfg, files, queue, pipelist, applist>>
          /\ ToPipe(Boot) = {} /\ b.at \in {"apps", "pipes"}
          /\ b.at = "apps" => AppsDone(Boot)
      BY <1>0 DEF Finish, AppsDone, sysmgrVars
    <2>2. co'[Boot] = Idle
      BY <1>0, <2>1, CoIs
    <2>3. Copied(b) /\ b.arg.kind = "full"
      BY <1>0, <2>1
    <2>4. ASSUME b.at = "apps"
          PROVE  /\ \A i \in AppsIn(b.arg) : Loaded(i)
                 /\ \A k \in PipeId : pipelist[k] = cfg.pipes[k]
      <3>1. b.todo = {} /\ AppsDone(Boot)
        BY <1>0, <2>1, <2>4 DEF AppsDone, ToLoad
      <3>2. Filling(b) /\ ~Busy(b)
        BY <2>3, <2>4 DEF Filling, Busy
      <3>3. pipelist = NoPipes /\ \A i \in AppsIn(b.arg) : Loaded(i)
        BY <1>0, <3>1, <3>2 DEF Fit
      <3>4. PipesIn(b.arg) = {}
        <4>1. ToPipe(Boot) = PipesIn(co[Boot].arg)
          BY <2>3, <2>4, <3>1 DEF ToPipe
        <4> QED BY <2>1, <4>1
      <3>5. \A k \in PipeId : pipelist[k] = cfg.pipes[k]
        BY <2>3, <3>3, <3>4 DEF Copied, PipesIn, Loadable, NoPipes
      <3> QED BY <3>3, <3>5
    <2>5. ASSUME b.at = "pipes"
          PROVE  /\ \A i \in AppsIn(b.arg) : Loaded(i)
                 /\ \A k \in PipeId : pipelist[k] = cfg.pipes[k]
      <3>1. b.todo = {}
        BY <1>0, <2>1, <2>5 DEF ToPipe, AppsDone
      <3>2. \A i \in AppsIn(b.arg) : Loaded(i)
        BY <1>0, <2>5 DEF Fit
      <3>3. \A k \in PipesIn(b.arg) : HasPipe(k)
        BY <2>3, <2>5, <3>1 DEF Copied
      <3>4. ASSUME NEW k \in PipeId PROVE pipelist[k] = cfg.pipes[k]
        <4>1. CASE HasPipe(k)
          BY <2>3, <4>1 DEF Copied
        <4>2. CASE ~HasPipe(k)
          <5>1. pipelist[k] = NoPipe
            BY <1>0, <4>2 DEF Rooted, NonePlain
          <5>2. cfg.pipes[k].st = "none"
            BY <2>3, <3>3, <4>2 DEF Copied, PipesIn
          <5> QED BY <5>1, <5>2 DEF Loadable
        <4> QED BY <4>1, <4>2
      <3> QED BY <3>2, <3>4
    <2>6. /\ \A i \in AppsIn(b.arg) : Loaded(i)
          /\ \A k \in PipeId : pipelist[k] = cfg.pipes[k]
      BY <2>1, <2>4, <2>5
    <2>7. pipelist = cfg.pipes
      <3>1. pipelist \in PipeTable /\ cfg.pipes \in PipeTable
        BY DEF TypeOK
      <3> QED BY <2>6, <3>1 DEF PipeTable
    <2>8. Image = cfg.apps
      <3>1. cfg.apps \in AppTable
        BY DEF TypeOK
      <3>2. ASSUME NEW i \in AppId PROVE Image[i] = cfg.apps[i]
        <4>1. CASE Loaded(i)
          BY <2>3, <4>1 DEF Image, Copied
        <4>2. CASE ~Loaded(i)
          <5>1. i \notin AppsIn(b.arg)
            BY <2>6, <4>2
          <5> QED BY <2>3, <4>2, <5>1 DEF AppsIn, Image, Copied
        <4> QED BY <4>1, <4>2
      <3> QED BY <3>1, <3>2 DEF AppTable, Image
    <2>9. Image' = Image
      BY <2>1, SameImage
    <2> QED BY <2>1, <2>2, <2>7, <2>8, <2>9, LongKept DEF Restored
  <1>7. /\ ~AppNewInstalled(Boot) /\ ~InstallFails(Boot) /\ ~SpawnFails(Boot)
        /\ ~RepoUpdated(Boot) /\ ~RepoFails(Boot) /\ ~ConfigureInstalled(Boot)
        /\ \A i \in AppId : ~CleanApp(Boot, i) /\ ~CleanAppRaises(Boot, i)
        /\ ~UpgradeFails(Boot) /\ ~UpgradeCleans(Boot) /\ ~Quit(Boot)
    BY <1>0 DEF AppNewInstalled, InstallFails, SpawnFails, RepoUpdated, RepoFails,
       ConfigureInstalled, CleanApp, CleanAppRaises, InClean, UpgradeFails, UpgradeCleans, Quit
  <1>8. ~ConfRaises(Boot) /\ ~Reconfigured(Boot) /\ ~ReconfRefused(Boot)
        /\ \A i \in AppId : ~Reconf(Boot, i)
    <2>1. b.at = "conf" => b.arg.kind = "full" /\ b.addr \in cells
      BY <1>0 DEF Fit, Busy
    <2>2. ASSUME NEW i \in AppId, Reconf(Boot, i) PROVE FALSE
      <3>1. b.at = "apps"
        BY <1>0, <2>2 DEF Reconf, ToLoad
      <3> QED BY <1>0, <2>2, <3>1 DEF Reconf
    <2> QED BY <2>1, <2>2 DEF ConfRaises, Reconfigured, ReconfRefused
  <1>9. \A k \in PipeId : ~LoadPipeRaises(Boot, k)
    BY <1>0, Piped DEF LoadPipeRaises
  <1> QED BY <1>2, <1>3, <1>4, <1>5, <1>6, <1>7, <1>8, <1>9 DEF Resume

-----------------------------------------------------------------------------
(* Saving and restoring: every step *)

Clients == \A c \in Client : co[c].kind # "boot"
WInv == Written /\ Filed /\ Long /\ Told /\ Booted /\ Clients

LEMMA CfgGood ==
    ASSUME TypeOK, Written
    PROVE  cfg \in Saved /\ Loadable(cfg)
  <1>1. PICK T : Chronicle(T)
    BY DEF Written
  <1>2. T[0] = cfg /\ 0 \in 0..Len(queue)
    BY <1>1, QueueIs DEF Chronicle, Trace
  <1> QED BY <1>1, <1>2 DEF Chronicle

\* Outside boot, what is told is what changed.
LEMMA TellsWritten ==
    ASSUME TypeOK, Written, Filed, co[Boot] = Idle, Tells, (TypeOK /\ Rooted)'
    PROVE  Written' /\ Filed' /\ Long'
  <1>1. cfg' = cfg /\ files' = files /\ Long'
    BY DEF Tells
  <1>2. Filed'
    BY <1>1 DEF Filed
  <1>3. CASE queue' = queue /\ Now' = Now
    BY <1>1, <1>2, <1>3, StayWritten
  <1>4. ASSUME NEW r, queue' = Append(queue, r), Now' = Applied(Now, r), Suits(Now, r)
        PROVE  Written'
    <2>1. (Now \in Saved)' /\ Loadable(Now)'
      BY <1>1, NowSavedNext
    <2> QED BY <1>1, <1>4, <2>1, SendWritten
  <1>5. Written'
    BY <1>3, <1>4 DEF Tells
  <1> QED BY <1>1, <1>2, <1>5

LEMMA StillBooted ==
    ASSUME co'[Boot] = Idle
    PROVE  Booted'
  BY DEF Booted, Idle

\* A step of a coroutine that is not boot's.
LEMMA OtherSaves ==
    ASSUME TypeOK, Written, Filed, (TypeOK /\ Rooted)', Tells,
           co[Boot] = Idle, NEW p \in Proc \ {Boot}, Only(p), Told',
           Clients, co'[p].kind # "boot"
    PROVE  WInv' /\ co'[Boot] = co[Boot]
  <1>1. co'[Boot] = Idle
    BY Numbers DEF Only
  <1>2. Clients'
    BY DEF Clients, Only, Proc
  <1> QED BY <1>1, <1>2, TellsWritten, StillBooted DEF WInv

LEMMA SavesStep ==
    ASSUME Serial, "conf_raises" \notin Faults, "boot_spawn_fails" \notin Faults,
           "http_fails" \notin Faults,
           SInv, Booting, WInv, [Next]_vars, SInv'
    PROVE  /\ WInv'
           /\ co[Boot] # Idle /\ co'[Boot] = Idle => Restored
  <1> DEFINE Goal == WInv' /\ (co[Boot] # Idle /\ co'[Boot] = Idle => Restored)
  <1>0. /\ TypeOK /\ Kept /\ Alone /\ AllFit /\ Rooted /\ (TypeOK /\ Rooted)'
        /\ Written /\ Filed /\ Long /\ Told /\ Booted /\ Clients
        /\ cfg \in Saved /\ Loadable(cfg) /\ cfg.repo /\ Boot \in Proc /\ Boot \notin Client
    BY CfgGood, Numbers, ProcAssumption DEF SInv, IInv, Kept, WInv, Loadable
  <1>1. ASSUME NEW c \in Client, Command(c) PROVE Goal
    <2>1. co[Boot] = Idle
      BY <1>0, <1>1, CommandOpen, BootIdle
    <2>2. c \in Proc \ {Boot} /\ co[c].kind # "boot"
      BY <1>0 DEF Proc, Clients
    <2>3. Only(c) /\ Tells /\ Told' /\ co'[c].kind # "boot"
      BY <1>0, <1>1, <2>2, CommandOnly, CommandTells, CommandTold
    <2> QED BY <1>0, <2>1, <2>2, <2>3, OtherSaves
  <1>2. ASSUME NEW p \in Proc \ {Boot}, Resume(p) PROVE Goal
    <2>1. Only(p) /\ co[p].at # "idle" /\ (co'[p] = Idle \/ co'[p].kind = co[p].kind) /\ Told'
      BY <1>0, <1>2, ResumeKind, ResumeTold
    <2>2. co[Boot] = Idle
      BY <1>0, <2>1, Working, BootIdle
    <2>3. co[p].kind # "boot" /\ co'[p].kind # "boot"
      BY <1>0, <2>1 DEF Clients, Proc, Idle
    <2>4. Tells
      BY <1>0, <1>2, <2>3, ResumeTells
    <2> QED BY <1>0, <2>1, <2>2, <2>3, <2>4, OtherSaves
  <1>3. CASE Resume(Boot)
    <2>1. Only(Boot) /\ co[Boot].at # "idle" /\ Told'
      BY <1>0, <1>3, ResumeKind, ResumeTold
    <2>2. co[Boot].kind = "boot" /\ co[Boot] # Idle
      BY <1>0, <2>1 DEF AllFit, Fit, Stage, Booting, Idle
    <2>3. /\ UNCHANGED <<cfg, files, queue>> /\ Long'
          /\ Restored \/ (co'[Boot].at # "start" /\ co'[Boot].kind = "boot" /\ Copied(co[Boot])')
      BY <1>0, <1>3, <2>2, BootResumes
    <2>4. Clients' /\ Filed' /\ queue = <<>>
      BY <1>0, <2>1, <2>2, <2>3 DEF Clients, Only, Filed, Booted, Proc
    <2>5. CASE Restored
      <3>1. Now' = cfg
        BY <1>0, <2>5 DEF Now, Restored, Saved
      <3>2. Written'
        BY <1>0, <2>3, <2>4, <3>1, StayWritten
      <3>3. Booted'
        BY <2>5, StillBooted DEF Restored
      <3> QED BY <2>1, <2>3, <2>4, <2>5, <3>2, <3>3 DEF WInv
    <2>6. CASE co'[Boot].at # "start" /\ co'[Boot].kind = "boot" /\ Copied(co[Boot])'
      <3>1. co'[Boot] # Idle
        BY <2>6 DEF Idle
      <3>2. Written'
        BY <1>0, <2>3, <3>1, StayWritten
      <3>3. Booted'
        BY <2>3, <2>4, <2>6 DEF Booted
      <3> QED BY <2>1, <2>3, <2>4, <3>1, <3>2, <3>3 DEF WInv
    <2> QED BY <2>3, <2>5, <2>6
  <1>4. CASE BootConfigures
    <2>1. PICK total : /\ total = [kind |-> "full", repo |-> TRUE, apps |-> cfg.apps, pipes |-> cfg.pipes]
                       /\ Become(Boot, [Idle EXCEPT !.kind = "boot", !.at = "apps",
                                        !.arg = total, !.todo = AppsIn(total)])
      BY <1>4 DEF BootConfigures
    <2>2. PICK r : r = [Idle EXCEPT !.kind = "boot", !.at = "apps",
                                    !.arg = total, !.todo = AppsIn(total)]
      OBVIOUS
    <2>3. /\ co[Boot].at = "start" /\ UNCHANGED <<cfg, files, queue, pipelist, applist>>
      BY <1>4 DEF BootConfigures, sysmgrVars
    <2>4. co[Boot].kind = "boot" /\ co[Boot] # Idle /\ queue = <<>>
          /\ pipelist = NoPipes /\ \A i \in AppId : ~Present(i)
      BY <1>0, <2>3 DEF AllFit, Fit, Stage, Booting, Idle, Booted
    <2>5. r.kind = "boot" /\ r.at = "apps" /\ r.arg = total /\ ~Busy(r)
      BY <2>2 DEF Idle, Busy
    <2>6. co'[Boot] = r /\ Only(Boot)
      BY <1>0, <2>1, <2>2, CoIs
    <2>7. Copied(r)'
      <3>1. r.arg.apps = cfg.apps /\ r.arg.pipes = cfg.pipes
        BY <2>1, <2>5
      <3>2. \A i \in AppId : ~Loaded(i)'
        BY <2>3, <2>4 DEF Loaded, Present
      <3>3. \A k \in PipeId : ~HasPipe(k)'
        BY <2>3, <2>4 DEF HasPipe, NoPipes, NoPipe
      <3> QED BY <2>3, <2>5, <3>1, <3>2, <3>3 DEF Copied
    <2>8. Booted'
      <3>1. Copied(co[Boot])'
        BY <2>6, <2>7
      <3> QED BY <2>3, <2>4, <3>1 DEF Booted
    <2>9. co'[Boot] # Idle
      BY <2>5, <2>6 DEF Idle
    <2>10. Written' /\ Filed' /\ Long'
      BY <1>0, <2>3, <2>9, StayWritten, LongKept DEF Filed
    <2>11. Told'
      <3>1. \A q \in Proc \ {Boot} : ~Reconfiguring(co[q])
        BY <1>0, <2>3, OthersTold
      <3> QED BY <1>0, <2>5, <2>6, <3>1, ToldStep DEF Reconfiguring
    <2>12. Clients'
      BY <1>0, <2>6 DEF Clients, Only, Proc
    <2> QED BY <2>8, <2>9, <2>10, <2>11, <2>12 DEF WInv
  <1>5. ~BootRejects
    <2>1. PipesValid([NoConfig EXCEPT !.apps = cfg.apps, !.pipes = cfg.pipes])
      BY <1>0 DEF Loadable, PipesValid, PipesIn, AppsIn, NoConfig
    <2> QED BY <1>0, <2>1 DEF BootRejects
  <1>6. CASE SysmgrSaves
    <2>1. /\ queue # <<>> /\ queue' = Tail(queue) /\ cfg' = Applied(cfg, Head(queue))
          /\ UNCHANGED <<applist, pipelist, co>>
      BY <1>6 DEF SysmgrSaves
    <2>2. Now' = Now
      BY <2>1 DEF Now, Image, Loaded
    <2>3. Written' /\ Filed'
      BY <1>0, <1>6, <2>1, <2>2, ShiftWritten, SavesFiled
    <2>4. co[Boot].kind # "boot"
      BY <1>0, <2>1 DEF Booted
    <2>5. Booted' /\ Told' /\ Clients' /\ Long'
      BY <1>0, <2>1, <2>4 DEF Booted, Told, Reconfiguring, Loaded, Clients, Long, HasPipe
    <2> QED BY <2>1, <2>3, <2>5 DEF WInv
  <1>7. CASE Restart
    <2>1. PICK t \in Readable : cfg' = [cfg EXCEPT !.apps = t]
      BY <1>7 DEF Restart
    <2>2. cfg' = cfg
      BY <1>0, <2>1, ReadBack DEF Saved
    <2>3. /\ files' = files /\ queue' = <<>> /\ pipelist' = NoPipes
          /\ co' = [p \in Proc |-> IF p = Boot THEN [Idle EXCEPT !.kind = "boot", !.at = "start"]
                                   ELSE Idle]
      BY <1>7 DEF Restart
    <2>4. /\ co'[Boot].at = "start" /\ co'[Boot] # Idle
          /\ \A q \in Proc : co'[q].at # "conf"
          /\ \A c \in Client : co'[c].kind # "boot"
      BY <1>0, <2>3 DEF Idle, Proc
    <2>5. Written'
      <3>1. (queue = <<>> /\ co[Boot] # Idle /\ cfg \in Saved)'
        BY <1>0, <2>2, <2>3, <2>4 DEF Saved
      <3>2. Loadable(cfg)'
        BY <1>0, <2>2 DEF Loadable, PipesValid, PipesIn, AppsIn
      <3> QED BY <3>1, <3>2, AgainWritten
    <2>6. Filed' /\ Long' /\ Told' /\ Booted' /\ Clients'
      BY <1>0, <2>2, <2>3, <2>4
      DEF Filed, Long, HasPipe, NoPipes, NoPipe, Told, Reconfiguring, Booted, Clients
    <2> QED BY <2>4, <2>5, <2>6 DEF WInv
  <1>8. CASE UNCHANGED vars
    <2>1. UNCHANGED <<co, applist, pipelist, queue, cfg, files>>
      BY <1>8 DEF vars
    <2>2. Now' = Now
      BY <2>1 DEF Now, Image, Loaded
    <2>3. Written'
      BY <1>0, <2>1, <2>2, StayWritten
    <2>4. Booted'
      BY <1>0, <2>1 DEF Booted, Copied, Loaded, HasPipe, Busy
    <2>5. Filed' /\ Told' /\ Clients' /\ Long'
      BY <1>0, <2>1 DEF Filed, Told, Reconfiguring, Loaded, Clients, Long, HasPipe
    <2> QED BY <2>1, <2>3, <2>4, <2>5 DEF WInv
  <1> QED BY <1>1, <1>2, <1>3, <1>4, <1>5, <1>6, <1>7, <1>8 DEF Next

LEMMA InitSaves ==
    ASSUME InitRepo, Init
    PROVE  WInv
  <1>0. Boot \in Proc /\ Boot \notin Client /\ Client \subseteq Proc /\ InitRepo \in BOOLEAN
    BY Numbers, ProcAssumption, FlagAssumption
  <1>1. /\ queue = <<>> /\ pipelist = NoPipes /\ files = {}
        /\ cfg = [repo |-> InitRepo, apps |-> NoApps, pipes |-> NoPipes]
        /\ co = [p \in Proc |-> IF p = Boot THEN [Idle EXCEPT !.kind = "boot", !.at = "start"]
                                ELSE Idle]
    BY DEF Init
  <1>2. /\ co[Boot].at = "start" /\ co[Boot] # Idle
        /\ \A q \in Proc : co[q].at # "conf"
        /\ \A c \in Client : co[c].kind # "boot"
    BY <1>0, <1>1 DEF Idle
  <1>3. cfg \in Saved
    BY <1>0, <1>1, InitTypes DEF TypeOK, Saved
  <1>4. Loadable(cfg)
    BY <1>0, <1>1 DEF Loadable, PipesValid, PipesIn, NoPipes, NoPipe
  <1>5. Written
    BY <1>1, <1>2, <1>3, <1>4, FirstWritten
  <1>6. Filed
    BY <1>1 DEF Filed, NoApps
  <1> QED BY <1>1, <1>2, <1>5, <1>6
          DEF WInv, Long, HasPipe, NoPipes, NoPipe, Told, Reconfiguring, Booted, Clients

LEMMA SavedAll == WInv /\ TypeOK => SavedInStep
  <1> SUFFICES ASSUME WInv, TypeOK, co[Boot] = Idle
               PROVE  /\ Persisted(cfg, queue)[Len(queue)].apps = Image
                      /\ Persisted(cfg, queue)[Len(queue)].pipes = pipelist
    BY DEF SavedInStep
  <1>1. PICK T : Chronicle(T) /\ T[Len(queue)] = Now
    BY DEF WInv, Written
  <1>2. Persisted(cfg, queue) = T
    BY <1>1, QueueIs, TraceIs DEF Chronicle
  <1> QED BY <1>1, <1>2 DEF Now

LEMMA SavesNext ==
    ASSUME Serial, "conf_raises" \notin Faults, "boot_spawn_fails" \notin Faults,
           "http_fails" \notin Faults
    PROVE  SInv /\ Booting /\ WInv /\ [Next]_vars
               => /\ SInv' /\ Booting' /\ WInv'
                  /\ co[Boot] # Idle /\ co'[Boot] = Idle => Restored
  BY SerialStep, BootingStep, SavesStep

\* When maintenance is issued in quiet, a repository is configured, and neither
\* the repository nor boot fails: once sysmgr has worked its mailbox, the APPs
\* and PIPEs on disk are those in memory, whatever commands overtake one
\* another and whichever of them fail.  What a crash loses is a suffix of the
\* decisions (appmgr sends each request in the segment that decides it).
THEOREM Saving ==
    ASSUME Serial, InitRepo, "conf_raises" \notin Faults,
           "boot_spawn_fails" \notin Faults, "http_fails" \notin Faults
    PROVE  Spec => []SavedInStep
  <1>1. Init => SInv /\ Booting /\ WInv
    BY SerialInit, InitBooting, InitSaves
  <1>2. SInv /\ Booting /\ WInv /\ [Next]_vars => (SInv /\ Booting /\ WInv)'
    BY SavesNext
  <1>3. SInv /\ WInv => SavedInStep
    BY SavedAll DEF SInv, IInv
  <1> QED BY <1>1, <1>2, <1>3, PTL DEF Spec

\* Under the same conditions, boot brings back exactly the APPs and PIPEs of
\* the configuration sysmgr read, whenever the process died: every state of
\* the disk between two requests is one that load_all accepts.
THEOREM Restoring ==
    ASSUME Serial, InitRepo, "conf_raises" \notin Faults,
           "boot_spawn_fails" \notin Faults, "http_fails" \notin Faults
    PROVE  Spec => BootRestores
  <1>1. Init => SInv /\ Booting /\ WInv
    BY SerialInit, InitBooting, InitSaves
  <1>2. SInv /\ Booting /\ WInv /\ [Next]_vars => (SInv /\ Booting /\ WInv)'
    BY SavesNext
  <1>3. SInv /\ Booting /\ WInv /\ [Next]_vars =>
            [co[Boot] # Idle /\ co'[Boot] = Idle
                 => Image' = cfg.apps /\ pipelist' = cfg.pipes]_vars
    BY SavesNext DEF Restored
  <1> QED BY <1>1, <1>2, <1>3, PTL DEF Spec, BootRestores

=============================================================================
