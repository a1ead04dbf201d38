# iotedge in TLA+

iotedge is an edge gateway on skynet, written in Lua.  Clients (a console, a
websocket, MQTT) manage **APPs**, which acquire, process and publish data, and
**PIPEs**, sequences of APPs that data runs through.  This directory holds
TLA+ modules of the services that carry this out and of the APPs and libraries
that talk to devices and brokers, TLC configurations that check them on small
instances, and proofs that TLAPS checks.

    tlc -config AppMgrOrdinary.cfg AppMgrMC.tla     a run
    tlapm AppMgrProofs.tla                          the proofs of a module

## 1. The system

A skynet service has a mailbox, one Lua state and one coroutine per message it
handles.  One coroutine of a service runs at a time and gives way only where it
calls another service, sleeps or does socket I/O.  `send` never waits, `call`
waits for the answer.  Messages from one service to another arrive in order.
skynet itself is a submodule that is not part of this repository; what the
modules assume of it is this paragraph.

| Component | State | Operations | Talks to |
|---|---|---|---|
| appmgr (`service/appmgr.lua`) | `applist`, `pipelist`, `tpllist`, the flag `locked`, `appmonitor` | app_new, app_remove, pipe_new/remove/start/stop, configure, upgrade, clean, boot, monitor | calls sysmgr to save, launches cells, sends them `conf`, `route_add`, `route_del`, `exit` |
| sysmgr (`service/sysmgr.lua`) | `cfg`, the files under `run/` with their `.bak`, templates under `app/` | update_app, update_pipes, update_repo, install_tpl, upgrade, auth, boot | HTTP, the file system, the shell |
| gateway (`service/gateway.lua`) | `devlist`, `applist`, cached handlers and help | reg_dev, reg_cmd, unreg_dev, any `<device> <command>` | calls the cell that registered the command |
| appcell, api (`service/appcell.lua`, `lualib/api.lua`) | the devices of a cell, `r_table`, batches | conf, route_add, route_del, data, exit, an APP's commands | registers with the gateway, sends data to the cells in `r_table` |
| console, websocket (`service/gateway_console.lua`, `service/gateway_ws.lua`) | connections, who is authorized | accept, auth, request, stop | asks the gateway |
| MQTT (`service/gateway_mqtt_tb.lua`, `app/pub_mqtt*`, `lualib/mqtt`) | session, packet ids, acknowledgement handlers, forked requests | publish, subscribe, request, reconnect | asks the gateway, publishes data |
| Kafka (`app/pub_kafka*`, `lualib/kafka`) | ring buffer, send buffer, metadata | send, flush, retry | brokers |
| Modbus (`app/daq_modbus*`, `lualib/modbus`) | polls, tags, transaction id | poll, read, write, reconfigure | devices |
| S7 (`app/daq_s7*`, `lualib/s7`, `lualib-src/lua-snap7.cpp`) | connection, waiters | connect, read | devices |
| logger, store | log files and their indexes; a stub | log, rotate | the file system |
| helpers, bindings, scripts, third party | -- | -- | -- |

How they interact.  A client asks the gateway; `sys` commands go to appmgr,
`internal` ones to sysmgr, the others to the cell of an APP.  appmgr launches a
cell per APP; the cell registers the APP, its devices and its commands with the
gateway.  A PIPE makes appmgr send route entries to the cells, which then post
data to each other.  What appmgr has decided it asks sysmgr to save; at boot
sysmgr reads the files and appmgr replays them.

What is hard, and what makes each part correct:

* **appmgr**: commands interleave wherever one of them waits.  The flag
  `locked` is tested at the start only.  Ids must belong to one APP, PIPEs to
  APPs that are there, cells to a slot; maintenance must release the flag; what
  is on disk must boot.
* **sysmgr**: the process may die between any two file operations.
* **gateway**: two indexes and a cache over them, changed by messages that
  arrive after the world has changed.
* **routing**: counts per cell, changed by messages, for PIPEs that overlap.
* **MQTT**: a message is repeated until some acknowledgement arrives, over
  connections that break and ids that start anew; an acknowledgement must mark
  its own message, a request be carried out once.
* **Kafka**: a ring that wraps, a coroutine that sends in rounds while others
  add; each message must be settled once, in order, and the coroutine go on.
* **Modbus**: late and lost answers, timeouts whose coroutines live on, polls
  that chain themselves over reconfigurations.
* **S7**: a call is many requests, cut by a length that is negotiated anew with
  every connection; what was moved must be what was asked for.
* **console, websocket**: state tested before a call and used after it.

`PROJECT.json` lists every hazard at its line, with the properties that cover it
or why none does yet.

## 2. Modules

### AppMgr (with AppMgrMC, AppMgrProofs, PipeGraph)

appmgr and the part of sysmgr that saves.  `co[p]` is the coroutine of client
`p`'s command, or of the boot; `at` is where it waits.  **One action is one
atomic segment** of the code, from a reply to the next call: `AppNew` up to
`skynet.newservice`, `Spawned` up to the call of `conf`, `AppLoaded` to the end.
A segment that ends in a save appends to `queue`; `SysmgrSaves` is sysmgr
working it.

| Code | Model |
|---|---|
| `locked` | `locked` |
| `applist[id]`: nil, `{}` (reserved), a table | `applist[i].st`: free, reserved, loaded |
| `applist[id].route[pipe]` | `applist[i].route[k]`, `has` and `to` |
| `pipelist` | `pipelist`; started or stopped |
| services launched by `newservice` | `cells` |
| calls of `update_app`, `update_pipes` on their way | `queue` |
| sysmgr's `cfg`, the files | `cfg`, `files` |
| `#applist + 1`, Lua's border of a table with holes | `NewAppId`, any border |
| `for id in pairs(applist)` over a table that changes | `ToClean` and the choice of the next id |

Loops that raise in the middle (`load_pipe` at a reserved slot, `clean` at one)
keep the part they did: `PipeNewRaises`, `CleanAppRaises` and so on.  Refused
commands change nothing and are no actions.

`PipeGraph` is the promise to the clients: a PIPE links APPs that are there, an
APP a PIPE uses is not removed, a PIPE is removed when stopped, maintenance may
forget all PIPEs, a crash everything.  `GraphSpec` maps `apps` to the loaded
slots and `pipes` to `pipelist`; AppMgr is checked and proved to implement it.

`Persisted(c, q)` is what is on disk once sysmgr has worked the requests `q`
after `c`; `SavedInStep` compares it with memory.

### PipeRoutes (with PipeRoutesMC, PipeRoutesProofs)

The messages appmgr sends cells and the counts they keep.  AppMgr shows that a
PIPE's entries lead to its APPs' cells; PipeRoutes starts from there and shows
what the cells make of them while the messages are on their way.  Data is not
in the state: the paths it would take are an operator (`ReachedBy`).  Its
loaded APPs and PIPEs are those of PipeGraph (`GraphSpec`), as AppMgr's are.

Permanent APPs (`SysApp`, the gateways) are targets only.  appmgr sends them
`route_add` and `route_del` like any APP, but their dispatch functions know
neither: they have no `r_table`, `Ignore` takes the message, and `Hops` stops
there.  A PIPE with one in the middle is accepted, and delivers up to it; one
that begins with one delivers nothing by the routes of its cells.

### Gateway (with GatewayMC, GatewayProofs)

The registry, the handler cache, help, requests and answers.  A cell is launched
once; two cells of one name model an APP that is removed and made again.
`Ordered` says whether the new cell waits for the old one to be unregistered,
which appmgr does not ensure but an administrator at a console mostly does:
`Reachable` holds only then (section 5 has the other case).  The run has
`Ordered = TRUE`, so cells of one name that overlap are not in it; for those
there are the theorems on the registry, the cache and the requests, which do
not need it, and TLC finds the other properties of the run kept with `Ordered =
FALSE` as well, in three million states.

### CfgStore (with CfgStoreMC, CfgStoreProofs)

One configuration file and its backup through `save_cfg`, the removals of
`update_app` and `update_pipes`, `load_cfg`, crashes, a full disk and values
that `dump` does not write as Lua.  A file's text is a configuration, absent,
empty or torn; an empty file *runs* (it is a Lua program), a torn one does not.

### KafkaRing, KafkaProducer (with BoundedFifo, KafkaMC, KafkaProofs)

`KafkaRing` is `ringbuffer.lua`: `head`, `tail` and `num` count cells, three of
which make an entry.  `BoundedFifo` is what it promises; the refinement mapping
`Content` reads `num` cells from `head` on, around the end.

`KafkaProducer` EXTENDS the ring.  `at` is where `flush_co` stands; other
coroutines (`Send`, `ConfFetched`) run only where it waits.

| Code | Model |
|---|---|
| `producer:send`, `flush`, `skynet.wakeup(flush_co)` | `Send`; `Wakes` also ends a wait that is not flush_co's sleep |
| `_flush` up to the sleep, the pop, the choice of a partition | `Idle`, `Start`, `PopOne`, `FetchEnds`, `Choose`, `Drained` |
| `sb:add`, `sb:clear`, `queue_num` | `SbAdd`, `SbClear` |
| `sb:aggregator`, which may ask for metadata | `Aggregate`, `AggregateAsks`, `RefetchEnds` |
| `_send` and the codes of an answer, per partition | `SendOne`, `Answered`, `Unanswered` |
| `_batch_send` | `AllSent`, `Retry`, `RefreshEnds`, `GiveUp` |

A broker's log drops the repetitions an unanswered request may cause, so that
`InOrder` is about first deliveries: a producer of this protocol version cannot
promise more.

### Modbus (with ModbusMC, ModbusProofs)

`daq_modbus` over `lualib/modbus/client.lua`.  A configuration `g` has a
`starter` (the coroutine that runs each poll once) and a `chain` per poll,
which sets its own timer.  A request is a record of `pend` with a `drop` flag --
the forked coroutine that waits in the channel -- and an answer on the `wire`.
`Deliver(n)` is where the three channels differ: `tcp` finds the request by
transaction id, `rtu_tcp` takes the oldest.  A request over a serial line
(`rtu`) blocks the whole service, so that it begins and ends in one step
(`Serial`); but the port is closed and opened again without being flushed, so
an answer that came too late stays on the `wire` and is what the next request
reads.  `skynet.socketchannel` is external.  The APP's `write` is left out
(section 6).

### Mqtt (with MqttMC, MqttProofs)

`gateway_mqtt_tb.lua` over `lualib/mqtt/client.lua`; `pub_mqtt` has the same
`ensure_publish`.  `acks` and `subacks` are the handlers, each with the
connection it was registered on, which the code does *not* compare: a packet
fires those with its id, whatever their connection.  `jobs` are the coroutines
of requests, at most `Cocurrency`.  The broker and the network are external
actions: an ordered connection that loses what is under way when it breaks, a
broker that repeats what was not acknowledged and may lose the session.

### S7 (with S7MC, S7Proofs)

`lualib/s7/client.lua`, the binding, and the read and write of the vendored
snap7, down to the socket.  A call is cut in slices as `opReadArea` and
`opWriteArea` do: `left`, `pos`, `off`, `num` and `first` are their
`TotElements`, `Start`, `Offset`, `NumElements` and `First`.  The data are
pairs of a PLC byte and a byte of the caller's buffer, so that `Copied` says
which byte went where.  `Await` and `FindsReset` are the one check of
`WaitForData` for a closed or reset connection, `Timeout` the receive timeout,
which needs nothing of the PLC.  A refusal in the header of an answer and one
of its item (`kind`) are told apart by what the code returns for them only: the
first is a plain CPU error at every slice.  The PLC and the network are
external.

## 3. Runs

| Run | Instance | Shows |
|---|---|---|
| AppMgrOrdinary | two clients, two APPs, two PIPEs of four lists, launch failures, a crash | a reserved id has one loader (`IdReserved`), no cell is forgotten (`NoOrphan`), PIPEs stay startable (`PipesRouted`) and lead to running cells (`RoutesLead`) |
| AppMgrMaintenance | one client with all commands, three configurations, a crash, fair | an APP can be removed when no PIPE lists it (`InUseByPipe`), disk follows memory (`SavedInStep`), boot restores what was saved (`BootRestores`), maintenance ends (`MaintenanceEnds`), AppMgr implements PipeGraph (`GraphSpec`) |
| AppMgrFaulty | two clients with no coordination, every fault, a crash | `TypeOK`, and a loaded APP has a running cell of its own (`LoadedAlive`) |
| AppMgrReserve | two clients with no coordination, no faults | **violation**: `IdReserved` |
| PipeRoutes | two PIPEs of eight lists over two APPs and a permanent one, at which data stops, three cells | counts match starts and no stop raises (`CountsInv`), `TargetsRun`, `Flow`, `NoLoop` |
| GatewayRegistry | two cells of one APP, one after the other, one of another, a client, fair | `TypeOK`, `Registry`, `CacheFresh`, `RequestsLand`, `Reachable`, and every request is answered (`Answered`) |
| CfgStore | three configurations, one of which does not survive dump, three crashes, a disk that may fill | `DiskInv`, `BackupGood`, `OldNewOrEmpty` |
| Kafka | four messages, a ring of two, two partitions, two brokers, leaders that move, every kind of answer, three rounds | no message is lost or doubled, rounds end when they should, no wait is cut short (`ProducerInv`); order (`InOrder`); the ring in use is a bounded queue (`FifoSpec`); each message is settled (`Settled`) |
| Modbus | two polls that pass each other's checks, a reader, three configurations, four transaction ids, the three channels | late wakeups harm no one (`RequestsInv`), answers with transaction ids go to their requests (`OwnAnswer`), a configuration finds the former one gone (`Settled`), requests and configurations end (`Ends`) |
| Mqtt | a message of QoS 1, a request and its answer of QoS 2, two connections, three packet ids, refusals, a lost session, a stop | `OwnAck`, `RunOnce`, `SessionInv`, `AllPublished` |
| MqttLost | the same | **violation**: `AckedByBroker` |
| S7 | ten calls of bytes, words and double words in up to three slices, two PDU lengths, late answers, refusals in the header and of the item, closed and reset connections, a silent PLC | `TypeOK`, `Copied`, what a write that stopped has written (`PartWritten`), `Ends` |

Bounds.  Two clients are enough for every race in appmgr: a race is a command
that waits and another that runs.  Two APPs and two PIPEs give shared APPs,
holes in the tables (Lua's border) and PIPEs in both orders; the permanent APP
is a third element of a PIPE.  `MaxHandle` lets a cell be launched while others
are being told to exit; a handle is reused only when nothing refers to it.
`MaxQueue`, `MaxBox` bound how far a sender runs ahead: a message can
always be overtaken by a change of what it is about, which is what matters.
`MaxRestart = 1` covers a crash at every state reachable without one; what boot
makes of the disk is in turn subject to commands, not to another crash.  In
CfgStore three crashes let a stale or broken backup of one meet the next.  In
Kafka four messages through a ring of two make it wrap, fill and empty while a
round is under way; buffers of two overflow and are sent early.  In Modbus four
transaction ids are one more than the requests that may be without an answer,
so that ids are used again; three configurations let a poll of the first meet
the third.  In Mqtt three packet ids and a window of two make ids wrap beside
handlers in use; the last connection is a good one, since a message can be kept
from being published for as long as connections break.  In S7 an address space
of 16 bytes and words of 8 values (2^21 and 2^16 in the code) put calls at the
edges of both; `MaxLate = 2` lets a call begin with two requests and answers of
timed-out calls still under way.

`Serial` is the one assumption on the environment: in AppMgrOrdinary and
AppMgrMaintenance clients start maintenance only when nothing
else is going on, and nothing during it.  Without it `IdReserved` fails
(AppMgrReserve); AppMgrFaulty and the theorems on types and cells do without
it, the others of AppMgr name it.  In Modbus,
`Patient` says that a configuration comes when the start of the former one has
ended; `OwnAnswer`, `RequestsInv` and `Ends` do not rest on it, `Settled` does.

Deadlock is checked in CfgStore, which can always save.
Elsewhere the system may stop: a server without commands or messages, one that
`upgrade` replaced, a gateway that was told to stop.

Fairness.  skynet dispatches every message and resumes every coroutine whose
reply is there: the weak fairness of AppMgr (replies, sysmgr's mailbox), of
Gateway (dispatch; a cell answers, and exits when told), of Kafka (`Flush`: a
broker answers or its connection fails, sleeps end), of Modbus (sleeps and
timers end; a device need not answer) and of S7 (the service runs and its
receive timeout ends; the PLC need not answer).  Mqtt also assumes strong
fairness of `Connected` and of a message's timer: the loop connects again and
again, and a broker that can be reached now and then is reached in the end; a
timer runs again and again, though the bound on packets under way may hold it
back. Nothing assumes that a client issues a command.  An APP whose command
never returns, which the code does not prevent, is outside.

Symmetry is used only for runs without liveness, over clients, and in
PipeRoutes over PIPEs and cells, which no definition tells apart.

## 4. Proofs

Every invariant, action property and refinement that a passing run checks is
also a theorem; the liveness properties are not.  A
theorem holds for every value of the constants that the named assumptions of
its module allow.  What it assumes beyond them is in its statement, and below.

### AppMgr

`AppMgrProofs`, for every number of clients, APPs, PIPEs, cells and crashes and
every set of commands, arguments and faults:

| Theorem | States | Assumes |
|---|---|---|
| `Typing` | `Spec => []TypeOK` | |
| `Alive` | `Spec => []LoadedAlive`: a loaded APP has a running cell of its own | |
| `Owned` | `Spec => []CellsOwned` | |
| `Startable` | `Spec => []PipesRouted`: starting, stopping and cleaning a PIPE never raise | `Serial` |
| `Leading` | `Spec => []RoutesLead`: no hop leads to a cell that is gone or was replaced | `Serial` |
| `Promised` | `Spec => GraphSpec`: AppMgr implements PipeGraph | `Serial` |
| `Reserved` | `Spec => []IdReserved`: a reserved id has one loader | `Serial`, no cell raises in `conf` |
| `NoneForgotten` | `Spec => []NoOrphan`: no cell is forgotten | the same |
| `UsedByPipe` | `Spec => []InUseByPipe`: app_remove is refused only for a PIPE that lists the APP | the same, and one client |
| `Saving` | `Spec => []SavedInStep`: what sysmgr will have saved is what is in memory | as `Reserved`, `InitRepo`, and neither boot's launches nor the repository fail |
| `Restoring` | `Spec => BootRestores`: boot brings back what sysmgr read | the same |

What the assumptions keep out: without `Serial` two commands take one id
(AppMgrReserve); a cell that raises while it takes its configuration leaves its
slot reserved and its command ended (appmgr.lua, `load_app`); with two clients
`pipe_new` meets APPs still being loaded and leaves entries of a PIPE that is
not made; without a repository, or with one that does not answer, boot restores
nothing, and where a launch fails it restores less (section 5).  Launches that
fail for a client and crashes remain in every theorem.

The invariants, each on top of the former:

* `IInv == TypeOK /\ LoadedAlive /\ CellsOwned`, without `Serial`.
  `LoadedAlive` alone is not inductive: when a command enters the cell it waited
  for, nothing would say that no other slot has it or gets it.  `CellsOwned`
  says that a slot that is not loaded has no cell and that the cell a command
  is launching is no slot's and no other command's; a new handle is one nothing
  holds (`Held`).
* `SInv == IInv /\ Kept`, under `Serial`.  `Kept` says that maintenance is alone
  (`Alone`), that each coroutine stands where its command can be, with its id
  reserved, its cell running and in its loops only what is left to do
  (`AllFit`), that no two hold the same id (`Distinct`), and that PIPEs and
  routes agree (`Rooted`: `PipesRouted` and what `RoutesLead` says of an entry,
  the permanent APPs apart).  The three statements need one another: a PIPE's
  APPs stay loaded because maintenance is alone, and the removal of an APP is
  refused because its route table has the PIPE.
* `Backed`: reserved slots and the cells that belong to no slot each have the
  coroutine that holds them.  `Kept` says what a coroutine has, `Backed` that
  there is one.
* `Tidy`: entries of route tables are those of the PIPEs that list the APP,
  except while `clean` is at work, and a slot that is not loaded has none.
* `WInv`, for what is on disk.  The requests on their way to sysmgr lead from
  `cfg` through a sequence of configurations -- a *trace* -- to memory
  (`Written`): each request suits the configuration before it, each
  configuration is one boot accepts (`Loadable`), the last is memory as it would
  be saved (`Now`), except while boot runs, of which `Booted` says that what it
  has loaded is what is saved.  The files are what `cfg` says (`Filed`).  `Told`
  says that `do_configure` waits for the cell of an APP that is still the one it
  told, without which the request it then appends would be about another.

A step outside boot either changes neither the queue nor memory as saved, or
appends one request whose effect is the change of memory (`Tells`); a step of
sysmgr takes the first request; a crash drops the requests, and boot starts from
`cfg`.
`SavedInStep` is then that `Persisted`, a recursion over the queue, is the end
of every trace (`TraceIs`).  That one induction, over the length of the queue,
is done with the well-foundedness of `<` on the numbers: the least length at
which a statement fails (lemmas `Least` and `Climb`).

The lemmas come in groups: the records the actions build are well-formed; what
a loop over tables leaves; slots and routes change together; one lemma per
action and invariant.

### PipeRoutes

`PipeRoutesProofs`, for every set of APPs, permanent APPs, cells, PIPEs and
lists (infinite ones too) and every delay of the messages.  It assumes what the
module does: lists have two places or more (`ListAssumption`), a cell is not an
APP (`CellAssumption`).  `MaxSent` plays no part.

| Theorem | States |
|---|---|
| `Invariant` | `Spec => []IInv`, below |
| `StartsAreCounted` | `Spec => []CountsInv`: the counts come out right and, but for clean, no stop raises |
| `NoTargetIsGone` | `Spec => []TargetsRun`: an entry for a cell that is gone is about to be dropped |
| `DataReachesItsPipes` | `Spec => []Flow`: data reaches what its PIPEs say, up to the first permanent APP of each, and nothing else, unless an APP that one of the source's PIPEs has behind a permanent APP gets the data by another |
| `DataDoesNotGoRound` | `Spec => []NoLoop`: one running PIPE of a source makes no loop |
| `ImplementsGraph` | `Spec => GraphSpec`: PipeRoutes implements PipeGraph |

`IInv == TypeOK /\ OneCell /\ Made /\ Idle /\ Counted /\ NeverRaises`.
A message to a permanent APP changes no table (`IgnoreKeeps`).
`CountsInv` alone is not inductive: a cell that is launched must have an empty
mailbox and table (`Idle`) and not be another APP's (`OneCell`), and the APPs
of a PIPE must stay loaded, or the next stop would send to nobody (`Made`,
which also says that the PIPEs made so far are finitely many).  `Counted` is
about the table a cell *will* have (`Settled`), so a message that is received
changes nothing, and `NeverRaises` is needed for each stop: a `route_del` takes
one off only where there is one.

* Mailboxes: `Worked` is a recursive function over the messages.  `Recursion`
  shows that such a function exists, `WorkedIs` its equation, `WorkedTail` that
  a received message is the first step, `AddsRun` and `DropsRun` what a run of
  equal messages does to a count, `NoneTakenBack` that without a `route_del` a
  count stays.  Inductions are done with sets of numbers (`Least`, `Climb`).
* Messages: `MessagesIs` says that `start_pipe` sends a cell one message for
  each place of its APP, all alike.  `StartSettles` and `StopSettles` carry that
  to the table that will be.
* Sums: `Starts` is the set of places of the running PIPEs, not a sum, so what a
  PIPE adds or takes away is a disjoint union (`OverOneMore`, `FeedsChanged`).
* `clean` stops PIPEs one after the other (`StopsIs`), the stopped ones too, so
  `NeverRaises` ends there.  `CleanKeeps` climbs over the order: after the first
  n PIPEs a count is at most the places of the others, and after the last
  nothing is left.
* Paths: with the mailboxes worked off, an entry is there exactly when a
  running PIPE has it (`EntryIs`).  Only cells have entries: `Counted` is about
  the APPs that have one, and `Hops` leaves from cells alone.  `From` is the
  least set that is closed under `Hops` (`FromLeast`), so `Flow` gives such a
  set for one inclusion and climbs along the PIPE for the other.  For `NoLoop`
  each hop leads to an APP with a greater `LastPlace`.

### Gateway

`GatewayProofs`, for every number of cells, APPs, devices, commands and clients
and every length of the mailbox:

* `Typing`: `Spec => []TypeOK`;
* `InStep`: `Spec => []Registry` -- the two indexes of the registry agree;
* `Fresh`: `Spec => []CacheFresh` -- every path that changes what a lookup finds
  drops the handlers made from it;
* `Landing`: `Spec => []RequestsLand` -- a request reaches only the cell of the
  APP it names, for a command that APP registered;
* `Reached`, where `Ordered`: `Spec => []Reachable` -- once the mailbox is
  worked off, what is loaded can be reached, and what is gone cannot.

The inductive invariant of the first four is `TypeOK /\ Once /\ Registry /\
CacheFresh /\ RequestsLand`.  `Once` says that a cell's own registration is in
the mailbox at most once, and that the cell has no entry and no devices until it
is worked; without it a second registration after an exit would bring back an
entry whose devices are no longer in `devlist`, and `Registry` would fail.
`CacheFresh` needs `Registry`: a device's handler holds its APP's entry, and
only because the indexes agree is that entry the device's own cell's.
`RequestsLand` needs both.  `DevAssumption` says that a device (a pair) is not
an APP's name; in the code the name of a device is its APP's name behind its own
and `@`.

`Reached` rests on what is still in the mailbox: a cell's messages lie between
its registration and its exit (`Framing`); of two cells of one APP, the messages
of one all come before those of the other (`InTurn`); and whether a device is in
its APP's entry differs from what the cell has only by the last message about it
that is on its way (`Telling`).  `InTurn` is what fails where the cells of one
APP overlap.

### CfgStore

`CfgStoreProofs`, for every set of configurations, any number of crashes and
with or without a full disk: `DiskAgrees` (`DiskInv`), `BackupKept`
(`BackupGood`) and `CrashCosts` (`OldNewOrEmpty`, an action property).  The
invariant follows `pc`: what the file and the backup hold at each point of
`save_cfg` and of a removal, compared with what was read (`held`), what is in
force (`mem`) and what is to be written (`new`).  A crash may come at any point,
so that each point's clause must give `AfterCrash` what boot needs.  It holds as
long as no file was closed with something else than was to be written, nor the
backup a boot had used overwritten with the broken file by a save that then
could not open the file (`spoilt`).

### Kafka

`KafkaProofs`, for every capacity, any partitions (a finite set), brokers,
metadata, buffer sizes and rounds:

* `RingKept`: `RingSpec => []RingInv` -- `tail` is `num` cells after `head`,
  around the end, and the cells between them hold entries;
* `RingIsFifo`: `RingSpec => FifoSpec`, and `ProducerIsFifo`: `Spec => FifoSpec`
  -- the ring implements `BoundedFifo`, by itself and under the producer;
* `ProducerKept`: `Spec => []ProducerInv` -- no message is lost or doubled,
  `sb:done` is right, `flush_co` is woken from its own sleep only;
* `SentInOrder`: `Spec => []InOrder`.

For the ring: `Nth`, the cell of the i-th entry, is injective and stays in the
table, so that `queue[tail]` is no queued entry's cell, and moving `head` by one
shifts it.  For rounds, `RoundInv`: a round's requests are of partitions that
hold messages, one each, and none is both to send and in flight; otherwise an
answer could clear a buffer twice, and `sb:clear` take it off the count twice.
For messages, `QInv`: they are numbered as they are accepted and leave the ring
in that order (`Numbered`), so that those that left are an initial segment,
divided among buffers, `acked` and `dropped` (`Placed`); a buffer is newer than
its partition's log, or, within a round, in it already (`Ordered`).  What each
point of `flush_co` allows is `Shaped`.  Messages are numbers from 1 on; `Nil`,
an empty hand, is none.

### Modbus

`ModbusProofs`, for any polls, configurations, transaction ids and bound of the
channel: `LateHarmless` (`RequestsInv`), `AnswersOwn` (`OwnAnswer`) and
`FormerGone` (`Settled`, under `Patient`, which is in its statement).
`OwnAnswer` is for `tcp`; without transaction ids it fails and is not claimed.
`ModbusAssumption` asks for more transaction ids than the channel holds
requests; the code has 2^16.

The invariant: a caller has exactly one request it awaits while it asks, and
none otherwise (`Awaited`); with `tcp`, ids of requests and of answers are each
distinct, and an answer has its request, of the same caller and forgotten with
it (`Matched`), which `OwnAnswer` is read from; the polls of a configuration
start one after the other (`InTurn`); under `Patient`, what runs is of the last
configuration, except for timers that stop still waits for (`Waited`).

### Mqtt

`MqttProofs`, for any messages, requests, connections and number of packet ids:
`SessionKept` (`SessionInv`), `RanOnce` (`RunOnce`) and `AckOwn` (`OwnAck`, an
action property).  `MqttAssumption` asks for fewer packets under way than there
are packet ids, 65535 in the code.

For the first two the invariant is `SInv == TypeOK /\ GrantedMade /\ AskedOnce`:
a granted subscription, a SUBACK on its way included, is one the broker made;
the first sending of a request is under way, waits in a coroutine, or was
carried out.  For `OwnAck` it adds `Carried`: the ids this connection's handlers
wait for are the latest ones given out, each of one packet, and the packets and
acknowledgements under way, handed to the broker or sent back by it, are in the
order of those ids.  `Age` measures how
long ago an id was given out, around the end of the id space; fewer than
`IdSpace` of them are waited for, so that the next one is not.

### S7

`S7Proofs`, for every set of calls, every set of PDU lengths, every overhead,
word size, address space and number of late answers:

* `TypeCorrect`: `Spec => []TypeOK`;
* `CallsCopy`: `Spec => []Copied` -- a call that succeeds has moved exactly the
  bytes it was asked to, each to its place, however many slices it took and
  whatever lengths were negotiated;
* `WritesStop`: `Spec => []PartWritten` -- a write that ended, however it did,
  has written the first elements of its data, each in its place, and no other
  byte: none if it was refused at its first slice, some and not all if it was
  refused at a later one.

The inductive invariant is `Inv == Typed /\ Placed /\ Alone /\ Data`.  `Placed`
says that what is left and what was done add up to the call, `Alone` that on a
clean connection at most one request or one answer is under way and that it is
the one of the current slice -- the code compares nothing, so this is what an
answer's meaning rests on -- and `Data` what has been moved at each point of a
call, where a write is ahead by a slice while its answer is awaited.  The
arithmetic (slices join, quotients of a PDU by 1, 2 and 4) is in lemmas.

### Only model-checked

* Liveness: `MaintenanceEnds`, `Answered`, `Settled` of Kafka, `Ends` of Modbus
  and of S7, `AllPublished`.  It rests on fairness, and `ENABLED` is out of the
  prover's reach.
* What does not hold: the properties of the two violation runs and those of
  section 5.

Induction theorems that take an operator as a parameter cannot be used, nor can
RECURSIVE operators; recursion in the modules proved about is a recursive
function, of which the proofs use the defining equation, and inductions are
done with the least number for which a claim fails.

## 5. Disagreements

Checked by a run, with a finding in `PROJECT.json`: AppMgrReserve and MqttLost.
Others met while modelling; each property is in the module, and the change of
the configuration given makes TLC find it violated:

* `BootRestores` in AppMgrMaintenance with `InitRepo = FALSE`: sysmgr hands out
  `repo = false` where no repository was set (sysmgr.lua:162), which
  `validate_conf` rejects (appmgr.lua:224), so the gateway boots without APPs.
* `InUseByPipe` in AppMgrOrdinary (two clients): a PIPE over an APP that is
  being loaded leaves entries of a PIPE that does not exist, and the APP can
  never be removed (appmgr.lua:313, 530).
* `LockedInMaintenance` in AppMgrMaintenance with `http_fails` in Faults: an
  upgrade whose download fails leaves the flag set (the line is commented out,
  appmgr.lua:492).  With ConfigArgs RepoArgs: configure with neither APPs nor
  PIPEs raises in `do_configure` after the flag was set (appmgr.lua:469).
* `Reachable` in GatewayRegistry with `Ordered = FALSE`: the cell of an APP made
  again registers before the former one has unregistered, is refused as a
  duplicate (gateway.lua:68), and stays loaded without being reachable.
* `NoOrphan` in AppMgrOrdinary with `conf_raises` in Faults: an APP that raises
  in its first configuration ends `load_app` after the cell was launched
  (appmgr.lua:262): the cell runs on, and at its slot, which stays reserved,
  app_remove and clean raise.
* `HelpFresh` in GatewayRegistry: reg_cmd does not drop the cached help
  (gateway.lua:57).
* `AllAnswered` in GatewayRegistry: a request for a device called reg_dev is
  never answered (gateway.lua:182).
* `OldOrNew` in CfgStore: the empty file a crash leaves between `io.open` and
  the close (sysmgr.lua:44) runs as a program that defines nothing, so the good
  backup is not read.
* `Saved` in CfgStore: write errors are not looked at (sysmgr.lua:45), and dump
  does not escape quotes (dump.lua:19).
* `SettledAlways` in Kafka: a code that errors.lua does not list has no text,
  `log.error` concatenates nil (log.lua:38) and raises, and flush_co ends with
  `flushing` set: nothing is sent any more.
* `Stopped` in Modbus with `Patient = FALSE`: a configuration that comes while
  the start of the former one sleeps does not end it; its polls go on beside
  the new ones, with the new client (daq_modbus entry.lua:494).
* `Reconnects` in S7 with SPECIFICATION CallingSpec: a failed send leaves
  `Connected` set (snap_msgsock.cpp:542), which only a receive that finds the
  connection closed clears; after a reset every send fails and no call connects
  again.

Conditions in the properties that stand for such a disagreement: `fellback` and
`Stale` in CfgStore (a broken file is copied over its backup by the next save; a
backup without a file is not replaced), `spoilt` there (write errors and what
dump writes wrongly are not looked at; and where a boot lived on the backup of a
torn file, a save that copies that file over the backup and then fails to open
the file leaves neither), `cleaned` in PipeRoutes (clean stops PIPEs that are
stopped already, and the cells' route_del raises on nil), one source per PIPE in
`NoLoop`, lists without repetition in `Flow` and APPs behind a permanent one
(`CutOff`, which the data can still reach by another PIPE and then runs on along
both), `Own` in `Answered`, `dead` in Kafka's `Settled`, `rtu_tcp` and `rtu` in
`OwnAnswer` (by order, one lost answer shifts all later ones until the
connection breaks; a serial port is reopened after a timeout but never flushed,
serialchannel.lua:24, and a late answer is read as the next request's), the
connection in `OwnAck`, `clean` in `Copied` (an answer after the receive timeout
is taken for the next request's) and `InReach` (counters and timers, addressed
by element, advance by bytes; addresses wrap at 2^21 bytes).

Met by reading, outside any property: a request over MQTT is acknowledged before
it is carried out, and dropped when the gateway is busy or when it comes again
after a lost connection; a command that raises keeps its slot for good; `stop`
while a connection is being made does not stop the client.  A poll that fails
once is not repeated before the next configuration.  PIPEs through a permanent
APP are accepted, though data ends there (`Passed` in PipeRoutes).  A write to a
PLC that ends by a timeout or a lost connection after its first slices does not
report that some were written, nor does one whose later slice is refused in the
header of the answer (s7_micro_client.cpp:284): the comment at line 290 promises
the warning "if it's the first part we report the cpu error otherwise we warn
that the function failed but some data were written", which only a refused item
gets.  `PartWritten` says what was written then. daq_modbus's `write` gives the
client a `p` that is not defined (daq_modbus entry.lua:130), and pub_kafka's
`on_data` reads a global `conf` that is not set (pub_kafka entry.lua:30), so
neither sends anything.  `client.new` connects before it sets the PDU size.

## 6. Not modelled

* Console and websocket: a connection is a client of Gateway; the limit on
  connections, authentication and stop are in `hazards`.
* Byte formats, checksums and encodings (MQTT, Kafka and Modbus packets,
  MessagePack, JSON), the stub store, example APPs of a few lines, scripts.
* In appmgr, the monitor and the queries; in sysmgr, the files inside
  install_tpl and the hand-over to a new system, which is another process; in
  daq_modbus, make_polls, the decoding of tags and `write`, which has no pdu to
  send; in the MQTT client, keep-alive and unsubscribe; logger and its rotation.
* Vendored code: the C++ headers of sol2 and sol3, OpenSSL and the rest of
  snap7 (its server, partner, blocks and CPU control, which nothing here calls)
  are nearly all of the C and C++ in the repository.  The program itself is Lua;
  of the C++ only the path a read or a write takes is modelled.

## 7. Plan

1. A refinement between AppMgr and PipeRoutes: that the routes AppMgr keeps are
   those PipeRoutes starts from.  Both implement PipeGraph so far.
2. ModbusPolls: `make_polls` and `validate_poll_addr` as pure algorithms.
3. Sessions: console and websocket connections through authentication and stop.
4. Upgrade: the hand-over to the new system, two systems and one configuration.
5. AppMonitor, LogRotate, batching and change-of-value in api.lua.
