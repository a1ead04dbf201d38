------------------------------ MODULE Gateway -------------------------------
(***************************************************************************)
(* The device registry and request router (service/gateway.lua), with the  *)
(* cells that register (lualib/api.lua, service/appcell.lua) and the       *)
(* clients that ask (console, websocket, MQTT).                            *)
(*                                                                         *)
(* The gateway works its mailbox in order, one message at a time; a cell   *)
(* sends, and never waits, so that its registrations lie in the mailbox    *)
(* while the cell, appmgr and the clients go on.  A request waits for the  *)
(* cell's answer after the registry was consulted for the last time.       *)
(*                                                                         *)
(* An APP's entry in devlist and applist is one Lua table, made once per   *)
(* cell; it is named by the cell.  A handler the gateway caches for a      *)
(* device holds that table for as long as it is cached.                    *)
(***************************************************************************)
EXTENDS Naturals, Sequences, FiniteSets

CONSTANTS
    Cell,      \* appcell services, each launched once at most
    Name,      \* names of APPs: template and id
    NameOf,    \* the APP a cell runs
    Sub,       \* names APPs give their devices
    Cmd,       \* commands APPs register
    Client,
    None,
    Help,      \* what clients name to see the commands there are
    Own,       \* a handler of the gateway's own, which clients can name: "reg_dev"
    Asked,     \* what clients ask for: <<device, command>>
    MaxBox,    \* bound: no message is sent with more in the mailbox
    Ordered    \* does appmgr wait until a removed APP is unregistered

Dev == Name \cup (Sub \X Name)

ASSUME NameAssumption == NameOf \in [Cell -> Name]
ASSUME DevAssumption == Name \cap (Sub \X Name) = {}
ASSUME NoneAssumption == None \notin Cell
ASSUME AskedAssumption == {Help, Own} \cap Dev = {} /\ Asked \subseteq (Dev \cup {Help, Own}) \X Cmd
ASSUME BoxAssumption == MaxBox \in Nat /\ Ordered \in BOOLEAN

Request == [op : {"request"}, from : Client, dev : Dev \cup {Help, Own}, cmd : Cmd]
Message == [op : {"reg_app", "unreg_app"}, from : Cell]
             \cup [op : {"reg_sub", "unreg_sub"}, from : Cell, sub : Sub]
             \cup [op : {"reg_cmd"}, from : Cell, cmd : Cmd]
             \cup Request

VARIABLES
    cell,      \* the cells: "off", "up", "told" to exit, "gone"
    known,     \* api.lua's devlist in a cell: the devices it has
    box,       \* the gateway's mailbox
    inbox,     \* requests the gateway has sent to a cell, in order
    devlist,   \* the cell that registered a device
    applist,   \* cells with an entry
    cmdlist,   \* commands of the entry
    sublist,   \* devices of the entry
    cache,     \* cached handlers: the cell called, and the entry of its cmdlist
    help,      \* the cached answer to help: commands of each APP
    asking     \* clients that wait for an answer

vars == <<cell, known, box, inbox, devlist, applist, cmdlist, sublist, cache, help, asking>>
cellVars == <<cell, known, inbox>>
tableVars == <<devlist, applist, cmdlist, sublist>>
cacheVars == <<cache, help>>

-----------------------------------------------------------------------------
Alive(a) == cell[a] \in {"up", "told"}
Room == Len(box) <= MaxBox
Send(m) == box' = Append(box, m)
Take(op) == box # <<>> /\ Head(box).op = op /\ box' = Tail(box)
Sender == Head(box).from
DeviceOf(a, s) == <<s, NameOf[a]>>

\* What a lookup in the registry finds: the cell to call and the entry that
\* lists its commands.  The entry of a device is its APP's.
Uncached == [cell |-> None, obj |-> None, set |-> FALSE]
AppOf(dev) == IF dev \in Name THEN dev ELSE dev[2]
Found(dev) == [cell |-> devlist[dev],
               obj  |-> IF devlist[dev] = None THEN None ELSE devlist[AppOf(dev)],
               set  |-> TRUE]

\* The answer to help: the commands of every registered APP.
HelpInfo == [n \in {x \in Name : devlist[x] # None} |-> cmdlist[devlist[n]]]

\* invalidate_cache for some devices, and for help.
\* Wrong: what is no handler is left in their place.
ForgetHalf(devs) == cache' = [d \in Dev |-> IF d \in devs THEN None ELSE cache[d]]
\* Wrong: the handler of a device stays.
ForgetNothing(devs) == UNCHANGED cache
Forget(devs) == cache' = [d \in Dev |-> IF d \in devs THEN Uncached ELSE cache[d]]
ForgetHelp == help' = None

-----------------------------------------------------------------------------
(* Cells: api.lua as appcell and the APPs call it *)

\* appmgr launches a cell for an APP whose former cell it has told to exit;
\* app_init registers the APP.
Launch(a) ==
    /\ Room
    /\ cell[a] = "off"
    /\ \A b \in Cell : NameOf[b] = NameOf[a] => cell[b] # "up"
    /\ Ordered => \A b \in Cell \ {a} : NameOf[b] = NameOf[a] =>
                      cell[b] \in {"off", "gone"} /\ b \notin applist
    /\ cell' = [cell EXCEPT ![a] = "up"]
    /\ Send([op |-> "reg_app", from |-> a])
    /\ UNCHANGED <<known, inbox, tableVars, cacheVars, asking>>

RegCmd(a, c) ==
    /\ Room
    /\ Alive(a)
    /\ Send([op |-> "reg_cmd", from |-> a, cmd |-> c])
    /\ UNCHANGED <<cellVars, tableVars, cacheVars, asking>>

RegSub(a, s) ==
    /\ Room
    /\ Alive(a)
    /\ s \notin known[a]
    /\ known' = [known EXCEPT ![a] = @ \cup {s}]
    /\ Send([op |-> "reg_sub", from |-> a, sub |-> s])
    /\ UNCHANGED <<cell, inbox, tableVars, cacheVars, asking>>

UnregSub(a, s) ==
    /\ Room
    /\ Alive(a)
    /\ s \in known[a]
    /\ known' = [known EXCEPT ![a] = @ \ {s}]
    /\ Send([op |-> "unreg_sub", from |-> a, sub |-> s])
    /\ UNCHANGED <<cell, inbox, tableVars, cacheVars, asking>>

\* remove_app: the cell is sent "exit".
Remove(a) ==
    /\ cell[a] = "up"
    /\ cell' = [cell EXCEPT ![a] = "told"]
    /\ UNCHANGED <<known, box, inbox, tableVars, cacheVars, asking>>

\* The clients whose requests a cell leaves.
\* Wrong: they are left waiting.
LeftWaiting(a) == {}
Left(a) == {inbox[a][i].from : i \in 1..Len(inbox[a])}

\* The cell exits; skynet answers the requests it leaves with an error.
Exit(a) ==
    /\ cell[a] = "told"
    /\ cell' = [cell EXCEPT ![a] = "gone"]
    /\ known' = [known EXCEPT ![a] = {}]
    /\ Send([op |-> "unreg_app", from |-> a])
    /\ inbox' = [inbox EXCEPT ![a] = <<>>]
    /\ asking' = asking \ Left(a)
    /\ UNCHANGED <<tableVars, cacheVars>>

\* The cell answers a request, by its command's function.
Answer(a) ==
    /\ Alive(a)
    /\ inbox[a] # <<>>
    /\ inbox' = [inbox EXCEPT ![a] = Tail(@)]
    /\ asking' = asking \ {Head(inbox[a]).from}
    /\ UNCHANGED <<cell, known, box, tableVars, cacheVars>>

-----------------------------------------------------------------------------
(* The gateway *)

\* reg_dev of an APP, refused while its name is registered (dup_dev).
RegApp ==
    LET a == Sender
        n == NameOf[a]
    IN  /\ Take("reg_app")
        /\ IF devlist[n] # None
           THEN UNCHANGED <<tableVars, cacheVars>>
           ELSE /\ devlist' = [devlist EXCEPT ![n] = a]
                /\ applist' = applist \cup {a}
                /\ Forget({n}) /\ ForgetHelp
                /\ UNCHANGED <<cmdlist, sublist>>
        /\ UNCHANGED <<cellVars, asking>>

\* reg_dev of a device of a registered APP.
RegDevice ==
    LET a == Sender
        d == DeviceOf(a, Head(box).sub)
    IN  /\ Take("reg_sub")
        /\ IF devlist[d] # None \/ a \notin applist
           THEN UNCHANGED <<tableVars, cacheVars>>
           ELSE /\ devlist' = [devlist EXCEPT ![d] = a]
                /\ sublist' = [sublist EXCEPT ![a] = @ \cup {Head(box).sub}]
                /\ Forget({d})
                /\ UNCHANGED <<applist, cmdlist, help>>
        /\ UNCHANGED <<cellVars, asking>>

\* reg_cmd; the cached answer to help is left as it is.
RegCommand ==
    LET a == Sender
    IN  /\ Take("reg_cmd")
        /\ cmdlist' = IF a \in applist
                      THEN [cmdlist EXCEPT ![a] = @ \cup {Head(box).cmd}] ELSE cmdlist
        /\ UNCHANGED <<cellVars, devlist, applist, sublist, cacheVars, asking>>

\* unreg_dev of a device.
UnregDevice ==
    LET a == Sender
        d == DeviceOf(a, Head(box).sub)
    IN  /\ Take("unreg_sub")
        /\ IF a \notin applist
           THEN UNCHANGED <<tableVars, cacheVars>>
           ELSE /\ devlist' = [devlist EXCEPT ![d] = None]
                /\ sublist' = [sublist EXCEPT ![a] = @ \ {Head(box).sub}]
                /\ Forget({d})
                /\ UNCHANGED <<applist, cmdlist, help>>
        /\ UNCHANGED <<cellVars, asking>>

\* unreg_dev of an APP takes its devices along.
\* Wrong: the devices stay.
OwnNameOnly(a) == {NameOf[a]}
Unregistered(a) == {NameOf[a]} \cup {DeviceOf(a, s) : s \in sublist[a]}
UnregApp ==
    LET a == Sender
    IN  /\ Take("unreg_app")
        /\ IF a \notin applist
           THEN UNCHANGED <<tableVars, cacheVars>>
           ELSE /\ devlist' = [d \in Dev |-> IF d \in Unregistered(a) THEN None ELSE devlist[d]]
                /\ applist' = applist \ {a}
                /\ Forget(Unregistered(a)) /\ ForgetHelp
                /\ UNCHANGED <<cmdlist, sublist>>
        /\ UNCHANGED <<cellVars, asking>>

-----------------------------------------------------------------------------
(* Requests *)

Ask(k, dev, cmd) ==
    /\ Room
    /\ k \notin asking
    /\ asking' = asking \cup {k}
    /\ Send([op |-> "request", from |-> k, dev |-> dev, cmd |-> cmd])
    /\ UNCHANGED <<cellVars, tableVars, cacheVars>>

\* Help is answered from the cache, filled first if need be.
ServeHelp ==
    /\ Take("request") /\ Head(box).dev = Help
    /\ help' = IF help = None THEN HelpInfo ELSE help
    /\ asking' = asking \ {Sender}
    /\ UNCHANGED <<cellVars, tableVars, cache>>

\* A device's handler is cached, then run: it calls the cell if the command
\* is listed, and answers "unknown device or cmd" otherwise.  A call to a
\* cell that is gone is answered with an error.
\* Wrong: whatever the command.
ListedAny(h, c) == h.obj # None
Listed(h, c) == h.obj # None /\ c \in cmdlist[h.obj]
Handler(dev) == IF cache[dev].set THEN cache[dev] ELSE Found(dev)
Serve ==
    LET m == Head(box)
        h == Handler(m.dev)
        forward == Listed(h, m.cmd) /\ Alive(h.cell)
    IN  /\ box # <<>> /\ m.op = "request" /\ m.dev \in Dev
        /\ box' = Tail(box)
        /\ cache' = [cache EXCEPT ![m.dev] = h]
        /\ IF forward
           THEN inbox' = [inbox EXCEPT ![h.cell] = Append(@, m)] /\ UNCHANGED asking
           ELSE asking' = asking \ {m.from} /\ UNCHANGED inbox
        /\ UNCHANGED <<cell, known, tableVars, help>>

\* A request that names a handler of the gateway itself runs it with the
\* client as the APP: unknown, and nothing is answered.
ServeOwn ==
    /\ Take("request") /\ Head(box).dev = Own
    /\ UNCHANGED <<cellVars, tableVars, cacheVars, asking>>

-----------------------------------------------------------------------------
Init ==
    /\ cell = [a \in Cell |-> "off"]
    /\ known = [a \in Cell |-> {}]
    /\ box = <<>>
    /\ inbox = [a \in Cell |-> <<>>]
    /\ devlist = [d \in Dev |-> None]
    /\ applist = {}
    /\ cmdlist = [a \in Cell |-> {}]
    /\ sublist = [a \in Cell |-> {}]
    /\ cache = [d \in Dev |-> Uncached]
    /\ help = None
    /\ asking = {}

Dispatch ==
    \/ RegApp \/ RegDevice \/ RegCommand \/ UnregDevice \/ UnregApp
    \/ ServeHelp \/ Serve \/ ServeOwn

Next ==
    \/ \E a \in Cell : \/ Launch(a) \/ Remove(a) \/ Exit(a) \/ Answer(a)
                       \/ \E c \in Cmd : RegCmd(a, c)
                       \/ \E s \in Sub : RegSub(a, s) \/ UnregSub(a, s)
    \/ \E k \in Client, q \in Asked : Ask(k, q[1], q[2])
    \/ Dispatch

Spec == Init /\ [][Next]_vars

\* skynet dispatches what lies in a mailbox; a cell answers and, told to, exits.
Fairness == /\ WF_vars(Dispatch)
            /\ \A a \in Cell : WF_vars(Answer(a)) /\ WF_vars(Exit(a))
FairSpec == Spec /\ Fairness

-----------------------------------------------------------------------------
(* Properties *)

\* Types; the caches hold what lookups give.
TypeOK ==
    /\ cell \in [Cell -> {"off", "up", "told", "gone"}]
    /\ known \in [Cell -> SUBSET Sub]
    /\ box \in Seq(Message)
    /\ inbox \in [Cell -> Seq(Request)]
    /\ devlist \in [Dev -> Cell \cup {None}]
    /\ applist \subseteq Cell
    /\ cmdlist \in [Cell -> SUBSET Cmd]
    /\ sublist \in [Cell -> SUBSET Sub]
    /\ cache \in [Dev -> [cell : Cell \cup {None}, obj : Cell \cup {None}, set : BOOLEAN]]
    /\ asking \subseteq Client

\* devlist and applist are two indexes of one registry: an APP's entry is
\* under its name and its cell, and a device is there exactly as long as its
\* APP lists it, so that looking up a device's APP never fails.
Registry ==
    /\ \A n \in Name : devlist[n] # None => devlist[n] \in applist /\ NameOf[devlist[n]] = n
    /\ \A a \in applist : devlist[NameOf[a]] = a
    /\ \A s \in Sub, n \in Name :
           LET a == devlist[<<s, n>>]
           IN  IF a # None THEN a = devlist[n] /\ s \in sublist[a]
               ELSE devlist[n] # None => s \notin sublist[devlist[n]]

\* A cached handler does what a fresh lookup would do (invalidate_cache).
CacheFresh == \A d \in Dev : cache[d].set => cache[d] = Found(d)

\* The help a client is shown lists the commands that are registered.  The
\* code does not keep this: reg_cmd leaves the cached answer alone.
HelpFresh == help # None => help = HelpInfo

\* A request never lands in the cell of another APP, nor for a command that
\* APP has not registered, whatever was unregistered while it was on its way.
RequestsLand ==
    \A a \in Cell : \A i \in 1..Len(inbox[a]) :
        AppOf(inbox[a][i].dev) = NameOf[a] /\ inbox[a][i].cmd \in cmdlist[a]

\* Once the mailbox is worked off, an APP that is loaded can be reached by
\* its name, its devices by theirs, no device of another cell is there, and
\* what is gone cannot be found.
Reachable ==
    box = <<>> =>
        /\ \A a \in Cell : cell[a] = "up" =>
               /\ devlist[NameOf[a]] = a
               /\ \A s \in Sub : devlist[DeviceOf(a, s)] = a <=> s \in known[a]
        /\ \A d \in Dev : devlist[d] # None => Alive(devlist[d])

\* A client's request is in a mailbox, and not for the gateway's own handlers.
Underway(k) ==
    \/ \E i \in DOMAIN box : box[i].op = "request" /\ box[i].from = k /\ box[i].dev # Own
    \/ \E a \in Cell : \E i \in DOMAIN inbox[a] : inbox[a][i].from = k

\* Every request for a device or for help is answered, whatever becomes of
\* the cell it was sent to.
Answered == \A k \in Client : Underway(k) ~> k \notin asking

\* Every request is answered.  The code does not keep this for a device that
\* is called like a handler of the gateway's own, as reg_dev (ServeOwn).
AllAnswered == \A k \in Client : k \in asking ~> k \notin asking

=============================================================================
