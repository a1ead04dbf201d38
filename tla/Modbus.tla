------------------------------- MODULE Modbus -------------------------------
(***************************************************************************)
(* The Modbus APP: app/daq_modbus_v_1_0_0/entry.lua, which polls devices,  *)
(* over lualib/modbus/client.lua, which matches answers to requests.       *)
(*                                                                         *)
(* A configuration g has polls 1..Polls.  Its `start` coroutine runs each  *)
(* once; a poll that succeeds sets a timer for the next one, a poll that   *)
(* fails does not.  A new configuration stops the polls of the former one, *)
(* sleeps until their timers have run out and replaces the client.         *)
(* appmgr configures under its lock, so that this happens one at a time.   *)
(*                                                                         *)
(* A request forks a coroutine that waits for the answer in the channel    *)
(* and sleeps; the answer wakes it, or the sleep ends and tells the        *)
(* coroutine to drop the answer.  In mode "tcp" the channel matches        *)
(* answers by transaction id, in "rtu_tcp" by their order.  In "rtu", a    *)
(* serial line, it blocks the service until an answer is read or fails to  *)
(* come in time; one that comes later is read by a later request, as no    *)
(* answer is compared with its request and the port is never flushed.      *)
(*                                                                         *)
(* Time is left out but for this: stop sleeps max_wait, no less than any   *)
(* timer a poll has set, so that StopEnds waits for those set before it.   *)
(***************************************************************************)
EXTENDS Integers, Sequences, FiniteSets, SequencesExt

CONSTANTS
    Polls,      \* polls of a configuration
    Kind,       \* per poll and for the reader (0): what an answer is checked by
    MaxConf,    \* bound: configurations
    Tids,       \* transaction ids, 65536 in the code
    MaxPend,    \* bound: requests without an answer in a channel
    Modes,      \* the modes to consider
    Patient     \* is a configuration left alone until its start has ended?

ASSUME ModbusAssumption ==
    /\ Polls \in Nat \ {0} /\ MaxConf \in Nat \ {0} /\ MaxPend \in Nat \ {0}
    /\ Tids \in Nat /\ Tids > MaxPend
    /\ Modes \subseteq {"tcp", "rtu_tcp", "rtu"}
    /\ Patient \in BOOLEAN

Conf == 1 .. MaxConf
Chain == Conf \X (1 .. Polls)
Reader == <<0, 0>>                  \* the command `read` of a client
Caller == Chain \cup {Reader}

VARIABLES
    mode,
    gen,        \* configurations so far
    client,     \* the configuration whose client `cli` is, 0: none
    open,       \* its channel is not closed
    running,
    stopping,   \* "no", or what the sleeping stop is followed by
    waits,      \* polls whose timers were set when stop began its sleep
    starter,    \* per configuration: the poll `start` sleeps before or runs
    chain,      \* per poll: "off", "due" (its timer is set), "asking"
    reading,    \* the reader waits for an answer
    tid,
    pend,       \* requests in the channel: <<caller, tid, drop>>
    wire,       \* answers that can come, and whether their caller gave up
    devlist,    \* the configuration whose devices devlist names, 0: none
    registered, \* configurations whose devices the gateway knows
    mixed       \* an answer was taken for that of another request

chanVars == <<tid, pend, wire>>
confVars == <<mode, gen, client, open, stopping, waits>>
vars == <<confVars, running, starter, chain, reading, chanVars, devlist, registered, mixed>>

Request == [who : Caller, tid : 0 .. Tids - 1, drop : BOOLEAN]
Answer == [who : Caller, tid : 0 .. Tids - 1, old : BOOLEAN]

TypeOK ==
    /\ mode \in Modes
    /\ gen \in 0 .. MaxConf /\ client \in 0 .. gen
    /\ open \in BOOLEAN /\ running \in BOOLEAN
    /\ stopping \in {"no", "start", "fail", "exit", "gone"}
    /\ waits \subseteq Chain
    /\ starter \in [Conf -> [at : {"none", "sleep", "run"}, poll : 0 .. Polls]]
    /\ chain \in [Chain -> {"off", "due", "asking"}]
    /\ reading \in BOOLEAN
    /\ tid \in 0 .. Tids - 1
    /\ pend \in Seq(Request) /\ Len(pend) <= MaxPend
    /\ wire \in Seq(Answer)
    /\ devlist \in 0 .. gen
    /\ registered \subseteq Conf
    /\ mixed \in BOOLEAN

NoStarter == [at |-> "none", poll |-> 0]

Init ==
    /\ mode \in Modes
    /\ gen = 0 /\ client = 0 /\ open = FALSE /\ stopping = "no" /\ waits = {}
    /\ running = FALSE
    /\ starter = [g \in Conf |-> NoStarter]
    /\ chain = [c \in Chain |-> "off"]
    /\ reading = FALSE
    /\ tid = 0 /\ pend = <<>> /\ wire = <<>>
    /\ devlist = 0 /\ registered = {}
    /\ mixed = FALSE

-----------------------------------------------------------------------------
\* Polls are alike if their answers pass each other's checks (unit, function
\* code, number of registers).
KindOf(w) == Kind[w[2]]

Asking(w) == IF w = Reader THEN reading ELSE chain[w] = "asking"

\* start goes on to the poll after the one it ran, if that is c's.
Moved(st, C) ==
    [g \in Conf |->
       IF st[g].at = "run" /\ <<g, st[g].poll>> \in C
       THEN IF st[g].poll < Polls
            THEN [at |-> "sleep", poll |-> st[g].poll + 1] ELSE NoStarter
       ELSE st[g]]

\* The end of poll(): a success sets the timer if running, an error does not.
PollEnds(c, ok) ==
    chain' = [chain EXCEPT ![c] = IF ok /\ running THEN "due" ELSE "off"]

\* request returns to its caller.
Returns(w, ok) ==
    IF w = Reader
    THEN reading' = FALSE /\ UNCHANGED <<chain, starter>>
    ELSE /\ PollEnds(w, ok)
         /\ starter' = Moved(starter, {w})
         /\ UNCHANGED reading

\* gen_tid
NextTid == (tid + 1) % Tids

\* Requests that are awaited, or whose answer can come, are fewer than there
\* are ids (65536): an id is not used again while one of its requests lives.
TidFree == /\ \A i \in DOMAIN wire : wire[i].tid # NextTid
           /\ \A i \in DOMAIN pend : pend[i].tid = NextTid => pend[i].drop

\* What a request with id t leaves of the others: the channel keeps one for
\* each id, or all of them in order.
Others(t) ==
    IF mode = "tcp" /\ \E i \in DOMAIN pend : pend[i].tid = t
    THEN RemoveAt(pend, CHOOSE i \in DOMAIN pend : pend[i].tid = t) ELSE pend

\* ch.request of a channel that waits: the device answers, or never does.
Asks(w) ==
    /\ Len(pend) < MaxPend
    /\ mode = "tcp" => TidFree
    /\ tid' = NextTid
    /\ pend' = Append(Others(NextTid), [who |-> w, tid |-> NextTid, drop |-> FALSE])
    /\ \/ wire' = Append(wire, [who |-> w, tid |-> NextTid, old |-> FALSE])
       \/ UNCHANGED wire

\* The answer to what w asked is late now.
Late(w, answers) ==
    [i \in DOMAIN answers |->
       IF answers[i].who = w THEN [answers[i] EXCEPT !.old = TRUE] ELSE answers[i]]

\* ch.request of a serial channel, which opens a port that is closed: w reads
\* the first answer there is, or none that makes sense in time.  The device
\* may never answer, or be late.
Serial(w, ok) ==
    \E own \in {<<>>, <<[who |-> w, tid |-> tid, old |-> FALSE]>>} :
        LET line == wire \o own
            a == Head(line)
        IN /\ Len(line) <= MaxPend
           /\ \/ /\ ~ ok
                 /\ wire' = Late(w, line)
                 /\ UNCHANGED mixed
              \/ /\ line # <<>>
                 /\ ok = (KindOf(a.who) = KindOf(w))
                 /\ wire' = Late(w, Tail(line))
                 /\ mixed' = (mixed \/ (ok /\ (a.who # w \/ a.old)))
           /\ UNCHANGED <<tid, pend>>

\* An answer is damaged, or comes while the port is closed.
SerialLost(n) ==
    /\ mode = "rtu"
    /\ wire' = RemoveAt(wire, n)
    /\ UNCHANGED <<confVars, running, starter, chain, reading, tid, pend,
                   devlist, registered, mixed>>

\* mt_tcp:request, mt_rtu:request by poll c, with the starters `st`.  A closed
\* socket channel raises.
PollStarts(c, st) ==
    IF mode = "rtu"
    THEN /\ \E ok \in BOOLEAN : Serial(c, ok) /\ PollEnds(c, ok)
         /\ starter' = Moved(st, {c})
    ELSE IF ~ open
    THEN /\ chain' = [chain EXCEPT ![c] = "off"]
         /\ starter' = Moved(st, {c})
         /\ UNCHANGED <<chanVars, mixed>>
    ELSE /\ Asks(c)
         /\ chain' = [chain EXCEPT ![c] = "asking"]
         /\ starter' = st
         /\ UNCHANGED mixed

-----------------------------------------------------------------------------
\* start: its sleep ends; before the first poll it registers the devices.
StartStep(g) ==
    LET p == starter[g].poll
        st == [starter EXCEPT ![g].at = "run"]
    IN /\ stopping # "gone"
       /\ starter[g].at = "sleep"
       /\ PollStarts(<<g, p>>, st)
       /\ devlist' = IF p = 1 THEN g ELSE devlist
       /\ registered' = IF p = 1 THEN registered \cup {g} ELSE registered
       /\ UNCHANGED <<confVars, running, reading>>

\* skynet.timeout: the timer of a poll runs out.
TimerFires(c) ==
    /\ stopping # "gone"
    /\ chain[c] = "due"
    /\ PollStarts(c, starter)
    /\ waits' = waits \ {c}
    /\ UNCHANGED <<mode, gen, client, open, stopping, running, reading,
                   devlist, registered>>

\* read: a client reads a tag.
Read ==
    /\ stopping # "gone" /\ devlist # 0
    /\ ~ reading
    /\ \/ /\ mode # "rtu" /\ open
          /\ Asks(Reader)
          /\ reading' = TRUE
          /\ UNCHANGED mixed
       \/ /\ mode = "rtu"
          /\ \E ok \in BOOLEAN : Serial(Reader, ok)
          /\ UNCHANGED reading
    /\ UNCHANGED <<confVars, running, starter, chain, devlist, registered>>

\* The request in the channel an answer is for: the one with its id, or the
\* oldest.
\* Wrong: always the oldest.
ForOldest(a) == 1
For(a) == IF mode = "tcp" THEN CHOOSE i \in DOMAIN pend : pend[i].tid = a.tid ELSE 1

\* An answer comes; its caller is woken unless it gave up.  An answer of the
\* wrong kind fails the caller's checks.
Deliver(n) ==
    LET a == wire[n]
        r == pend[For(a)]
        ok == KindOf(a.who) = KindOf(r.who)
    IN /\ mode = "tcp" \/ (mode = "rtu_tcp" /\ n = 1)
       /\ wire' = RemoveAt(wire, n)
       /\ pend' = RemoveAt(pend, For(a))
       /\ IF r.drop THEN UNCHANGED <<starter, chain, reading, mixed>>
          ELSE /\ Returns(r.who, ok)
               /\ mixed' = (mixed \/ (ok /\ (a.who # r.who \/ a.old)))
       /\ UNCHANGED <<confVars, running, tid, devlist, registered>>

\* The sleep of a request ends: "Response Timeout".
\* Wrong: the coroutine that waits is not told.
DropNothing(w) == UNCHANGED pend
Drop(w) ==
    pend' = [i \in DOMAIN pend |->
               IF pend[i].who = w THEN [pend[i] EXCEPT !.drop = TRUE] ELSE pend[i]]

\* Wrong: the caller waits for the answer however long.
NoTimeout(w) == FALSE
Timeout(w) == Asking(w)

TimesOut(w) ==
    /\ Timeout(w)
    /\ Drop(w)
    /\ wire' = Late(w, wire)
    /\ Returns(w, FALSE)
    /\ UNCHANGED <<confVars, running, tid, devlist, registered, mixed>>

\* Callers that wait for an answer in the channel.
Awaiting == {r.who : r \in {q \in Range(pend) : ~ q.drop}}

\* All requests in the channel fail; start goes on, in `st`.  What a serial
\* line brings it brings to the next port as well.
ChannelFails(st) ==
    /\ pend' = <<>>
    /\ wire' = IF mode = "rtu" THEN wire ELSE <<>>
    /\ chain' = [c \in Chain |-> IF c \in Awaiting THEN "off" ELSE chain[c]]
    /\ starter' = Moved(st, Awaiting)
    /\ reading' = (reading /\ Reader \notin Awaiting)

\* The connection breaks; the next request opens another.
Breaks ==
    /\ pend # <<>>
    /\ ChannelFails(starter)
    /\ UNCHANGED <<confVars, running, tid, devlist, registered, mixed>>

-----------------------------------------------------------------------------
\* config_transport and config_devices after the old channel is closed; they
\* start if `next` is "start" (the devices of the configuration may be invalid).
NewClient(next) ==
    /\ gen' = gen + 1
    /\ client' = gen' /\ open' = TRUE
    /\ tid' = 0
    /\ running' = (next = "start")
    /\ ChannelFails(IF next = "start"
                    THEN [starter EXCEPT ![gen'] = [at |-> "sleep", poll |-> 1]]
                    ELSE starter)
    /\ stopping' = "no"
    /\ UNCHANGED <<devlist, registered>>

\* on_exit returns: the cell's devices are unregistered and it ends.
Gone ==
    /\ stopping' = "gone"
    /\ registered' = {}
    /\ starter' = [g \in Conf |-> NoStarter]
    /\ chain' = [c \in Chain |-> "off"]
    /\ reading' = FALSE /\ pend' = <<>> /\ wire' = <<>>
    /\ UNCHANGED <<gen, client, open, running, tid, devlist>>

Continue(next) == IF next = "exit" THEN Gone ELSE NewClient(next)

\* unregdev
\* Wrong: the devices stay registered.
UnregNothing == UNCHANGED <<devlist, registered>>
UnregDev == devlist' = 0 /\ registered' = registered \ {devlist}

\* on_conf, on_exit: stop a running configuration, and sleep.
Stop(next) ==
    /\ stopping = "no"
    /\ next # "exit" => gen < MaxConf
    /\ Patient => \A g \in Conf : starter[g].at = "none"
    /\ running
    /\ running' = FALSE
    /\ open' = FALSE
    /\ UnregDev
    /\ ChannelFails(starter)
    /\ stopping' = next
    /\ waits' = {c \in Chain : chain[c] = "due"}
    /\ UNCHANGED <<mode, gen, client, tid, mixed>>

\* on_conf, on_exit while nothing runs: no sleep.
StopIdle(next) ==
    /\ stopping = "no"
    /\ next # "exit" => gen < MaxConf
    /\ ~ running
    /\ Continue(next)
    /\ waits' = {}
    /\ UNCHANGED <<mode, mixed>>

\* stop's sleep of max_wait ends.
Slept == \A c \in waits : chain[c] # "due"

StopEnds ==
    /\ stopping \in {"start", "fail", "exit"}
    /\ Slept
    /\ Continue(stopping)
    /\ waits' = {}
    /\ UNCHANGED <<mode, mixed>>

-----------------------------------------------------------------------------
Next ==
    \/ \E g \in Conf : StartStep(g)
    \/ \E c \in Chain : TimerFires(c)
    \/ \E w \in Caller : TimesOut(w)
    \/ \E n \in 1 .. Len(wire) : Deliver(n) \/ SerialLost(n)
    \/ Read \/ Breaks
    \/ \E next \in {"start", "fail", "exit"} : Stop(next) \/ StopIdle(next)
    \/ StopEnds

Spec == Init /\ [][Next]_vars

\* Sleeps and timers end; devices need not answer.
FairSpec ==
    /\ Spec
    /\ \A g \in Conf : WF_vars(StartStep(g))
    /\ \A c \in Chain : WF_vars(TimerFires(c))
    /\ \A w \in Caller : WF_vars(TimesOut(w))
    /\ WF_vars(StopEnds)
-----------------------------------------------------------------------------
\* The coroutine of a request wakes its caller only while the caller sleeps
\* in that request: a late answer does not cut another sleep of it short.
AwaitedOrDropped ==
    \A i \in DOMAIN pend : pend[i].drop \/ Asking(pend[i].who)

\* The requests under way are well-formed, and late ones harm no one.
RequestsInv == TypeOK /\ AwaitedOrDropped

\* With transaction ids a value is posted, or read, only from the answer to
\* the request it was asked by, however late or lost other answers are; not
\* so in "rtu_tcp" and "rtu", where the next answer is taken for one's own.
OwnAnswer == mode = "tcp" => ~ mixed

\* Polls of a former configuration have ended when the next one runs, and
\* the gateway knows the devices of one configuration only.
Settled ==
    Patient => /\ \A c \in Chain : chain[c] # "off" /\ running => c[1] = gen
               /\ Cardinality(registered) <= 1

\* A request returns and a configuration is done, though no device answers.
Ends ==
    /\ \A w \in Caller : Asking(w) ~> ~ Asking(w)
    /\ stopping # "no" ~> stopping \in {"no", "gone"}
-----------------------------------------------------------------------------
\* entry.lua:494: when "poll stopped" is logged, polls of that configuration
\* do not go on under the next.
Stopped == \A c \in Chain : chain[c] = "due" /\ running => c[1] = gen
=============================================================================
