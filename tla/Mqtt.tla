-------------------------------- MODULE Mqtt --------------------------------
(***************************************************************************)
(* The MQTT gateway: service/gateway_mqtt_tb.lua over lualib/mqtt/client,  *)
(* which publishes each message again and again, every time under a new    *)
(* packet id, until a handler sees an acknowledgement of one of those ids, *)
(* subscribes in the same way, and carries out requests in coroutines of a *)
(* limited number.                                                         *)
(*                                                                         *)
(* One coroutine connects and reads (loop).  Packet ids start at 1 on each *)
(* connection; handlers outlive the connection they were registered on.    *)
(* The connection is ordered, loses nothing until it breaks, and then      *)
(* loses what was under way; the client goes on sending until a read or a  *)
(* write tells it.                                                         *)
(*                                                                         *)
(* The broker is external: it accepts and acknowledges what it reads, and  *)
(* sends an unacknowledged request again, marked dup, on a later           *)
(* connection.  It may have lost the session when the client returns.      *)
(* Left out: payloads, pings, PUBCOMP and QoS 2 of requests.               *)
(***************************************************************************)
EXTENDS Integers, Sequences, FiniteSets, SequencesExt

CONSTANTS
    Msgs,       \* messages to publish
    Qos,        \* the QoS of each
    Reqs,       \* requests of the platform
    ReplyTo,    \* the message that answers each
    Cocurrency, \* requests carried out at a time
    IdSpace,    \* packet ids, 65535 in the code
    Window,     \* bound: packets of a connection without an acknowledgement
    MaxConn,    \* bound: connections
    Refusals    \* may the broker refuse connections and subscriptions?

Replies == {ReplyTo[r] : r \in Reqs}

ASSUME MqttAssumption ==
    /\ Qos \in [Msgs -> 0 .. 2]
    /\ ReplyTo \in [Reqs -> Msgs]
    /\ Cocurrency \in Nat \ {0} /\ MaxConn \in Nat \ {0}
    /\ Window \in Nat \ {0} /\ IdSpace \in Nat /\ Window < IdSpace
    /\ Refusals \in BOOLEAN

Id == 1 .. IdSpace
Conn == 1 .. MaxConn

VARIABLES
    running,
    loop,       \* "idle": reads or is about to connect; "connecting"; "registering"
    connected,  \* client.connection is there
    conns,      \* connections so far
    alive,      \* the network still carries it
    up, down,   \* packets to and from the broker
    lastId,     \* _last_packet_id, 0: nil
    waitRec,    \* wait_for_pubrec
    acks,       \* handlers of "acknowledge": packet id, message, connection
    subacks,    \* handlers of "subscribe": packet id, loop, connection
    pub,        \* per message: "new", "trying", "done"
    sub,        \* the subscription loop of each connection: "off", "trying", "done"
    jobs,       \* the coroutines that hold a slot
    accepted,   \* messages the broker has read
    subscribed, \* the broker has the subscription
    asked,      \* per request: the connection it was last sent on, 0: none
    heard,      \* requests whose acknowledgement the broker has read
    ran         \* per request: how often it was carried out

netVars == <<connected, alive, up, down>>
idVars == <<lastId, waitRec, acks, subacks>>
brokerVars == <<accepted, subscribed, asked, heard>>
vars == <<running, loop, conns, netVars, idVars, pub, sub, jobs, brokerVars, ran>>

Up == [type : {"publish"}, id : {0} \cup Id, msg : Msgs]
        \cup [type : {"subscribe", "pubrel"}, id : Id] \cup [type : {"puback"}, req : Reqs]
Down == [type : {"connack", "suback"}, id : {0} \cup Id, ok : BOOLEAN]
        \cup [type : {"puback", "pubrec"}, id : Id]
        \cup [type : {"publish"}, req : Reqs, dup : BOOLEAN]

Job == [req : Reqs, dup : BOOLEAN, at : {"forked", "calling", "dead"}]

TypeOK ==
    /\ running \in BOOLEAN
    /\ loop \in {"idle", "connecting", "registering"}
    /\ connected \in BOOLEAN /\ conns \in 0 .. MaxConn /\ alive \in BOOLEAN
    /\ up \in Seq(Up) /\ down \in Seq(Down)
    /\ lastId \in 0 .. IdSpace /\ waitRec \subseteq Id
    /\ acks \subseteq [id : Id, msg : Msgs, conn : Conn]
    /\ subacks \subseteq [id : Id, loop : Conn, conn : Conn]
    /\ pub \in [Msgs -> {"new", "trying", "done"}]
    /\ sub \in [Conn -> {"off", "trying", "done"}]
    /\ jobs \in Seq(Job) /\ Len(jobs) <= Cocurrency
    /\ accepted \subseteq Msgs /\ subscribed \in BOOLEAN
    /\ asked \in [Reqs -> 0 .. MaxConn] /\ heard \subseteq Reqs
    /\ ran \in [Reqs -> 0 .. 2]
    /\ connected \/ (~alive /\ up = <<>> /\ down = <<>>)

Init ==
    /\ running = TRUE /\ loop = "idle"
    /\ connected = FALSE /\ conns = 0 /\ alive = FALSE /\ up = <<>> /\ down = <<>>
    /\ lastId = 0 /\ waitRec = {} /\ acks = {} /\ subacks = {}
    /\ pub = [m \in Msgs |-> "new"] /\ sub = [c \in Conn |-> "off"] /\ jobs = <<>>
    /\ accepted = {} /\ subscribed = FALSE /\ asked = [r \in Reqs |-> 0] /\ heard = {}
    /\ ran = [r \in Reqs |-> 0]

-----------------------------------------------------------------------------
(* Sending.  A packet goes out, or goes nowhere because the connection is   *)
(* broken; the client may be told so, and then closes it.  `rest` is what   *)
(* is left to read.                                                         *)

NextId(i) == IF i = IdSpace THEN 1 ELSE i + 1

\* Room for a packet that wants an acknowledgement on this connection.
Room == Cardinality({h \in acks : h.conn = conns}) + Cardinality({h \in subacks : h.conn = conns}) < Window

Sent(p, rest) ==
    /\ up' = IF alive THEN Append(up, p) ELSE up
    /\ down' = rest
    /\ UNCHANGED <<connected, alive>>

Closed == connected' = FALSE /\ alive' = FALSE /\ up' = <<>> /\ down' = <<>>

SendFails == ~alive /\ Closed

\* client:publish, as ensure_publish calls it.
Published(m, rest) ==
    LET id == NextId(lastId) IN
    \/ /\ Qos[m] = 0
       /\ \/ Sent([type |-> "publish", id |-> 0, msg |-> m], rest) /\ pub' = [pub EXCEPT ![m] = "done"]
          \/ SendFails /\ pub' = [pub EXCEPT ![m] = "trying"]
       /\ UNCHANGED <<lastId, waitRec, acks>>
    \/ /\ Qos[m] > 0 /\ Room
       /\ lastId' = id
       /\ pub' = [pub EXCEPT ![m] = "trying"]
       /\ \/ /\ Sent([type |-> "publish", id |-> id, msg |-> m], rest)
             /\ acks' = acks \cup {[id |-> id, msg |-> m, conn |-> conns]}
             /\ waitRec' = IF Qos[m] = 2 THEN waitRec \cup {id} ELSE waitRec
          \/ SendFails /\ UNCHANGED <<acks, waitRec>>

\* client:subscribe, as the loop c of ensure_subscribe calls it.
Subscribes(c, rest) ==
    LET id == NextId(lastId) IN
    /\ lastId' = id
    /\ \/ /\ Sent([type |-> "subscribe", id |-> id], rest)
          /\ subacks' = subacks \cup {[id |-> id, loop |-> c, conn |-> conns]}
       \/ SendFails /\ UNCHANGED subacks

\* ensure_publish: tried at once where there is a connection.
Offered(m) ==
    /\ pub[m] = "new"
    /\ \/ connected /\ Published(m, down)
       \/ /\ ~connected
          /\ pub' = [pub EXCEPT ![m] = "trying"]
          /\ UNCHANGED <<netVars, lastId, waitRec, acks>>

\* The commands data and post.
Offer(m) ==
    /\ m \notin Replies
    /\ Offered(m)
    /\ UNCHANGED <<running, loop, conns, subacks, sub, jobs, brokerVars, ran>>

\* Wrong: a message of a former connection is not published again.
RepublishNew(m) ==
    /\ pub[m] = "trying" /\ connected /\ \A h \in acks : h.msg = m => h.conn = conns
    /\ Published(m, down)
    /\ UNCHANGED <<running, loop, conns, subacks, sub, jobs, brokerVars, ran>>

\* The timer of a message that is not done; without a connection it is only
\* set again.
Republish(m) ==
    /\ pub[m] = "trying" /\ connected
    /\ Published(m, down)
    /\ UNCHANGED <<running, loop, conns, subacks, sub, jobs, brokerVars, ran>>

\* The timer of a subscription; without a connection the loop ends.
Resubscribe(c) ==
    /\ sub[c] = "trying"
    /\ \/ connected /\ Room /\ Subscribes(c, down) /\ UNCHANGED sub
       \/ ~connected /\ sub' = [sub EXCEPT ![c] = "off"] /\ UNCHANGED <<netVars, lastId, subacks>>
    /\ UNCHANGED <<running, loop, conns, waitRec, acks, pub, jobs, brokerVars, ran>>

-----------------------------------------------------------------------------
(* The loop: connecting and reading.                                        *)

\* running is looked at before the sleep and the connecting, not after.
Decide ==
    /\ loop = "idle" /\ ~connected /\ running
    /\ loop' = "connecting"
    /\ UNCHANGED <<running, conns, netVars, idVars, pub, sub, jobs, brokerVars, ran>>

ConnectFails ==
    /\ loop = "connecting"
    /\ loop' = "idle"
    /\ UNCHANGED <<running, conns, netVars, idVars, pub, sub, jobs, brokerVars, ran>>

\* start_connecting; the broker answers CONNECT, and may have lost its session.
Connected ==
    /\ loop = "connecting" /\ conns < MaxConn
    /\ loop' = "idle"
    /\ connected' = TRUE /\ conns' = conns + 1 /\ up' = <<>>
    /\ \E ok \in BOOLEAN :
        /\ ok \/ (Refusals /\ conns' < MaxConn)
        /\ alive' = ok
        /\ down' = <<[type |-> "connack", id |-> 0, ok |-> ok]>>
    /\ lastId' = 0 /\ waitRec' = {}
    /\ subscribed' \in {FALSE, subscribed}
    /\ UNCHANGED <<running, acks, subacks, pub, sub, jobs, accepted, asked, heard, ran>>

Reads(type) == loop = "idle" /\ down # <<>> /\ Head(down).type = type

\* CONNACK: subscribe, then tell appmgr, which the loop waits for.
GetConnack ==
    /\ Reads("connack")
    /\ \/ /\ Head(down).ok
          /\ sub' = [sub EXCEPT ![conns] = "trying"]
          /\ Subscribes(conns, Tail(down))
          /\ loop' = "registering"
       \/ ~Head(down).ok /\ Closed /\ UNCHANGED <<sub, lastId, subacks, loop>>
    /\ UNCHANGED <<running, conns, waitRec, acks, pub, jobs, brokerVars, ran>>

Registered ==
    /\ loop = "registering"
    /\ loop' = "idle"
    /\ UNCHANGED <<running, conns, netVars, idVars, pub, sub, jobs, brokerVars, ran>>

\* Wrong: an acknowledgement is taken by every handler.
FiredAll(id) == acks

\* The handlers that take an acknowledgement, of whichever connection they are.
Fired(id) == {h \in acks : h.id = id}

Acknowledged(id) ==
    /\ acks' = acks \ Fired(id)
    /\ pub' = [m \in Msgs |-> IF \E h \in Fired(id) : h.msg = m THEN "done" ELSE pub[m]]

GetPuback ==
    /\ Reads("puback")
    /\ Acknowledged(Head(down).id)
    /\ down' = Tail(down)
    /\ UNCHANGED <<running, loop, connected, alive, up, conns, lastId, waitRec, subacks, sub, jobs, brokerVars, ran>>

\* PUBREC counts as the acknowledgement where the connection waits for it and
\* PUBREL can be sent.
GetPubrec ==
    LET id == Head(down).id IN
    /\ Reads("pubrec")
    /\ \/ /\ id \in waitRec
          /\ waitRec' = waitRec \ {id}
          /\ \/ Sent([type |-> "pubrel", id |-> id], Tail(down)) /\ Acknowledged(id)
             \/ SendFails /\ UNCHANGED <<acks, pub>>
       \/ /\ id \notin waitRec
          /\ down' = Tail(down)
          /\ UNCHANGED <<connected, alive, up, waitRec, acks, pub>>
    /\ UNCHANGED <<running, loop, conns, lastId, subacks, sub, jobs, brokerVars, ran>>

\* Wrong: any SUBACK ends the loop.
GrantedAny(p) == TRUE

\* suback: the return code is not subsribe_ack_err_code.
Granted(p) == p.ok

\* SUBACK ends the loops whose handlers take it, unless it is a refusal.
GetSuback ==
    LET fired == {h \in subacks : h.id = Head(down).id} IN
    /\ Reads("suback")
    /\ subacks' = subacks \ fired
    /\ sub' = [c \in Conn |-> IF Granted(Head(down)) /\ \E h \in fired : h.loop = c THEN "done" ELSE sub[c]]
    /\ down' = Tail(down)
    /\ UNCHANGED <<running, loop, connected, alive, up, conns, lastId, waitRec, acks, pub, jobs, brokerVars, ran>>

\* handle_request: acknowledged first, dropped when no slot is free.
GetRequest ==
    LET r == Head(down).req IN
    /\ Reads("publish")
    /\ Sent([type |-> "puback", req |-> r], Tail(down)) \/ SendFails
    /\ jobs' = IF Len(jobs) < Cocurrency
               THEN Append(jobs, [req |-> r, dup |-> Head(down).dup, at |-> "forked"])
               ELSE jobs
    /\ UNCHANGED <<running, loop, conns, idVars, pub, sub, brokerVars, ran>>

\* Nothing comes any more.
GetClosed ==
    /\ loop = "idle" /\ connected /\ ~alive /\ down = <<>>
    /\ Closed
    /\ UNCHANGED <<running, loop, conns, idVars, pub, sub, jobs, brokerVars, ran>>

\* The command stop: without a connection it only clears running.
Stop ==
    /\ running
    /\ running' = FALSE
    /\ IF connected THEN Closed ELSE UNCHANGED netVars
    /\ UNCHANGED <<loop, conns, idVars, pub, sub, jobs, brokerVars, ran>>

-----------------------------------------------------------------------------
(* The coroutines of requests.                                              *)

\* Wrong: a request that was sent before is carried out.
ToRunDup(j) == j.at = "forked"

ToRun(j) == j.at = "forked" /\ ~j.dup

\* decode_request passes; the call to the gateway begins.
Run(i) ==
    /\ ToRun(jobs[i])
    /\ jobs' = [jobs EXCEPT ![i].at = "calling"]
    /\ ran' = [ran EXCEPT ![jobs[i].req] = IF @ < 2 THEN @ + 1 ELSE @]
    /\ UNCHANGED <<running, loop, conns, netVars, idVars, pub, sub, brokerVars>>

\* decode_request refuses it.
Refuse(i) ==
    /\ jobs[i].at = "forked" /\ ~ToRun(jobs[i])
    /\ jobs' = RemoveAt(jobs, i)
    /\ UNCHANGED <<running, loop, conns, netVars, idVars, pub, sub, brokerVars, ran>>

Answer(i) ==
    /\ jobs[i].at = "calling"
    /\ Offered(ReplyTo[jobs[i].req])
    /\ jobs' = RemoveAt(jobs, i)
    /\ UNCHANGED <<running, loop, conns, subacks, sub, brokerVars, ran>>

\* The call raises, as one to an APP that goes away does: done() is not reached.
Raise(i) ==
    /\ jobs[i].at = "calling"
    /\ jobs' = [jobs EXCEPT ![i].at = "dead"]
    /\ UNCHANGED <<running, loop, conns, netVars, idVars, pub, sub, brokerVars, ran>>

-----------------------------------------------------------------------------
(* The broker and the network.  The last connection (MaxConn) is a good one: *)
(* it lasts, and nothing is refused on it.                                  *)

Answered(p, ok) ==
    CASE p.type = "publish" /\ p.id # 0 ->
            <<[type |-> IF Qos[p.msg] = 2 THEN "pubrec" ELSE "puback", id |-> p.id]>>
      [] p.type = "subscribe" -> <<[type |-> "suback", id |-> p.id, ok |-> ok]>>
      [] OTHER -> <<>>

BrokerReads ==
    /\ alive /\ up # <<>>
    /\ \E ok \in BOOLEAN :
        /\ ok \/ (Refusals /\ conns < MaxConn /\ Head(up).type = "subscribe")
        /\ down' = down \o Answered(Head(up), ok)
        /\ subscribed' = (subscribed \/ (ok /\ Head(up).type = "subscribe"))
    /\ accepted' = IF Head(up).type = "publish" THEN accepted \cup {Head(up).msg} ELSE accepted
    /\ heard' = IF Head(up).type = "puback" THEN heard \cup {Head(up).req} ELSE heard
    /\ up' = Tail(up)
    /\ UNCHANGED <<running, loop, connected, alive, conns, idVars, pub, sub, jobs, asked, ran>>

\* A request is sent once on a connection.
Ask(r) ==
    /\ alive /\ subscribed /\ r \notin heard /\ asked[r] < conns
    /\ down' = Append(down, [type |-> "publish", req |-> r, dup |-> asked[r] # 0])
    /\ asked' = [asked EXCEPT ![r] = conns]
    /\ UNCHANGED <<running, loop, connected, alive, up, conns, idVars, pub, sub, jobs, accepted, subscribed, heard, ran>>

\* The connection breaks: what the client has received is a part of `down`.
Break ==
    /\ alive /\ conns < MaxConn
    /\ alive' = FALSE
    /\ up' = <<>>
    /\ \E n \in 0 .. Len(down) : down' = SubSeq(down, 1, n)
    /\ UNCHANGED <<running, loop, connected, conns, idVars, pub, sub, jobs, brokerVars, ran>>

-----------------------------------------------------------------------------
ClientReads ==
    \/ GetConnack \/ GetPuback \/ GetPubrec \/ GetSuback \/ GetRequest \/ GetClosed

Next ==
    \/ Decide \/ ConnectFails \/ Connected \/ ClientReads \/ Registered \/ Stop
    \/ \E m \in Msgs : Offer(m) \/ Republish(m)
    \/ \E c \in Conn : Resubscribe(c)
    \/ \E i \in DOMAIN jobs : Run(i) \/ Refuse(i) \/ Answer(i) \/ Raise(i)
    \/ BrokerReads \/ Break
    \/ \E r \in Reqs : Ask(r)

Spec == Init /\ [][Next]_vars

\* The loop goes on, appmgr answers, the broker reads and can be reached now and
\* then; timers fire, though Window may keep one back for a while.
FairSpec ==
    /\ Spec
    /\ WF_vars(Decide) /\ SF_vars(Connected) /\ WF_vars(ClientReads) /\ WF_vars(Registered)
    /\ WF_vars(BrokerReads)
    /\ \A m \in Msgs : SF_vars(Republish(m))

-----------------------------------------------------------------------------
(* An acknowledgement marks no message of its own connection but the one it *)
(* is for: what is marked done by a publish of this connection is with the  *)
(* broker, whatever is under way and however often it was published.        *)
OwnAck ==
    [][\A h \in acks \ acks' : (h.conn = conns /\ pub'[h.msg] = "done") => h.msg \in accepted]_vars

(* A request is carried out once, though the broker sends it again after a  *)
(* lost connection, and coroutines of both may be under way.                *)
RunOnce == \A r \in Reqs : ran[r] <= 1

(* The subscription of the connection counts as made only if the broker has *)
(* it, also with handlers of subscriptions of former connections about.     *)
Listening == (connected /\ sub[conns] = "done") => subscribed

(* The client and what it knows of the broker, over all its connections.    *)
SessionInv == TypeOK /\ Listening

(* A message handed over is published until it counts as acknowledged, over *)
(* any number of lost connections, unless the gateway is stopped.           *)
AllPublished == \A m \in Msgs : pub[m] = "trying" ~> (pub[m] = "done" \/ ~running)

(* "callback to call when publihsed message will be acknowledged": a QoS 1  *)
(* or 2 message is logged as published when the broker has acknowledged it. *)
AckedByBroker == \A m \in Msgs : (pub[m] = "done" /\ Qos[m] > 0) => m \in accepted
=============================================================================
