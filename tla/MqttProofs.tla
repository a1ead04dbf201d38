----------------------------- MODULE MqttProofs -----------------------------
(***************************************************************************)
(* What the MQTT gateway keeps, for any messages, requests, number of      *)
(* packet ids and of connections: no request is carried out twice, no      *)
(* subscription counts as made that is not, and an acknowledgement is taken*)
(* for no other message of its connection (Mqtt).                          *)
(***************************************************************************)
EXTENDS Mqtt, SequencesExt, SequenceTheorems, FiniteSetTheorems, TLAPS

-----------------------------------------------------------------------------
(* Facts about the operators on sequences.                                  *)

\* RemoveAt leaves every element but one, each once.
LEMMA RemoveAtFacts ==
    ASSUME NEW S, NEW s \in Seq(S), NEW k \in DOMAIN s
    PROVE  LET q == RemoveAt(s, k) IN
           /\ q \in Seq(S) /\ Len(q) = Len(s) - 1
           /\ \A j \in DOMAIN q : \E i \in DOMAIN s \ {k} : q[j] = s[i]
           /\ \A i \in DOMAIN s \ {k} : \E j \in DOMAIN q : q[j] = s[i]
           /\ \A i, j \in DOMAIN q : i # j =>
                \E l, m \in DOMAIN s \ {k} : l # m /\ q[i] = s[l] /\ q[j] = s[m]
<1> DEFINE a == SubSeq(s, 1, k - 1)
           b == SubSeq(s, k + 1, Len(s))
           q == a \o b
           At(j) == IF j < k THEN j ELSE j + 1
<1>1. Len(s) \in Nat /\ k \in 1 .. Len(s) /\ DOMAIN s = 1 .. Len(s)
  BY LenProperties
<1>2. \A i \in 1 .. Len(s) : s[i] \in S
  BY ElementOfSeq
<1>3. /\ a \in Seq(S) /\ Len(a) = k - 1
      /\ \A i \in 1 .. k - 1 : a[i] = s[i]
  <2>1. \A i \in 1 .. k - 1 : s[i] \in S
    BY <1>1, <1>2
  <2> QED BY <1>1, <2>1, SubSeqProperties
<1>4. /\ b \in Seq(S) /\ Len(b) = Len(s) - k
      /\ \A i \in 1 .. Len(s) - k : b[i] = s[k + i]
  <2>1. \A i \in k + 1 .. Len(s) : s[i] \in S
    BY <1>1, <1>2
  <2>2. /\ SubSeq(s, k + 1, Len(s)) \in Seq(S)
        /\ Len(SubSeq(s, k + 1, Len(s))) = IF k + 1 <= Len(s) THEN Len(s) - (k + 1) + 1 ELSE 0
        /\ \A i \in 1 .. Len(s) - (k + 1) + 1 : SubSeq(s, k + 1, Len(s))[i] = s[k + 1 + i - 1]
    BY <1>1, <2>1, SubSeqProperties
  <2> QED BY <1>1, <2>2
<1> HIDE DEF a, b
<1>5. /\ q \in Seq(S) /\ Len(q) = Len(s) - 1
      /\ \A j \in 1 .. Len(s) - 1 : q[j] = s[At(j)]
  <2>1. /\ q \in Seq(S) /\ Len(q) = Len(a) + Len(b)
        /\ \A i \in 1 .. Len(a) + Len(b) : q[i] = IF i <= Len(a) THEN a[i] ELSE b[i - Len(a)]
    BY <1>3, <1>4, ConcatProperties
  <2>2. Len(a) + Len(b) = Len(s) - 1
    BY <1>1, <1>3, <1>4
  <2>3. ASSUME NEW j \in 1 .. Len(s) - 1 PROVE q[j] = s[At(j)]
    <3>1. CASE j < k
      BY <1>1, <1>3, <2>1, <2>2, <3>1
    <3>2. CASE ~ (j < k)
      <4>1. q[j] = b[j - (k - 1)]
        BY <1>1, <1>3, <2>1, <2>2, <3>2
      <4>2. j - (k - 1) \in 1 .. Len(s) - k /\ k + (j - (k - 1)) = j + 1
        BY <1>1, <3>2
      <4> QED BY <1>4, <3>2, <4>1, <4>2
    <3> QED BY <3>1, <3>2
  <2> QED BY <2>1, <2>2, <2>3
<1>6. q = RemoveAt(s, k)
  BY DEF RemoveAt, a, b
<1> HIDE DEF q
<1>7. DOMAIN q = 1 .. Len(s) - 1
  BY <1>1, <1>5, LenProperties
<1>8. ASSUME NEW i \in DOMAIN s \ {k} PROVE \E j \in DOMAIN q : q[j] = s[i]
  <2>1. CASE i < k
    <3>1. i \in DOMAIN q /\ q[i] = s[i]
      BY <1>1, <1>5, <1>7, <2>1
    <3> QED BY <3>1
  <2>2. CASE ~ (i < k)
    <3>1. i - 1 \in DOMAIN q /\ ~ (i - 1 < k) /\ i - 1 + 1 = i
      BY <1>1, <1>7, <2>2
    <3>2. q[i - 1] = s[i]
      BY <1>5, <1>7, <3>1
    <3> QED BY <3>1, <3>2
  <2> QED BY <2>1, <2>2
<1>9. \A j \in DOMAIN q : At(j) \in DOMAIN s \ {k}
  BY <1>1, <1>7
<1>10. \A i, j \in DOMAIN q : i # j => At(i) # At(j)
  BY <1>1, <1>7
<1>11. \A j \in DOMAIN q : \E i \in DOMAIN s \ {k} : q[j] = s[i]
  BY <1>5, <1>7, <1>9
<1>12. \A i, j \in DOMAIN q : i # j =>
           \E l, m \in DOMAIN s \ {k} : l # m /\ q[i] = s[l] /\ q[j] = s[m]
  <2> HIDE DEF At
  <2> QED BY <1>5, <1>7, <1>9, <1>10
<1> QED BY <1>5, <1>6, <1>8, <1>11, <1>12

\* Append adds one element at the end.
LEMMA AppendFacts ==
    ASSUME NEW S, NEW s \in Seq(S), NEW e \in S
    PROVE  /\ Append(s, e) \in Seq(S) /\ Len(Append(s, e)) = Len(s) + 1
           /\ DOMAIN Append(s, e) = DOMAIN s \cup {Len(s) + 1}
           /\ Len(s) + 1 \notin DOMAIN s
           /\ \A i \in DOMAIN s : Append(s, e)[i] = s[i]
           /\ Append(s, e)[Len(s) + 1] = e
<1>1. Len(s) \in Nat /\ DOMAIN s = 1 .. Len(s)
  BY LenProperties
<1>2. Append(s, e) \in Seq(S) /\ Len(Append(s, e)) = Len(s) + 1
  OBVIOUS
<1>3. DOMAIN Append(s, e) = 1 .. Len(s) + 1
  BY <1>2, LenProperties
<1> QED BY <1>1, <1>2, <1>3

\* Tail leaves out the first element.
LEMMA TailFacts ==
    ASSUME NEW S, NEW s \in Seq(S), s # <<>>
    PROVE  /\ Tail(s) \in Seq(S) /\ Len(s) \in Nat /\ Len(s) > 0
           /\ DOMAIN s = 1 .. Len(s) /\ DOMAIN Tail(s) = 1 .. Len(s) - 1
           /\ \A i \in DOMAIN Tail(s) : i + 1 \in DOMAIN s /\ Tail(s)[i] = s[i + 1]
           /\ Head(s) = s[1] /\ 1 \in DOMAIN s /\ s[1] \in S
<1>1. Len(s) \in Nat /\ DOMAIN s = 1 .. Len(s)
  BY LenProperties
<1>2. Len(s) > 0
  BY <1>1, EmptySeq
<1>3. /\ Tail(s) \in Seq(S) /\ Len(Tail(s)) = Len(s) - 1
      /\ \A i \in 1 .. Len(Tail(s)) : Tail(s)[i] = s[i + 1]
  BY HeadTailProperties
<1>4. DOMAIN Tail(s) = 1 .. Len(s) - 1
  BY <1>3, LenProperties
<1>5. Head(s) = s[1] /\ 1 \in DOMAIN s
  BY <1>1, <1>2
<1>6. s[1] \in S
  BY <1>5, <1>1, ElementOfSeq
<1> QED BY <1>1, <1>2, <1>3, <1>4, <1>5, <1>6

\* The first n elements.
LEMMA PrefixFacts ==
    ASSUME NEW S, NEW s \in Seq(S), NEW n \in 0 .. Len(s)
    PROVE  /\ SubSeq(s, 1, n) \in Seq(S)
           /\ DOMAIN SubSeq(s, 1, n) = 1 .. n
           /\ \A i \in 1 .. n : i \in DOMAIN s /\ SubSeq(s, 1, n)[i] = s[i]
<1>1. Len(s) \in Nat /\ DOMAIN s = 1 .. Len(s)
  BY LenProperties
<1>2. \A i \in 1 .. n : s[i] \in S
  BY <1>1, ElementOfSeq
<1>3. /\ SubSeq(s, 1, n) \in Seq(S)
      /\ Len(SubSeq(s, 1, n)) = IF 1 <= n THEN n - 1 + 1 ELSE 0
      /\ \A i \in 1 .. n - 1 + 1 : SubSeq(s, 1, n)[i] = s[1 + i - 1]
  BY <1>1, <1>2, SubSeqProperties
<1>4. Len(SubSeq(s, 1, n)) = n /\ n \in Nat
  BY <1>1, <1>3
<1>5. DOMAIN SubSeq(s, 1, n) = 1 .. n
  BY <1>3, <1>4, LenProperties
<1>6. \A i \in 1 .. n : SubSeq(s, 1, n)[i] = s[i]
  BY <1>3, <1>4
<1> QED BY <1>1, <1>3, <1>5, <1>6

-----------------------------------------------------------------------------
(* Requests.                                                                *)

\* The request r, sent for the first time, is under way to the client, waits
\* for its coroutine to begin, or was carried out: one of these at most.
FirstSent(p, r) == p.type = "publish" /\ p.req = r /\ ~ p.dup
Forked(j, r) == j.at = "forked" /\ j.req = r /\ ~ j.dup

AskedOnce ==
    \A r \in Reqs :
        /\ asked[r] = 0 => /\ \A i \in DOMAIN down : ~ FirstSent(down[i], r)
                           /\ \A j \in DOMAIN jobs : ~ Forked(jobs[j], r)
                           /\ ran[r] = 0
        /\ \A i, j \in DOMAIN down : FirstSent(down[i], r) /\ FirstSent(down[j], r) => i = j
        /\ \A i, j \in DOMAIN jobs : Forked(jobs[i], r) /\ Forked(jobs[j], r) => i = j
        /\ \A i \in DOMAIN down : FirstSent(down[i], r) =>
              ran[r] = 0 /\ \A j \in DOMAIN jobs : ~ Forked(jobs[j], r)
        /\ \A j \in DOMAIN jobs : Forked(jobs[j], r) => ran[r] = 0
        /\ ran[r] <= 1

\* A subscription that is granted has been made, and is that of no connection
\* to come.
GrantedMade ==
    /\ \A i \in DOMAIN down : down[i].type = "suback" /\ down[i].ok => subscribed
    /\ \A c \in Conn : c > conns => sub[c] = "off"
    /\ \A h \in subacks : h.loop <= conns
    /\ connected => conns \in Conn
    /\ Listening

SInv == TypeOK /\ GrantedMade /\ AskedOnce

-----------------------------------------------------------------------------
(* Packet ids.                                                              *)

\* How many packet ids have been given out since id was.
Age(l, id) == IF id <= l THEN l - id ELSE l + IdSpace - id

Latest(l, n) == {id \in Id : Age(l, id) < n}

\* The handlers of this connection, and the ids they wait for.
Ha == {h \in acks : h.conn = conns}
Hs == {h \in subacks : h.conn = conns}
Ids(H) == {h.id : h \in H}

\* Packets that acknowledge, and packets that want it.
IsAck(p) == p.type \in {"puback", "pubrec", "suback"}
Wants(p) == p.type = "subscribe" \/ (p.type = "publish" /\ p.id # 0)

\* The ids P are those of packets under way, in the order they were given out
\* (l was the last), but for the youngest where the connection is broken.
InOrderOf(u, d, l, P, al) ==
    /\ \A i, j \in DOMAIN d : IsAck(d[i]) /\ IsAck(d[j]) /\ i < j => Age(l, d[i].id) > Age(l, d[j].id)
    /\ \A i, j \in DOMAIN u : Wants(u[i]) /\ Wants(u[j]) /\ i < j => Age(l, u[i].id) > Age(l, u[j].id)
    /\ \A i \in DOMAIN d, j \in DOMAIN u : IsAck(d[i]) /\ Wants(u[j]) => Age(l, d[i].id) > Age(l, u[j].id)
    /\ \A i \in DOMAIN d : IsAck(d[i]) => d[i].id \in P
    /\ \A j \in DOMAIN u : Wants(u[j]) => u[j].id \in P
    /\ \A id \in P :
          \/ \E i \in DOMAIN d : IsAck(d[i]) /\ d[i].id = id
          \/ \E j \in DOMAIN u : Wants(u[j]) /\ u[j].id = id
          \/ ~ al /\ \A i \in DOMAIN d : IsAck(d[i]) => Age(l, d[i].id) > Age(l, id)

\* A packet that wants an acknowledgement, or is one, has the handlers of its own
\* kind and message, of those in A and S.
OwnUp(p, A, S, w) ==
    /\ p.type = "subscribe" => p.id \notin Ids(A)
    /\ p.type = "publish" /\ p.id # 0 =>
          /\ p.id \notin Ids(S)
          /\ \A h \in A : h.id = p.id => h.msg = p.msg
          /\ Qos[p.msg] = 2 => p.id \in w
OwnDown(p, A, S, w, acc) ==
    /\ p.type = "suback" => p.id \notin Ids(A)
    /\ p.type \in {"puback", "pubrec"} =>
          /\ p.id \notin Ids(S)
          /\ \A h \in A : h.id = p.id => h.msg \in acc
    /\ p.type = "pubrec" => p.id \in w

\* CONNACK is the first of the packets to read, and before it is read there is
\* room for one more id.
Greeted(d, n) ==
    /\ \A i \in DOMAIN d : d[i].type = "connack" => i = 1
    /\ n > Window => \A i \in DOMAIN d : d[i].type # "connack"

\* The packets under way and the handlers in A and S that wait for the n latest
\* ids.
InFlight(n, u, d, l, al, A, S, w, acc) ==
    /\ n \in 0 .. Window + 1 /\ Ids(A) \cup Ids(S) = Latest(l, n)
    /\ Greeted(d, n)
    /\ InOrderOf(u, d, l, Latest(l, n), al)
    /\ \A i \in DOMAIN u : OwnUp(u[i], A, S, w)
    /\ \A i \in DOMAIN d : OwnDown(d[i], A, S, w, acc)

Matched == \E n \in 0 .. Window + 1 : InFlight(n, up, down, lastId, alive, Ha, Hs, waitRec, accepted)

\* Handlers are of this connection or of a former one.
Handlers ==
    /\ IsFiniteSet(acks) /\ IsFiniteSet(subacks)
    /\ \A h \in acks \cup subacks : h.conn <= conns

Carried == Handlers /\ (connected => Matched) /\ (~ alive => up = <<>>)

IInv == SInv /\ Carried

-----------------------------------------------------------------------------
(* Types.                                                                   *)

NetOK ==
    /\ connected \in BOOLEAN /\ alive \in BOOLEAN
    /\ up \in Seq(Up) /\ down \in Seq(Down)
    /\ connected \/ (~alive /\ up = <<>> /\ down = <<>>)

IdOK ==
    /\ lastId \in 0 .. IdSpace /\ waitRec \subseteq Id
    /\ acks \subseteq [id : Id, msg : Msgs, conn : Conn]
    /\ subacks \subseteq [id : Id, loop : Conn, conn : Conn]

\* What is left of d is a part of it, without the first element or with it.
Part(d, old) ==
    \E off \in {0, 1} : \A i \in DOMAIN d : i + off \in DOMAIN old /\ d[i] = old[i + off]

LEMMA NextIdType ==
    ASSUME NEW i \in 0 .. IdSpace
    PROVE  NextId(i) \in Id
BY MqttAssumption DEF NextId, Id

LEMMA PartFacts ==
    ASSUME NEW d \in Seq(Down)
    PROVE  /\ Part(d, d) /\ Part(<<>>, d)
           /\ d # <<>> => Part(Tail(d), d)
           /\ \A n \in 0 .. Len(d) : Part(SubSeq(d, 1, n), d)
<1>1. DOMAIN d = 1 .. Len(d) /\ Len(d) \in Nat
  BY LenProperties
<1>2. Part(d, d)
  <2>1. \A i \in DOMAIN d : i + 0 \in DOMAIN d /\ d[i] = d[i + 0]
    BY <1>1
  <2> QED BY <2>1 DEF Part
<1>3. Part(<<>>, d)
  BY DEF Part
<1>4. ASSUME d # <<>> PROVE Part(Tail(d), d)
  BY <1>4, TailFacts DEF Part
<1>5. ASSUME NEW n \in 0 .. Len(d) PROVE Part(SubSeq(d, 1, n), d)
  <2> DEFINE q == SubSeq(d, 1, n)
  <2>1. DOMAIN q = 1 .. n /\ \A i \in 1 .. n : i \in DOMAIN d /\ q[i] = d[i]
    BY PrefixFacts
  <2> HIDE DEF q
  <2>2. \A i \in DOMAIN q : i + 0 \in DOMAIN d /\ q[i] = d[i + 0]
    BY <2>1
  <2>3. Part(q, d)
    BY <2>2 DEF Part
  <2> QED BY <2>3 DEF q
<1> QED BY <1>2, <1>3, <1>4, <1>5

LEMMA SentTypes ==
    ASSUME NetOK, connected, NEW p \in Up, NEW rest \in Seq(Down), Sent(p, rest)
    PROVE  NetOK' /\ down' = rest /\ connected' = connected
<1>1. Append(up, p) \in Seq(Up)
  BY AppendFacts DEF NetOK
<1> QED BY <1>1 DEF Sent, NetOK

LEMMA ClosedTypes ==
    ASSUME Closed
    PROVE  NetOK' /\ down' = <<>> /\ connected' = FALSE
BY EmptySeq DEF Closed, NetOK

\* What comes from the broker is of one kind.
LEMMA DownFacts ==
    ASSUME NEW p \in Down
    PROVE  /\ p.type \in {"connack", "suback", "puback", "pubrec", "publish"}
           /\ p.type \in {"connack", "suback"} => p.id \in {0} \cup Id /\ p.ok \in BOOLEAN
           /\ p.type \in {"puback", "pubrec"} => p.id \in Id
           /\ p.type = "publish" => p.req \in Reqs /\ p.dup \in BOOLEAN
BY DEF Down

LEMMA UpFacts ==
    /\ \A p \in Up : /\ p.type \in {"publish", "subscribe", "pubrel", "puback"}
                     /\ p.type = "publish" => p.id \in {0} \cup Id /\ p.msg \in Msgs
                     /\ p.type \in {"subscribe", "pubrel"} => p.id \in Id
                     /\ p.type = "puback" => p.req \in Reqs
    /\ \A id \in {0} \cup Id, m \in Msgs : [type |-> "publish", id |-> id, msg |-> m] \in Up
    /\ \A id \in Id : /\ [type |-> "subscribe", id |-> id] \in Up
                      /\ [type |-> "pubrel", id |-> id] \in Up
    /\ \A r \in Reqs : [type |-> "puback", req |-> r] \in Up
BY DEF Up

LEMMA PublishedTypes ==
    ASSUME NetOK, IdOK, connected, conns \in Conn, NEW m \in Msgs, NEW rest \in Seq(Down),
           pub \in [Msgs -> {"new", "trying", "done"}],
           Published(m, rest), UNCHANGED subacks
    PROVE  /\ NetOK' /\ IdOK' /\ pub' \in [Msgs -> {"new", "trying", "done"}]
           /\ down' \in {rest, <<>>}
<1> DEFINE id == NextId(lastId)
<1>1. id \in Id /\ lastId \in 0 .. IdSpace /\ waitRec \subseteq Id
  BY NextIdType DEF IdOK
<1>2. id \in 0 .. IdSpace
  BY <1>1, MqttAssumption DEF Id
<1>3. CASE Sent([type |-> "publish", id |-> 0, msg |-> m], rest) /\ Qos[m] = 0
           /\ pub' = [pub EXCEPT ![m] = "done"] /\ UNCHANGED <<lastId, waitRec, acks>>
  <2>1. NetOK' /\ down' = rest
    BY <1>3, UpFacts, SentTypes
  <2> QED BY <1>3, <2>1 DEF IdOK
<1>4. CASE SendFails /\ Qos[m] = 0 /\ pub' = [pub EXCEPT ![m] = "trying"]
           /\ UNCHANGED <<lastId, waitRec, acks>>
  <2>1. NetOK' /\ down' = <<>>
    BY <1>4, ClosedTypes DEF SendFails
  <2> QED BY <1>4, <2>1 DEF IdOK
<1>5. CASE /\ Sent([type |-> "publish", id |-> id, msg |-> m], rest)
           /\ acks' = acks \cup {[id |-> id, msg |-> m, conn |-> conns]}
           /\ waitRec' = IF Qos[m] = 2 THEN waitRec \cup {id} ELSE waitRec
           /\ lastId' = id /\ pub' = [pub EXCEPT ![m] = "trying"]
  <2>1. NetOK' /\ down' = rest
    BY <1>1, <1>5, UpFacts, SentTypes
  <2>2. [id |-> id, msg |-> m, conn |-> conns] \in [id : Id, msg : Msgs, conn : Conn]
    BY <1>1
  <2> HIDE DEF id
  <2>3. IdOK'
    BY <1>1, <1>2, <1>5, <2>2 DEF IdOK
  <2> QED BY <1>5, <2>1, <2>3
<1>6. CASE SendFails /\ UNCHANGED <<acks, waitRec>> /\ lastId' = id /\ pub' = [pub EXCEPT ![m] = "trying"]
  <2>1. NetOK' /\ down' = <<>>
    BY <1>6, ClosedTypes DEF SendFails
  <2> QED BY <1>2, <1>6, <2>1 DEF IdOK
<1> QED BY <1>3, <1>4, <1>5, <1>6 DEF Published

LEMMA SubscribesTypes ==
    ASSUME NetOK, IdOK, connected, conns \in Conn, NEW c \in Conn, NEW rest \in Seq(Down),
           Subscribes(c, rest), UNCHANGED <<waitRec, acks>>
    PROVE  /\ NetOK' /\ IdOK' /\ down' \in {rest, <<>>}
           /\ \A h \in subacks' : h \in subacks \/ h.loop = c
<1> DEFINE id == NextId(lastId)
<1>1. id \in Id
  BY NextIdType DEF IdOK
<1>2. id \in 0 .. IdSpace
  BY <1>1, MqttAssumption DEF Id
<1>3. CASE /\ Sent([type |-> "subscribe", id |-> id], rest)
           /\ subacks' = subacks \cup {[id |-> id, loop |-> c, conn |-> conns]}
           /\ lastId' = id
  <2>1. NetOK' /\ down' = rest
    BY <1>1, <1>3, UpFacts, SentTypes
  <2>2. [id |-> id, loop |-> c, conn |-> conns] \in [id : Id, loop : Conn, conn : Conn]
    BY <1>1
  <2> HIDE DEF id
  <2> QED BY <1>2, <1>3, <2>1, <2>2 DEF IdOK
<1>4. CASE SendFails /\ UNCHANGED subacks /\ lastId' = id
  <2>1. NetOK' /\ down' = <<>>
    BY <1>4, ClosedTypes DEF SendFails
  <2> QED BY <1>2, <1>4, <2>1 DEF IdOK
<1> QED BY <1>3, <1>4 DEF Subscribes

RestOK ==
    /\ running \in BOOLEAN
    /\ loop \in {"idle", "connecting", "registering"}
    /\ conns \in 0 .. MaxConn
    /\ pub \in [Msgs -> {"new", "trying", "done"}]
    /\ sub \in [Conn -> {"off", "trying", "done"}]
    /\ jobs \in Seq(Job) /\ Len(jobs) <= Cocurrency
    /\ accepted \subseteq Msgs /\ subscribed \in BOOLEAN
    /\ asked \in [Reqs -> 0 .. MaxConn] /\ heard \subseteq Reqs
    /\ ran \in [Reqs -> 0 .. 2]

LEMMA TypeParts == TypeOK <=> NetOK /\ IdOK /\ RestOK
BY DEF TypeOK, NetOK, IdOK, RestOK

LEMMA TypePartsNext == TypeOK' <=> NetOK' /\ IdOK' /\ RestOK'
BY DEF TypeOK, NetOK, IdOK, RestOK

-----------------------------------------------------------------------------
(* Requests are carried out once.                                           *)

\* No request that was sent once, or waits for its coroutine, is new among d, or J.
LEMMA AskedKeeps ==
    ASSUME AskedOnce, UNCHANGED <<asked, ran>>, Part(down', down), down' \in Seq(Down),
           \A r \in Reqs :
              /\ \A j \in DOMAIN jobs' : Forked(jobs'[j], r) => \E k \in DOMAIN jobs : Forked(jobs[k], r)
              /\ \A i, j \in DOMAIN jobs' : i # j /\ Forked(jobs'[i], r) /\ Forked(jobs'[j], r) =>
                    \E k, l \in DOMAIN jobs : k # l /\ Forked(jobs[k], r) /\ Forked(jobs[l], r)
    PROVE  AskedOnce'
<1>1. PICK off \in {0, 1} : \A i \in DOMAIN down' : i + off \in DOMAIN down /\ down'[i] = down[i + off]
  BY DEF Part
<1>2. SUFFICES ASSUME NEW r \in Reqs
               PROVE  /\ asked[r] = 0 => /\ \A i \in DOMAIN down' : ~ FirstSent(down'[i], r)
                                         /\ \A j \in DOMAIN jobs' : ~ Forked(jobs'[j], r)
                                         /\ ran[r] = 0
                      /\ \A i, j \in DOMAIN down' : FirstSent(down'[i], r) /\ FirstSent(down'[j], r) => i = j
                      /\ \A i, j \in DOMAIN jobs' : Forked(jobs'[i], r) /\ Forked(jobs'[j], r) => i = j
                      /\ \A i \in DOMAIN down' : FirstSent(down'[i], r) =>
                            ran[r] = 0 /\ \A j \in DOMAIN jobs' : ~ Forked(jobs'[j], r)
                      /\ \A j \in DOMAIN jobs' : Forked(jobs'[j], r) => ran[r] = 0
                      /\ ran[r] <= 1
  BY DEF AskedOnce, FirstSent, Forked
<1>3. /\ asked[r] = 0 => /\ \A i \in DOMAIN down : ~ FirstSent(down[i], r)
                         /\ \A j \in DOMAIN jobs : ~ Forked(jobs[j], r)
                         /\ ran[r] = 0
      /\ \A i, j \in DOMAIN down : FirstSent(down[i], r) /\ FirstSent(down[j], r) => i = j
      /\ \A i, j \in DOMAIN jobs : Forked(jobs[i], r) /\ Forked(jobs[j], r) => i = j
      /\ \A i \in DOMAIN down : FirstSent(down[i], r) =>
            ran[r] = 0 /\ \A j \in DOMAIN jobs : ~ Forked(jobs[j], r)
      /\ \A j \in DOMAIN jobs : Forked(jobs[j], r) => ran[r] = 0
      /\ ran[r] <= 1
  BY DEF AskedOnce
<1>4. \A i \in DOMAIN down' : FirstSent(down'[i], r) => i + off \in DOMAIN down /\ FirstSent(down[i + off], r)
  BY <1>1
<1>5. ASSUME NEW i \in DOMAIN down', NEW j \in DOMAIN down', FirstSent(down'[i], r), FirstSent(down'[j], r)
      PROVE  i = j
  <2>1. i + off = j + off
    BY <1>3, <1>4, <1>5
  <2>2. i \in Int /\ j \in Int
    BY LenProperties
  <2> QED BY <2>1, <2>2
<1>6. \A i, j \in DOMAIN jobs' : Forked(jobs'[i], r) /\ Forked(jobs'[j], r) => i = j
  BY <1>3
<1>7. \A j \in DOMAIN jobs' : Forked(jobs'[j], r) => \E k \in DOMAIN jobs : Forked(jobs[k], r)
  OBVIOUS
<1> QED BY <1>3, <1>4, <1>5, <1>6, <1>7

\* What a step that carries nothing out, and asks for nothing, keeps.
LEMMA QuietKeeps ==
    ASSUME SInv, NetOK', IdOK', RestOK', Part(down', down),
           UNCHANGED <<conns, subscribed, asked, jobs, ran>>, connected' => connected,
           \A c \in Conn : sub'[c] # "off" => c <= conns,
           \A h \in subacks' : h.loop <= conns,
           connected' /\ sub'[conns] = "done" => sub[conns] = "done" \/ subscribed
    PROVE  SInv'
<1>1. TypeOK /\ GrantedMade /\ AskedOnce
  BY DEF SInv
<1>2. TypeOK'
  BY TypePartsNext
<1>3. AskedOnce'
  <2>1. down' \in Seq(Down)
    BY DEF NetOK
  <2> QED BY <1>1, <2>1, AskedKeeps
<1>4. GrantedMade'
  <2>1. PICK off \in {0, 1} : \A i \in DOMAIN down' : i + off \in DOMAIN down /\ down'[i] = down[i + off]
    BY DEF Part
  <2>2. \A i \in DOMAIN down' : down'[i].type = "suback" /\ down'[i].ok => subscribed'
    BY <1>1, <2>1 DEF GrantedMade
  <2>3. connected' => conns' \in Conn
    BY <1>1 DEF GrantedMade
  <2>4. Listening'
    BY <1>1 DEF GrantedMade, Listening
  <2>5. \A c \in Conn : c > conns' => sub'[c] = "off"
    <3>1. ASSUME NEW c \in Conn, c > conns PROVE sub'[c] = "off"
      <4>1. ~ (c <= conns)
        BY <1>1, <3>1, MqttAssumption DEF TypeOK, Conn
      <4> QED BY <4>1
    <3> QED BY <3>1
  <2> QED BY <2>2, <2>3, <2>4, <2>5 DEF GrantedMade
<1> QED BY <1>2, <1>3, <1>4 DEF SInv

LEMMA SInvFacts ==
    ASSUME SInv
    PROVE  /\ NetOK /\ IdOK /\ RestOK
           /\ \A c \in Conn : sub[c] # "off" => c <= conns
           /\ \A h \in subacks : h.loop <= conns
           /\ connected => conns \in Conn
           /\ down # <<>> => connected
           /\ down \in Seq(Down)
<1>1. NetOK /\ IdOK /\ RestOK
  BY TypeParts DEF SInv
<1>2. ASSUME NEW c \in Conn, sub[c] # "off" PROVE c <= conns
  <2>1. ~ (c > conns)
    BY <1>2 DEF SInv, GrantedMade
  <2> QED BY <1>1, <2>1, MqttAssumption DEF RestOK, Conn
<1> QED BY <1>1, <1>2 DEF SInv, GrantedMade, NetOK

LEMMA PublishKeeps ==
    ASSUME SInv, NEW m \in Msgs, connected, Published(m, down),
           UNCHANGED <<running, loop, conns, subacks, sub, jobs, brokerVars, ran>>
    PROVE  SInv'
<1>1. UNCHANGED <<running, loop, conns, subacks, sub, jobs, accepted, subscribed, asked, heard, ran>>
  BY DEF brokerVars
<1>2. /\ NetOK /\ IdOK /\ RestOK /\ conns \in Conn /\ down \in Seq(Down)
      /\ \A c \in Conn : sub[c] # "off" => c <= conns
      /\ \A h \in subacks : h.loop <= conns
  BY SInvFacts
<1>3. /\ NetOK' /\ IdOK' /\ pub' \in [Msgs -> {"new", "trying", "done"}]
      /\ down' \in {down, <<>>}
  <2>1. pub \in [Msgs -> {"new", "trying", "done"}] /\ UNCHANGED subacks
    BY <1>1, <1>2 DEF RestOK
  <2> QED BY <1>2, <2>1, PublishedTypes
<1>4. Part(down', down)
  BY <1>2, <1>3, PartFacts
<1>5. RestOK'
  BY <1>1, <1>2, <1>3 DEF RestOK
<1> QED BY <1>1, <1>2, <1>3, <1>4, <1>5, QuietKeeps

LEMMA OfferedSplit ==
    ASSUME NEW m \in Msgs, Offered(m)
    PROVE  \/ connected /\ Published(m, down)
           \/ pub' = [pub EXCEPT ![m] = "trying"] /\ UNCHANGED <<netVars, lastId, waitRec, acks>>
BY DEF Offered

LEMMA OfferKeeps ==
    ASSUME SInv, NEW m \in Msgs, Offer(m) \/ Republish(m)
    PROVE  SInv'
<1>1. CASE connected /\ Published(m, down)
  BY <1>1, PublishKeeps DEF Offer, Republish
<1>2. CASE ~ (connected /\ Published(m, down))
  <2>1. /\ pub' = [pub EXCEPT ![m] = "trying"] /\ UNCHANGED <<netVars, lastId, waitRec, acks>>
        /\ UNCHANGED <<running, loop, conns, subacks, sub, jobs, brokerVars, ran>>
    BY <1>2, OfferedSplit DEF Offer, Republish
  <2>2. UNCHANGED <<connected, alive, up, down, lastId, waitRec, acks, running, loop, conns, subacks,
                    sub, jobs, accepted, subscribed, asked, heard, ran>>
    BY <2>1 DEF netVars, brokerVars
  <2>3. /\ NetOK /\ IdOK /\ RestOK /\ down \in Seq(Down)
        /\ \A c \in Conn : sub[c] # "off" => c <= conns
        /\ \A h \in subacks : h.loop <= conns
    BY SInvFacts
  <2>4. NetOK' /\ IdOK'
    BY <2>2, <2>3 DEF NetOK, IdOK
  <2>5. RestOK'
    BY <2>1, <2>2, <2>3 DEF RestOK
  <2>6. Part(down', down)
    BY <2>2, <2>3, PartFacts
  <2> QED BY <2>2, <2>3, <2>4, <2>5, <2>6, QuietKeeps
<1> QED BY <1>1, <1>2

LEMMA ResubscribeKeeps ==
    ASSUME SInv, NEW c \in Conn, Resubscribe(c)
    PROVE  SInv'
<1>1. /\ sub[c] = "trying"
      /\ UNCHANGED <<running, loop, conns, waitRec, acks, pub, jobs, accepted, subscribed, asked, heard, ran>>
  BY DEF Resubscribe, brokerVars
<1>2. /\ NetOK /\ IdOK /\ RestOK /\ down \in Seq(Down)
      /\ \A d \in Conn : sub[d] # "off" => d <= conns
      /\ \A h \in subacks : h.loop <= conns
      /\ connected => conns \in Conn
  BY SInvFacts
<1>3. CASE connected /\ Room /\ Subscribes(c, down) /\ UNCHANGED sub
  <2>1. /\ NetOK' /\ IdOK' /\ down' \in {down, <<>>}
        /\ \A h \in subacks' : h \in subacks \/ h.loop = c
    BY <1>1, <1>2, <1>3, SubscribesTypes
  <2>2. Part(down', down)
    BY <1>2, <2>1, PartFacts
  <2>3. RestOK'
    BY <1>1, <1>2, <1>3 DEF RestOK
  <2>4. \A h \in subacks' : h.loop <= conns
    BY <1>1, <1>2, <2>1
  <2> QED BY <1>1, <1>2, <1>3, <2>1, <2>2, <2>3, <2>4, QuietKeeps
<1>4. CASE ~connected /\ sub' = [sub EXCEPT ![c] = "off"] /\ UNCHANGED <<netVars, lastId, subacks>>
  <2>1. UNCHANGED <<connected, alive, up, down, lastId, subacks>>
    BY <1>4 DEF netVars
  <2>2. NetOK' /\ IdOK'
    BY <1>1, <1>2, <2>1 DEF NetOK, IdOK
  <2>3. RestOK'
    BY <1>1, <1>2, <1>4 DEF RestOK
  <2>4. Part(down', down)
    BY <1>2, <2>1, PartFacts
  <2>5. \A d \in Conn : sub'[d] # "off" => d <= conns
    BY <1>2, <1>4 DEF RestOK
  <2> QED BY <1>1, <1>2, <1>4, <2>1, <2>2, <2>3, <2>4, <2>5, QuietKeeps
<1> QED BY <1>3, <1>4 DEF Resubscribe

LEMMA LoopKeeps ==
    ASSUME SInv, Decide \/ ConnectFails \/ Registered \/ Stop \/ GetClosed
    PROVE  SInv'
<1>1. /\ UNCHANGED <<conns, lastId, waitRec, acks, subacks, pub, sub, jobs,
                     accepted, subscribed, asked, heard, ran>>
      /\ running' \in BOOLEAN /\ loop' \in {"idle", "connecting", "registering"}
      /\ Closed \/ UNCHANGED <<connected, alive, up, down>>
  <2>1. running \in BOOLEAN /\ loop \in {"idle", "connecting", "registering"}
    BY DEF SInv, TypeOK
  <2> QED BY <2>1 DEF Decide, ConnectFails, Registered, Stop, GetClosed, idVars, brokerVars, netVars
<1>2. /\ NetOK /\ IdOK /\ RestOK /\ down \in Seq(Down)
      /\ \A d \in Conn : sub[d] # "off" => d <= conns
      /\ \A h \in subacks : h.loop <= conns
  BY SInvFacts
<1>3. IdOK' /\ RestOK'
  BY <1>1, <1>2 DEF IdOK, RestOK
<1>4. NetOK' /\ down' \in {down, <<>>} /\ (connected' => connected)
  <2>1. CASE Closed
    BY <2>1, ClosedTypes
  <2>2. CASE UNCHANGED <<connected, alive, up, down>>
    BY <1>2, <2>2 DEF NetOK
  <2> QED BY <1>1, <2>1, <2>2
<1>5. Part(down', down)
  BY <1>2, <1>4, PartFacts
<1> QED BY <1>1, <1>2, <1>3, <1>4, <1>5, QuietKeeps

LEMMA ReadsFacts ==
    ASSUME SInv, NEW type, Reads(type)
    PROVE  /\ connected /\ conns \in Conn
           /\ down # <<>> /\ Head(down) = down[1] /\ 1 \in DOMAIN down
           /\ Head(down) \in Down /\ Head(down).type = type
           /\ Tail(down) \in Seq(Down) /\ Part(Tail(down), down)
<1>1. down # <<>> /\ Head(down).type = type
  BY DEF Reads
<1> QED BY <1>1, SInvFacts, TailFacts, PartFacts

LEMMA GetConnackKeeps ==
    ASSUME SInv, GetConnack
    PROVE  SInv'
<1>1. /\ connected /\ conns \in Conn /\ Tail(down) \in Seq(Down) /\ Part(Tail(down), down)
  <2>1. Reads("connack")
    BY DEF GetConnack
  <2> QED BY <2>1, ReadsFacts
<1>2. UNCHANGED <<running, conns, waitRec, acks, pub, jobs, accepted, subscribed, asked, heard, ran>>
  BY DEF GetConnack, brokerVars
<1>3. /\ NetOK /\ IdOK /\ RestOK /\ down \in Seq(Down)
      /\ \A d \in Conn : sub[d] # "off" => d <= conns
      /\ \A h \in subacks : h.loop <= conns
  BY SInvFacts
<1>4. CASE /\ sub' = [sub EXCEPT ![conns] = "trying"]
           /\ Subscribes(conns, Tail(down))
           /\ loop' = "registering"
  <2>1. /\ NetOK' /\ IdOK' /\ down' \in {Tail(down), <<>>}
        /\ \A h \in subacks' : h \in subacks \/ h.loop = conns
    BY <1>1, <1>2, <1>3, <1>4, SubscribesTypes
  <2>2. Part(down', down)
    BY <1>1, <1>3, <2>1, PartFacts
  <2>3. RestOK'
    BY <1>1, <1>2, <1>3, <1>4 DEF RestOK
  <2>4. /\ \A d \in Conn : sub'[d] # "off" => d <= conns
        /\ sub'[conns] # "done"
    BY <1>1, <1>3, <1>4, MqttAssumption DEF RestOK, Conn
  <2>5. \A h \in subacks' : h.loop <= conns
    BY <1>1, <1>3, <2>1, MqttAssumption DEF Conn
  <2> QED BY <1>1, <1>2, <2>1, <2>2, <2>3, <2>4, <2>5, QuietKeeps
<1>5. CASE Closed /\ UNCHANGED <<sub, lastId, subacks, loop>>
  <2>1. NetOK' /\ down' = <<>> /\ ~ connected'
    BY <1>5, ClosedTypes
  <2>2. Part(down', down)
    BY <1>3, <2>1, PartFacts
  <2>3. IdOK' /\ RestOK'
    BY <1>2, <1>3, <1>5 DEF IdOK, RestOK
  <2> QED BY <1>2, <1>3, <1>5, <2>1, <2>2, <2>3, QuietKeeps
<1> QED BY <1>4, <1>5 DEF GetConnack

LEMMA AcknowledgedTypes ==
    ASSUME RestOK, acks \subseteq [id : Id, msg : Msgs, conn : Conn], NEW id, Acknowledged(id)
    PROVE  /\ acks' \subseteq [id : Id, msg : Msgs, conn : Conn]
           /\ pub' \in [Msgs -> {"new", "trying", "done"}]
BY DEF Acknowledged, RestOK

LEMMA GetPubackKeeps ==
    ASSUME SInv, GetPuback
    PROVE  SInv'
<1>1. Tail(down) \in Seq(Down) /\ Part(Tail(down), down) /\ connected
  <2>1. Reads("puback")
    BY DEF GetPuback
  <2> QED BY <2>1, ReadsFacts
<1>2. /\ Acknowledged(Head(down).id) /\ down' = Tail(down)
      /\ UNCHANGED <<running, loop, connected, alive, up, conns, lastId, waitRec, subacks, sub, jobs,
                     accepted, subscribed, asked, heard, ran>>
  BY DEF GetPuback, brokerVars
<1>3. /\ NetOK /\ IdOK /\ RestOK /\ \A d \in Conn : sub[d] # "off" => d <= conns
      /\ \A h \in subacks : h.loop <= conns
  BY SInvFacts
<1>4. /\ acks' \subseteq [id : Id, msg : Msgs, conn : Conn]
      /\ pub' \in [Msgs -> {"new", "trying", "done"}]
  BY <1>2, <1>3, AcknowledgedTypes DEF IdOK
<1>5. NetOK' /\ IdOK' /\ RestOK' /\ Part(down', down)
  BY <1>1, <1>2, <1>3, <1>4 DEF NetOK, IdOK, RestOK
<1> QED BY <1>2, <1>3, <1>5, QuietKeeps

LEMMA GetPubrecKeeps ==
    ASSUME SInv, GetPubrec
    PROVE  SInv'
<1> DEFINE id == Head(down).id
<1>1. /\ Tail(down) \in Seq(Down) /\ Part(Tail(down), down) /\ connected /\ id \in Id
  <2>1. Reads("pubrec")
    BY DEF GetPubrec
  <2> QED BY <2>1, ReadsFacts, DownFacts
<1>2. UNCHANGED <<running, loop, conns, lastId, subacks, sub, jobs, accepted, subscribed, asked, heard, ran>>
  BY DEF GetPubrec, brokerVars
<1>3. /\ NetOK /\ IdOK /\ RestOK /\ down \in Seq(Down) /\ \A d \in Conn : sub[d] # "off" => d <= conns
      /\ \A h \in subacks : h.loop <= conns
  BY SInvFacts
<1>4. \/ Sent([type |-> "pubrel", id |-> id], Tail(down)) /\ Acknowledged(id) /\ waitRec' = waitRec \ {id}
      \/ SendFails /\ UNCHANGED <<acks, pub>> /\ waitRec' = waitRec \ {id}
      \/ down' = Tail(down) /\ UNCHANGED <<connected, alive, up, waitRec, acks, pub>>
  BY DEF GetPubrec
<1>5. /\ acks' \subseteq [id : Id, msg : Msgs, conn : Conn]
      /\ pub' \in [Msgs -> {"new", "trying", "done"}]
  <2> HIDE DEF id
  <2> QED BY <1>3, <1>4, AcknowledgedTypes DEF IdOK, RestOK
<1>6. NetOK' /\ down' \in {Tail(down), <<>>}
  <2>1. CASE Sent([type |-> "pubrel", id |-> id], Tail(down))
    BY <1>1, <1>3, <2>1, SentTypes, UpFacts
  <2>2. CASE SendFails
    BY <2>2, ClosedTypes DEF SendFails
  <2>3. CASE down' = Tail(down) /\ UNCHANGED <<connected, alive, up, waitRec, acks, pub>>
    BY <1>1, <1>3, <2>3 DEF NetOK
  <2> QED BY <1>4, <2>1, <2>2, <2>3
<1>7. Part(down', down)
  BY <1>1, <1>3, <1>6, PartFacts
<1>8. waitRec' \subseteq Id
  BY <1>3, <1>4 DEF IdOK
<1>9. IdOK' /\ RestOK'
  BY <1>2, <1>3, <1>5, <1>8 DEF IdOK, RestOK
<1> QED BY <1>1, <1>2, <1>3, <1>6, <1>7, <1>9, QuietKeeps

LEMMA GetSubackKeeps ==
    ASSUME SInv, GetSuback
    PROVE  SInv'
<1> DEFINE fired == {h \in subacks : h.id = Head(down).id}
<1>1. /\ Tail(down) \in Seq(Down) /\ Part(Tail(down), down) /\ connected /\ conns \in Conn
      /\ Head(down) = down[1] /\ 1 \in DOMAIN down /\ Head(down).type = "suback"
  <2>1. Reads("suback")
    BY DEF GetSuback
  <2> QED BY <2>1, ReadsFacts
<1>2. /\ subacks' = subacks \ fired
      /\ sub' = [c \in Conn |-> IF Granted(Head(down)) /\ \E h \in fired : h.loop = c THEN "done" ELSE sub[c]]
      /\ down' = Tail(down)
      /\ UNCHANGED <<running, loop, connected, alive, up, conns, lastId, waitRec, acks, pub, jobs,
                     accepted, subscribed, asked, heard, ran>>
  BY DEF GetSuback, brokerVars
<1>3. /\ NetOK /\ IdOK /\ RestOK /\ \A d \in Conn : sub[d] # "off" => d <= conns
      /\ \A h \in subacks : h.loop <= conns
  BY SInvFacts
<1>4. NetOK' /\ IdOK' /\ RestOK' /\ Part(down', down)
  BY <1>1, <1>2, <1>3 DEF NetOK, IdOK, RestOK
<1>5. sub'[conns] = "done" => sub[conns] = "done" \/ subscribed
  <2>1. Head(down).ok => subscribed
    BY <1>1 DEF SInv, GrantedMade
  <2> QED BY <1>1, <1>2, <2>1 DEF Granted
<1>6. \A c \in Conn : sub'[c] # "off" => c <= conns
  BY <1>2, <1>3
<1>7. \A h \in subacks' : h.loop <= conns
  BY <1>2, <1>3
<1> HIDE DEF fired
<1> QED BY <1>2, <1>4, <1>5, <1>6, <1>7, QuietKeeps

\* The broker may have lost the session.
LEMMA ConnectedKeeps ==
    ASSUME SInv, Connected
    PROVE  SInv'
<1>1. /\ conns < MaxConn /\ loop' = "idle" /\ connected' = TRUE /\ conns' = conns + 1 /\ up' = <<>>
      /\ lastId' = 0 /\ waitRec' = {} /\ subscribed' \in {FALSE, subscribed}
      /\ UNCHANGED <<running, acks, subacks, pub, sub, jobs, accepted, asked, heard, ran>>
  BY DEF Connected
<1>2. PICK ok \in BOOLEAN : alive' = ok /\ down' = <<[type |-> "connack", id |-> 0, ok |-> ok]>>
  BY DEF Connected
<1>3. /\ NetOK /\ IdOK /\ RestOK
      /\ \A d \in Conn : sub[d] # "off" => d <= conns
      /\ \A h \in subacks : h.loop <= conns
  BY SInvFacts
<1>4. [type |-> "connack", id |-> 0, ok |-> ok] \in Down
  BY DEF Down
<1>5. /\ down' \in Seq(Down) /\ DOMAIN down' = {1}
      /\ down'[1] = [type |-> "connack", id |-> 0, ok |-> ok]
  BY <1>2, <1>4
<1>6. /\ conns \in 0 .. MaxConn /\ conns' \in Conn /\ conns < conns' /\ conns' \in 0 .. MaxConn
      /\ IdSpace \in Nat
  BY <1>1, <1>3, MqttAssumption DEF RestOK, Conn
<1>7. NetOK'
  BY <1>1, <1>2, <1>5 DEF NetOK
<1>8. IdOK' /\ RestOK'
  <2>1. subscribed' \in BOOLEAN
    BY <1>1, <1>3 DEF RestOK
  <2>2. 0 \in 0 .. IdSpace
    BY <1>6
  <2> QED BY <1>1, <1>3, <1>6, <2>1, <2>2 DEF IdOK, RestOK
<1>9. AskedOnce'
  <2>1. \A i \in DOMAIN down' : down'[i].type = "connack"
    BY <1>5
  <2>2. \A i \in DOMAIN down', r \in Reqs : ~ FirstSent(down'[i], r)
    BY <2>1 DEF FirstSent
  <2>3. \A r \in Reqs :
          /\ asked[r] = 0 => (\A j \in DOMAIN jobs : ~ Forked(jobs[j], r)) /\ ran[r] = 0
          /\ \A i, j \in DOMAIN jobs : Forked(jobs[i], r) /\ Forked(jobs[j], r) => i = j
          /\ \A j \in DOMAIN jobs : Forked(jobs[j], r) => ran[r] = 0
          /\ ran[r] <= 1
    BY DEF SInv, AskedOnce
  <2>4. UNCHANGED <<asked, jobs, ran>>
    BY <1>1
  <2> QED BY <2>2, <2>3, <2>4 DEF AskedOnce, FirstSent, Forked
<1>10. GrantedMade'
  <2>1. \A c \in Conn : sub'[c] # "off" => c <= conns
    BY <1>1, <1>3
  <2>2. \A c \in Conn : c > conns' => sub'[c] = "off"
    <3>1. \A c \in Conn : c > conns' => ~ (c <= conns)
      BY <1>6 DEF Conn
    <3> QED BY <2>1, <3>1
  <2>3. sub'[conns'] = "off"
    <3>1. ~ (conns' <= conns)
      BY <1>6 DEF Conn
    <3> QED BY <1>6, <2>1, <3>1
  <2>4. \A h \in subacks' : h.loop <= conns'
    <3>1. \A h \in subacks : h.loop \in Conn
      BY <1>3 DEF IdOK
    <3>2. \A c \in Conn : c <= conns => c <= conns'
      BY <1>6 DEF Conn
    <3> QED BY <1>1, <1>3, <3>1, <3>2
  <2> QED BY <1>5, <1>6, <2>2, <2>3, <2>4 DEF GrantedMade, Listening
<1> QED BY <1>7, <1>8, <1>9, <1>10, TypePartsNext DEF SInv

\* A request is taken up, or dropped.
LEMMA GetRequestKeeps ==
    ASSUME SInv, GetRequest
    PROVE  SInv'
<1> DEFINE p == Head(down)
           job == [req |-> p.req, dup |-> p.dup, at |-> "forked"]
<1>1. /\ Tail(down) \in Seq(Down) /\ Part(Tail(down), down) /\ connected /\ down # <<>>
      /\ p = down[1] /\ 1 \in DOMAIN down /\ p \in Down /\ p.type = "publish"
  <2>1. Reads("publish")
    BY DEF GetRequest
  <2> QED BY <2>1, ReadsFacts
<1>2. p.req \in Reqs /\ p.dup \in BOOLEAN
  BY <1>1, DownFacts
<1>3. /\ Sent([type |-> "puback", req |-> p.req], Tail(down)) \/ SendFails
      /\ jobs' = IF Len(jobs) < Cocurrency THEN Append(jobs, job) ELSE jobs
      /\ UNCHANGED <<running, loop, conns, lastId, waitRec, acks, subacks, pub, sub,
                     accepted, subscribed, asked, heard, ran>>
  BY DEF GetRequest, idVars, brokerVars
<1>4. /\ NetOK /\ IdOK /\ RestOK /\ down \in Seq(Down)
  BY SInvFacts
<1>5. NetOK' /\ down' \in {Tail(down), <<>>}
  <2>1. CASE Sent([type |-> "puback", req |-> p.req], Tail(down))
    BY <1>1, <1>2, <1>4, <2>1, SentTypes, UpFacts
  <2>2. CASE SendFails
    BY <2>2, ClosedTypes DEF SendFails
  <2> QED BY <1>3, <2>1, <2>2
<1>6. job \in Job /\ jobs \in Seq(Job) /\ Len(jobs) \in Nat /\ Cocurrency \in Nat /\ Len(jobs) <= Cocurrency
  BY <1>2, <1>4, LenProperties, MqttAssumption DEF Job, RestOK
<1> HIDE DEF job, p
<1>7. /\ Append(jobs, job) \in Seq(Job) /\ Len(Append(jobs, job)) = Len(jobs) + 1
      /\ DOMAIN Append(jobs, job) = DOMAIN jobs \cup {Len(jobs) + 1}
      /\ Len(jobs) + 1 \notin DOMAIN jobs
      /\ \A i \in DOMAIN jobs : Append(jobs, job)[i] = jobs[i]
      /\ Append(jobs, job)[Len(jobs) + 1] = job
  BY <1>6, AppendFacts
<1>8. IdOK' /\ RestOK'
  <2>1. jobs' \in Seq(Job) /\ Len(jobs') <= Cocurrency
    BY <1>3, <1>6, <1>7
  <2> QED BY <1>3, <1>4, <2>1 DEF IdOK, RestOK
<1>9. Part(down', down)
  BY <1>1, <1>4, <1>5, PartFacts
<1>10. AskedOnce'
  <2> DEFINE e == Len(jobs) + 1
  <2>1. SUFFICES ASSUME NEW r \in Reqs
                 PROVE  /\ asked[r] = 0 => /\ \A i \in DOMAIN down' : ~ FirstSent(down'[i], r)
                                           /\ \A j \in DOMAIN jobs' : ~ Forked(jobs'[j], r)
                                           /\ ran[r] = 0
                        /\ \A i, j \in DOMAIN down' : FirstSent(down'[i], r) /\ FirstSent(down'[j], r) => i = j
                        /\ \A i, j \in DOMAIN jobs' : Forked(jobs'[i], r) /\ Forked(jobs'[j], r) => i = j
                        /\ \A i \in DOMAIN down' : FirstSent(down'[i], r) =>
                              ran[r] = 0 /\ \A j \in DOMAIN jobs' : ~ Forked(jobs'[j], r)
                        /\ \A j \in DOMAIN jobs' : Forked(jobs'[j], r) => ran[r] = 0
                        /\ ran[r] <= 1
    BY <1>3 DEF AskedOnce, FirstSent, Forked
  <2>2. /\ asked[r] = 0 => /\ \A i \in DOMAIN down : ~ FirstSent(down[i], r)
                           /\ \A j \in DOMAIN jobs : ~ Forked(jobs[j], r)
                           /\ ran[r] = 0
        /\ \A i, j \in DOMAIN down : FirstSent(down[i], r) /\ FirstSent(down[j], r) => i = j
        /\ \A i, j \in DOMAIN jobs : Forked(jobs[i], r) /\ Forked(jobs[j], r) => i = j
        /\ \A i \in DOMAIN down : FirstSent(down[i], r) =>
              ran[r] = 0 /\ \A j \in DOMAIN jobs : ~ Forked(jobs[j], r)
        /\ \A j \in DOMAIN jobs : Forked(jobs[j], r) => ran[r] = 0
        /\ ran[r] <= 1
    BY DEF SInv, AskedOnce
  <2>3. Forked(job, r) <=> FirstSent(down[1], r)
    BY <1>1 DEF job, Forked, FirstSent
  <2>4. /\ DOMAIN Tail(down) \subseteq Nat \ {0}
        /\ \A i \in DOMAIN Tail(down) : i + 1 \in DOMAIN down /\ Tail(down)[i] = down[i + 1]
    BY <1>1, <1>4, TailFacts
  <2>5. /\ DOMAIN down' \subseteq Nat \ {0}
        /\ \A i \in DOMAIN down' : i + 1 \in DOMAIN down /\ down'[i] = down[i + 1]
    <3>1. DOMAIN <<>> = {}
      OBVIOUS
    <3> QED BY <1>5, <2>4, <3>1
  <2>6. \A i \in DOMAIN down' : FirstSent(down'[i], r) => i + 1 \in DOMAIN down /\ i + 1 # 1 /\ FirstSent(down[i + 1], r)
    BY <2>5
  <2>7. \A i, j \in DOMAIN down' : FirstSent(down'[i], r) /\ FirstSent(down'[j], r) => i = j
    <3>1. ASSUME NEW i \in DOMAIN down', NEW j \in DOMAIN down',
                 FirstSent(down'[i], r), FirstSent(down'[j], r)
          PROVE  i = j
      <4>1. i + 1 = j + 1
        BY <2>2, <2>6, <3>1
      <4>2. i \in Nat /\ j \in Nat
        BY <2>5
      <4> QED BY <4>1, <4>2
    <3> QED BY <3>1
  <2>8. \A i \in DOMAIN down' : FirstSent(down'[i], r) =>
           ran[r] = 0 /\ ~ FirstSent(down[1], r) /\ \A j \in DOMAIN jobs : ~ Forked(jobs[j], r)
    BY <1>1, <2>2, <2>6
  <2> HIDE DEF e
  <2>9. CASE jobs' = jobs
    BY <2>2, <2>6, <2>7, <2>8, <2>9
  <2>10. CASE jobs' = Append(jobs, job)
    <3>1. /\ DOMAIN jobs' = DOMAIN jobs \cup {e} /\ e \notin DOMAIN jobs
          /\ \A i \in DOMAIN jobs : jobs'[i] = jobs[i]
          /\ jobs'[e] = job
      BY <1>7, <2>10 DEF e
    <3>2. FirstSent(down[1], r) => ran[r] = 0 /\ asked[r] # 0 /\ \A j \in DOMAIN jobs : ~ Forked(jobs[j], r)
      BY <1>1, <2>2
    <3>3. \A j \in DOMAIN jobs' : Forked(jobs'[j], r) =>
            (j \in DOMAIN jobs /\ Forked(jobs[j], r)) \/ (j = e /\ FirstSent(down[1], r))
      BY <2>3, <3>1
    <3> QED BY <2>2, <2>6, <2>7, <2>8, <3>2, <3>3
  <2> QED BY <1>3, <2>9, <2>10
<1>11. GrantedMade'
  <2>1. PICK off \in {0, 1} : \A i \in DOMAIN down' : i + off \in DOMAIN down /\ down'[i] = down[i + off]
    BY <1>9 DEF Part
  <2>2. \A i \in DOMAIN down' : down'[i].type = "suback" /\ down'[i].ok => subscribed'
    BY <1>3, <2>1 DEF SInv, GrantedMade
  <2> QED BY <1>1, <1>3, <2>2 DEF SInv, GrantedMade, Listening
<1> QED BY <1>5, <1>8, <1>10, <1>11, TypePartsNext DEF SInv

-----------------------------------------------------------------------------
(* The coroutines.                                                          *)

\* A job leaves.
LEMMA RemovedJob ==
    ASSUME RestOK, NEW i \in DOMAIN jobs
    PROVE  LET q == RemoveAt(jobs, i) IN
           /\ q \in Seq(Job) /\ Len(q) <= Cocurrency
           /\ \A r \in Reqs :
                /\ \A j \in DOMAIN q : Forked(q[j], r) => \E k \in DOMAIN jobs : Forked(jobs[k], r)
                /\ \A j, k \in DOMAIN q : j # k /\ Forked(q[j], r) /\ Forked(q[k], r) =>
                      \E l, m \in DOMAIN jobs : l # m /\ Forked(jobs[l], r) /\ Forked(jobs[m], r)
<1> DEFINE p == RemoveAt(jobs, i)
<1>1. jobs \in Seq(Job) /\ Len(jobs) \in Nat /\ Len(jobs) <= Cocurrency /\ Cocurrency \in Nat
  BY LenProperties, MqttAssumption DEF RestOK
<1>2. /\ p \in Seq(Job) /\ Len(p) = Len(jobs) - 1
      /\ \A j \in DOMAIN p : \E k \in DOMAIN jobs \ {i} : p[j] = jobs[k]
      /\ \A k \in DOMAIN jobs \ {i} : \E j \in DOMAIN p : p[j] = jobs[k]
      /\ \A j, k \in DOMAIN p : j # k =>
            \E l, m \in DOMAIN jobs \ {i} : l # m /\ p[j] = jobs[l] /\ p[k] = jobs[m]
  BY <1>1, RemoveAtFacts
<1>3. p = RemoveAt(jobs, i)
  OBVIOUS
<1> HIDE DEF p
<1>4. Len(p) <= Cocurrency
  BY <1>1, <1>2
<1>5. ASSUME NEW r \in Reqs, NEW j \in DOMAIN p, Forked(p[j], r)
      PROVE  \E k \in DOMAIN jobs : Forked(jobs[k], r)
  <2>1. PICK k \in DOMAIN jobs : p[j] = jobs[k]
    BY <1>2
  <2> QED BY <1>5, <2>1
<1>6. ASSUME NEW r \in Reqs, NEW j \in DOMAIN p, NEW k \in DOMAIN p, j # k,
             Forked(p[j], r), Forked(p[k], r)
      PROVE  \E l, m \in DOMAIN jobs : l # m /\ Forked(jobs[l], r) /\ Forked(jobs[m], r)
  <2>1. PICK l \in DOMAIN jobs, m \in DOMAIN jobs : l # m /\ p[j] = jobs[l] /\ p[k] = jobs[m]
    BY <1>2, <1>6
  <2> QED BY <1>6, <2>1
<1> QED BY <1>2, <1>3, <1>4, <1>5, <1>6

\* What keeps the connections, and starts no request.
LEMMA JobsKeep ==
    ASSUME SInv, NetOK', IdOK', RestOK', Part(down', down),
           UNCHANGED <<conns, sub, subacks, subscribed, asked, ran>>, connected' => connected,
           \A r \in Reqs :
              /\ \A j \in DOMAIN jobs' : Forked(jobs'[j], r) => \E k \in DOMAIN jobs : Forked(jobs[k], r)
              /\ \A i, j \in DOMAIN jobs' : i # j /\ Forked(jobs'[i], r) /\ Forked(jobs'[j], r) =>
                    \E k, l \in DOMAIN jobs : k # l /\ Forked(jobs[k], r) /\ Forked(jobs[l], r)
    PROVE  SInv'
<1>1. AskedOnce'
  <2>1. down' \in Seq(Down) /\ UNCHANGED <<asked, ran>> /\ AskedOnce
    BY DEF NetOK, SInv
  <2> QED BY <2>1, AskedKeeps
<1>2. GrantedMade'
  <2>1. PICK off \in {0, 1} : \A i \in DOMAIN down' : i + off \in DOMAIN down /\ down'[i] = down[i + off]
    BY DEF Part
  <2>2. \A i \in DOMAIN down' : down'[i].type = "suback" /\ down'[i].ok => subscribed'
    BY <2>1 DEF SInv, GrantedMade
  <2> QED BY <2>2 DEF SInv, GrantedMade, Listening
<1> QED BY <1>1, <1>2, TypePartsNext DEF SInv

LEMMA RefuseKeeps ==
    ASSUME SInv, NEW i \in DOMAIN jobs, Refuse(i)
    PROVE  SInv'
<1>1. /\ jobs' = RemoveAt(jobs, i)
      /\ UNCHANGED <<running, loop, conns, connected, alive, up, down, lastId, waitRec, acks, subacks,
                     pub, sub, accepted, subscribed, asked, heard, ran>>
  BY DEF Refuse, netVars, idVars, brokerVars
<1>2. NetOK /\ IdOK /\ RestOK /\ down \in Seq(Down)
  BY SInvFacts
<1> DEFINE q == jobs'
<1>3. q = RemoveAt(jobs, i)
  BY <1>1
<1> HIDE DEF q
<1>4. /\ q \in Seq(Job) /\ Len(q) <= Cocurrency
      /\ \A r \in Reqs :
           /\ \A j \in DOMAIN q : Forked(q[j], r) => \E k \in DOMAIN jobs : Forked(jobs[k], r)
           /\ \A j, k \in DOMAIN q : j # k /\ Forked(q[j], r) /\ Forked(q[k], r) =>
                 \E l, m \in DOMAIN jobs : l # m /\ Forked(jobs[l], r) /\ Forked(jobs[m], r)
  BY <1>2, <1>3, RemovedJob
<1>5. NetOK' /\ IdOK' /\ RestOK'
  BY <1>1, <1>2, <1>4 DEF NetOK, IdOK, RestOK, q
<1>6. Part(down', down)
  BY <1>1, <1>2, PartFacts
<1> QED BY <1>1, <1>4, <1>5, <1>6, JobsKeep DEF q

LEMMA AnswerKeeps ==
    ASSUME SInv, NEW i \in DOMAIN jobs, Answer(i)
    PROVE  SInv'
<1> DEFINE m == ReplyTo[jobs[i].req]
<1>1. /\ Offered(m) /\ jobs' = RemoveAt(jobs, i)
      /\ UNCHANGED <<running, loop, conns, subacks, sub, accepted, subscribed, asked, heard, ran>>
  BY DEF Answer, brokerVars
<1>2. NetOK /\ IdOK /\ RestOK /\ down \in Seq(Down) /\ (connected => conns \in Conn)
  BY SInvFacts
<1>3. m \in Msgs
  <2>1. jobs[i] \in Job
    BY <1>2, ElementOfSeq, LenProperties DEF RestOK
  <2> QED BY <2>1, MqttAssumption DEF Job
<1> HIDE DEF m
<1>4. /\ NetOK' /\ IdOK' /\ pub' \in [Msgs -> {"new", "trying", "done"}] /\ Part(down', down)
      /\ connected' => connected
  <2>1. CASE connected /\ Published(m, down)
    <3>1. pub \in [Msgs -> {"new", "trying", "done"}] /\ UNCHANGED subacks
      BY <1>1, <1>2 DEF RestOK
    <3>2. /\ NetOK' /\ IdOK' /\ pub' \in [Msgs -> {"new", "trying", "done"}] /\ down' \in {down, <<>>}
      BY <1>2, <1>3, <2>1, <3>1, PublishedTypes
    <3> QED BY <1>2, <2>1, <3>2, PartFacts
  <2>2. CASE pub' = [pub EXCEPT ![m] = "trying"] /\ UNCHANGED <<netVars, lastId, waitRec, acks>>
    <3>1. UNCHANGED <<connected, alive, up, down, lastId, waitRec, acks, subacks>>
      BY <1>1, <2>2 DEF netVars
    <3>2. NetOK' /\ IdOK' /\ pub' \in [Msgs -> {"new", "trying", "done"}]
      BY <1>2, <2>2, <3>1 DEF NetOK, IdOK, RestOK
    <3> QED BY <1>2, <3>1, <3>2, PartFacts
  <2> QED BY <1>1, <1>3, <2>1, <2>2, OfferedSplit
<1> DEFINE q == jobs'
<1>5. q = RemoveAt(jobs, i)
  BY <1>1
<1> HIDE DEF q
<1>6. /\ q \in Seq(Job) /\ Len(q) <= Cocurrency
      /\ \A r \in Reqs :
           /\ \A j \in DOMAIN q : Forked(q[j], r) => \E k \in DOMAIN jobs : Forked(jobs[k], r)
           /\ \A j, k \in DOMAIN q : j # k /\ Forked(q[j], r) /\ Forked(q[k], r) =>
                 \E l, n \in DOMAIN jobs : l # n /\ Forked(jobs[l], r) /\ Forked(jobs[n], r)
  BY <1>2, <1>5, RemovedJob
<1>7. RestOK'
  BY <1>1, <1>2, <1>4, <1>6 DEF RestOK, q
<1> QED BY <1>1, <1>4, <1>6, <1>7, JobsKeep DEF q

LEMMA RaiseKeeps ==
    ASSUME SInv, NEW i \in DOMAIN jobs, Raise(i)
    PROVE  SInv'
<1> DEFINE job == [jobs[i] EXCEPT !.at = "dead"]
<1>1. /\ jobs' = [jobs EXCEPT ![i] = job]
      /\ UNCHANGED <<running, loop, conns, connected, alive, up, down, lastId, waitRec, acks, subacks,
                     pub, sub, accepted, subscribed, asked, heard, ran>>
  BY DEF Raise, netVars, idVars, brokerVars
<1>2. NetOK /\ IdOK /\ RestOK /\ down \in Seq(Down)
  BY SInvFacts
<1>3. jobs \in Seq(Job) /\ DOMAIN jobs = 1 .. Len(jobs) /\ jobs[i] \in Job
  BY <1>2, ElementOfSeq, LenProperties DEF RestOK
<1>4. job \in Job /\ job.at = "dead"
  BY <1>3 DEF Job
<1> HIDE DEF job
<1>5. /\ jobs' \in Seq(Job) /\ Len(jobs') = Len(jobs) /\ DOMAIN jobs' = DOMAIN jobs
      /\ \A j \in DOMAIN jobs : jobs'[j] = IF j = i THEN job ELSE jobs[j]
  <2>1. [jobs EXCEPT ![i] = job] \in Seq(Job) /\ Len([jobs EXCEPT ![i] = job]) = Len(jobs)
    BY <1>3, <1>4, ExceptSeq
  <2>2. DOMAIN [jobs EXCEPT ![i] = job] = DOMAIN jobs
    OBVIOUS
  <2>3. \A j \in DOMAIN jobs : [jobs EXCEPT ![i] = job][j] = IF j = i THEN job ELSE jobs[j]
    OBVIOUS
  <2> QED BY <1>1, <2>1, <2>2, <2>3
<1>6. NetOK' /\ IdOK' /\ RestOK'
  BY <1>1, <1>2, <1>5 DEF NetOK, IdOK, RestOK
<1>7. \A r \in Reqs, j \in DOMAIN jobs' : Forked(jobs'[j], r) => j \in DOMAIN jobs /\ Forked(jobs[j], r)
  BY <1>4, <1>5 DEF Forked
<1>8. Part(down', down)
  BY <1>1, <1>2, PartFacts
<1> QED BY <1>1, <1>6, <1>7, <1>8, JobsKeep

LEMMA RunKeeps ==
    ASSUME SInv, NEW i \in DOMAIN jobs, Run(i)
    PROVE  SInv'
<1> DEFINE job == [jobs[i] EXCEPT !.at = "calling"]
           r == jobs[i].req
<1>1. /\ jobs' = [jobs EXCEPT ![i] = job] /\ Forked(jobs[i], r)
      /\ ran' = [ran EXCEPT ![r] = IF @ < 2 THEN @ + 1 ELSE @]
      /\ UNCHANGED <<running, loop, conns, connected, alive, up, down, lastId, waitRec, acks, subacks,
                     pub, sub, accepted, subscribed, asked, heard>>
  BY DEF Run, ToRun, Forked, netVars, idVars, brokerVars
<1>2. NetOK /\ IdOK /\ RestOK /\ down \in Seq(Down)
  BY SInvFacts
<1>3. jobs \in Seq(Job) /\ DOMAIN jobs = 1 .. Len(jobs) /\ jobs[i] \in Job
  BY <1>2, ElementOfSeq, LenProperties DEF RestOK
<1>4. job \in Job /\ job.at = "calling" /\ r \in Reqs
  BY <1>3 DEF Job
<1> HIDE DEF job, r
<1>5. /\ jobs' \in Seq(Job) /\ Len(jobs') = Len(jobs) /\ DOMAIN jobs' = DOMAIN jobs
      /\ \A j \in DOMAIN jobs : jobs'[j] = IF j = i THEN job ELSE jobs[j]
  <2>1. [jobs EXCEPT ![i] = job] \in Seq(Job) /\ Len([jobs EXCEPT ![i] = job]) = Len(jobs)
    BY <1>3, <1>4, ExceptSeq
  <2>2. DOMAIN [jobs EXCEPT ![i] = job] = DOMAIN jobs
    OBVIOUS
  <2>3. \A j \in DOMAIN jobs : [jobs EXCEPT ![i] = job][j] = IF j = i THEN job ELSE jobs[j]
    OBVIOUS
  <2> QED BY <1>1, <2>1, <2>2, <2>3
<1>6. \A s \in Reqs :
        /\ asked[s] = 0 => /\ \A j \in DOMAIN down : ~ FirstSent(down[j], s)
                           /\ \A j \in DOMAIN jobs : ~ Forked(jobs[j], s)
                           /\ ran[s] = 0
        /\ \A j, k \in DOMAIN down : FirstSent(down[j], s) /\ FirstSent(down[k], s) => j = k
        /\ \A j, k \in DOMAIN jobs : Forked(jobs[j], s) /\ Forked(jobs[k], s) => j = k
        /\ \A j \in DOMAIN down : FirstSent(down[j], s) =>
              ran[s] = 0 /\ \A k \in DOMAIN jobs : ~ Forked(jobs[k], s)
        /\ \A j \in DOMAIN jobs : Forked(jobs[j], s) => ran[s] = 0
        /\ ran[s] <= 1
  BY DEF SInv, AskedOnce
<1>7. /\ ran' \in [Reqs -> 0 .. 2] /\ ran'[r] = 1 /\ \A s \in Reqs \ {r} : ran'[s] = ran[s]
  <2>1. ran[r] = 0 /\ ran \in [Reqs -> 0 .. 2]
    BY <1>1, <1>2, <1>4, <1>6 DEF RestOK
  <2> QED BY <1>1, <1>4, <2>1
<1>8. NetOK' /\ IdOK' /\ RestOK'
  BY <1>1, <1>2, <1>5, <1>7 DEF NetOK, IdOK, RestOK
<1>9. \A s \in Reqs, j \in DOMAIN jobs' : Forked(jobs'[j], s) => j \in DOMAIN jobs /\ Forked(jobs[j], s) /\ j # i
  BY <1>4, <1>5 DEF Forked
<1>10. AskedOnce'
  <2>1. SUFFICES ASSUME NEW s \in Reqs
                 PROVE  /\ asked[s] = 0 => /\ \A j \in DOMAIN down : ~ FirstSent(down[j], s)
                                           /\ \A j \in DOMAIN jobs' : ~ Forked(jobs'[j], s)
                                           /\ ran'[s] = 0
                        /\ \A j, k \in DOMAIN down : FirstSent(down[j], s) /\ FirstSent(down[k], s) => j = k
                        /\ \A j, k \in DOMAIN jobs' : Forked(jobs'[j], s) /\ Forked(jobs'[k], s) => j = k
                        /\ \A j \in DOMAIN down : FirstSent(down[j], s) =>
                              ran'[s] = 0 /\ \A k \in DOMAIN jobs' : ~ Forked(jobs'[k], s)
                        /\ \A j \in DOMAIN jobs' : Forked(jobs'[j], s) => ran'[s] = 0
                        /\ ran'[s] <= 1
    BY <1>1 DEF AskedOnce, FirstSent, Forked
  <2>2. CASE s = r
    <3>1. \A j \in DOMAIN jobs' : ~ Forked(jobs'[j], r)
      BY <1>1, <1>4, <1>6, <1>9
    <3>2. \A j \in DOMAIN down : ~ FirstSent(down[j], r)
      BY <1>1, <1>4, <1>6
    <3>3. asked[r] # 0
      BY <1>1, <1>4, <1>6
    <3> QED BY <1>7, <2>2, <3>1, <3>2, <3>3
  <2>3. CASE s # r
    BY <1>6, <1>7, <1>9, <2>3
  <2> QED BY <2>2, <2>3
<1>11. GrantedMade'
  BY <1>1 DEF SInv, GrantedMade, Listening
<1> QED BY <1>8, <1>10, <1>11, TypePartsNext DEF SInv

-----------------------------------------------------------------------------
(* The broker and the network.                                              *)

\* What wants an acknowledgement gets one, of its kind and with its id.
LEMMA AnsweredFacts ==
    ASSUME NEW p \in Up, NEW d \in Seq(Down), NEW ok \in BOOLEAN
    PROVE  \/ ~ Wants(p) /\ d \o Answered(p, ok) = d
           \/ /\ Wants(p)
              /\ \E e \in Down :
                    /\ d \o Answered(p, ok) = Append(d, e)
                    /\ e.id = p.id /\ e.type \in {"puback", "pubrec", "suback"}
                    /\ p.type = "subscribe" => e.type = "suback" /\ e.ok = ok
                    /\ p.type = "publish" => e.type = IF Qos[p.msg] = 2 THEN "pubrec" ELSE "puback"
<1>1. CASE p.type = "publish" /\ p.id # 0
  <2> DEFINE e == [type |-> IF Qos[p.msg] = 2 THEN "pubrec" ELSE "puback", id |-> p.id]
  <2>1. e \in Down /\ e.id = p.id /\ e.type = IF Qos[p.msg] = 2 THEN "pubrec" ELSE "puback"
    <3>1. p.id \in Id
      BY <1>1, UpFacts
    <3> QED BY <3>1 DEF Down
  <2>2. Answered(p, ok) = <<e>>
    BY <1>1 DEF Answered
  <2> HIDE DEF e
  <2>3. d \o <<e>> = Append(d, e)
    BY <2>1
  <2> QED BY <1>1, <2>1, <2>2, <2>3 DEF Wants
<1>2. CASE p.type = "subscribe"
  <2> DEFINE e == [type |-> "suback", id |-> p.id, ok |-> ok]
  <2>1. e \in Down /\ e.id = p.id /\ e.type = "suback" /\ e.ok = ok
    <3>1. p.id \in Id
      BY <1>2, UpFacts
    <3> QED BY <3>1 DEF Down
  <2>2. Answered(p, ok) = <<e>>
    BY <1>2 DEF Answered
  <2> HIDE DEF e
  <2>3. d \o <<e>> = Append(d, e)
    BY <2>1
  <2> QED BY <1>2, <2>1, <2>2, <2>3 DEF Wants
<1>3. CASE ~ (p.type = "publish" /\ p.id # 0) /\ p.type # "subscribe"
  <2>1. Answered(p, ok) = <<>>
    BY <1>3 DEF Answered
  <2> QED BY <1>3, <2>1 DEF Wants
<1> QED BY <1>1, <1>2, <1>3

\* What comes in, other than a request, disturbs no request.
LEMMA GrownKeeps ==
    ASSUME AskedOnce, UNCHANGED <<asked, ran, jobs>>, NEW e \in Down, down \in Seq(Down),
           down' = Append(down, e), e.type # "publish"
    PROVE  AskedOnce'
<1>1. /\ DOMAIN down' = DOMAIN down \cup {Len(down) + 1}
      /\ \A i \in DOMAIN down : down'[i] = down[i]
      /\ down'[Len(down) + 1] = e
  BY AppendFacts
<1>2. \A r \in Reqs, i \in DOMAIN down' : FirstSent(down'[i], r) => i \in DOMAIN down /\ FirstSent(down[i], r)
  BY <1>1 DEF FirstSent
<1>3. SUFFICES ASSUME NEW r \in Reqs
               PROVE  /\ asked[r] = 0 => /\ \A i \in DOMAIN down' : ~ FirstSent(down'[i], r)
                                         /\ \A j \in DOMAIN jobs : ~ Forked(jobs[j], r)
                                         /\ ran[r] = 0
                      /\ \A i, j \in DOMAIN down' : FirstSent(down'[i], r) /\ FirstSent(down'[j], r) => i = j
                      /\ \A i, j \in DOMAIN jobs : Forked(jobs[i], r) /\ Forked(jobs[j], r) => i = j
                      /\ \A i \in DOMAIN down' : FirstSent(down'[i], r) =>
                            ran[r] = 0 /\ \A j \in DOMAIN jobs : ~ Forked(jobs[j], r)
                      /\ \A j \in DOMAIN jobs : Forked(jobs[j], r) => ran[r] = 0
                      /\ ran[r] <= 1
  BY DEF AskedOnce, FirstSent, Forked
<1> QED BY <1>2 DEF AskedOnce

LEMMA BrokerReadsKeeps ==
    ASSUME SInv, BrokerReads
    PROVE  SInv'
<1>1. /\ alive /\ up # <<>> /\ up' = Tail(up)
      /\ accepted' = IF Head(up).type = "publish" THEN accepted \cup {Head(up).msg} ELSE accepted
      /\ heard' = IF Head(up).type = "puback" THEN heard \cup {Head(up).req} ELSE heard
      /\ UNCHANGED <<running, loop, connected, alive, conns, lastId, waitRec, acks, subacks, pub, sub, jobs,
                     asked, ran>>
  BY DEF BrokerReads, idVars
<1>2. PICK ok \in BOOLEAN : /\ down' = down \o Answered(Head(up), ok)
                            /\ subscribed' = (subscribed \/ (ok /\ Head(up).type = "subscribe"))
  BY DEF BrokerReads
<1>3. NetOK /\ IdOK /\ RestOK /\ down \in Seq(Down) /\ up \in Seq(Up)
  BY SInvFacts DEF NetOK
<1>4. Head(up) \in Up /\ Tail(up) \in Seq(Up)
  BY <1>1, <1>3, TailFacts
<1>5. IdOK' /\ RestOK'
  <2>1. /\ Head(up).type = "publish" => Head(up).msg \in Msgs
        /\ Head(up).type = "puback" => Head(up).req \in Reqs
    BY <1>4, UpFacts
  <2>2. accepted' \subseteq Msgs /\ heard' \subseteq Reqs /\ subscribed' \in BOOLEAN
    <3>1. accepted' \subseteq Msgs
      BY <1>1, <1>3, <2>1 DEF RestOK
    <3>2. heard' \subseteq Reqs
      BY <1>1, <1>3, <2>1 DEF RestOK
    <3>3. subscribed' \in BOOLEAN
      BY <1>2, <1>3 DEF RestOK
    <3> QED BY <3>1, <3>2, <3>3
  <2> QED BY <1>1, <1>3, <2>2 DEF IdOK, RestOK
<1>6. CASE down' = down
  <2>1. NetOK'
    BY <1>1, <1>3, <1>4, <1>6 DEF NetOK
  <2>2. AskedOnce'
    <3>1. Part(down', down) /\ down' \in Seq(Down)
      BY <1>3, <1>6, PartFacts
    <3>2. UNCHANGED <<asked, ran, jobs>> /\ AskedOnce
      BY <1>1 DEF SInv
    <3> QED BY <3>1, <3>2, AskedKeeps
  <2>3. GrantedMade'
    BY <1>1, <1>2, <1>6 DEF SInv, GrantedMade, Listening
  <2> QED BY <1>5, <2>1, <2>2, <2>3, TypePartsNext DEF SInv
<1>7. ASSUME NEW e \in Down, down' = Append(down, e), e.id = Head(up).id, e.type \in {"puback", "pubrec", "suback"},
             Head(up).type = "subscribe" => e.type = "suback" /\ e.ok = ok,
             Head(up).type = "publish" => e.type = IF Qos[Head(up).msg] = 2 THEN "pubrec" ELSE "puback",
             Wants(Head(up))
      PROVE  SInv'
  <2>1. /\ down' \in Seq(Down) /\ DOMAIN down' = DOMAIN down \cup {Len(down) + 1}
        /\ \A i \in DOMAIN down : down'[i] = down[i]
        /\ down'[Len(down) + 1] = e
    BY <1>3, <1>7, AppendFacts
  <2>2. NetOK'
    BY <1>1, <1>3, <1>4, <2>1 DEF NetOK
  <2>3. AskedOnce'
    <3>1. UNCHANGED <<asked, ran, jobs>> /\ AskedOnce
      BY <1>1 DEF SInv
    <3> QED BY <1>3, <1>7, <3>1, GrownKeeps
  <2>4. GrantedMade'
    <3>1. \A i \in DOMAIN down' : down'[i].type = "suback" /\ down'[i].ok => subscribed'
      <4>1. e.type = "suback" /\ e.ok => subscribed'
        BY <1>2, <1>7 DEF Wants
      <4>2. \A i \in DOMAIN down : down[i].type = "suback" /\ down[i].ok => subscribed
        BY DEF SInv, GrantedMade
      <4> QED BY <1>2, <2>1, <4>1, <4>2
    <3> QED BY <1>1, <1>2, <3>1 DEF SInv, GrantedMade, Listening
  <2> QED BY <1>5, <2>2, <2>3, <2>4, TypePartsNext DEF SInv
<1> QED BY <1>2, <1>3, <1>4, <1>6, <1>7, AnsweredFacts

LEMMA BreakKeeps ==
    ASSUME SInv, Break
    PROVE  SInv'
<1>1. /\ alive /\ alive' = FALSE /\ up' = <<>>
      /\ UNCHANGED <<running, loop, connected, conns, lastId, waitRec, acks, subacks, pub, sub, jobs,
                     accepted, subscribed, asked, heard, ran>>
  BY DEF Break, idVars, brokerVars
<1>2. PICK n \in 0 .. Len(down) : down' = SubSeq(down, 1, n)
  BY DEF Break
<1>3. NetOK /\ IdOK /\ RestOK /\ down \in Seq(Down)
  BY SInvFacts
<1>4. down' \in Seq(Down) /\ Part(down', down)
  BY <1>2, <1>3, PrefixFacts, PartFacts
<1>5. NetOK' /\ IdOK' /\ RestOK'
  BY <1>1, <1>3, <1>4, EmptySeq DEF NetOK, IdOK, RestOK
<1>6. \A c \in Conn : sub'[c] # "off" => c <= conns
  BY <1>1, SInvFacts
<1>7. \A h \in subacks' : h.loop <= conns
  BY <1>1, SInvFacts
<1> QED BY <1>1, <1>4, <1>5, <1>6, <1>7, QuietKeeps

LEMMA AskKeeps ==
    ASSUME SInv, NEW r \in Reqs, Ask(r)
    PROVE  SInv'
<1> DEFINE e == [type |-> "publish", req |-> r, dup |-> asked[r] # 0]
<1>1. /\ alive /\ asked[r] < conns /\ down' = Append(down, e)
      /\ asked' = [asked EXCEPT ![r] = conns]
      /\ UNCHANGED <<running, loop, connected, alive, up, conns, lastId, waitRec, acks, subacks, pub, sub, jobs,
                     accepted, subscribed, heard, ran>>
  BY DEF Ask, idVars
<1>2. NetOK /\ IdOK /\ RestOK /\ down \in Seq(Down)
  BY SInvFacts
<1>3. conns \in Conn
  BY <1>1, <1>2, SInvFacts DEF NetOK
<1>4. e \in Down /\ e.type = "publish" /\ e.req = r /\ (e.dup <=> asked[r] # 0)
  BY DEF Down
<1> HIDE DEF e
<1>5. /\ down' \in Seq(Down) /\ DOMAIN down' = DOMAIN down \cup {Len(down) + 1} /\ Len(down) + 1 \notin DOMAIN down
      /\ \A i \in DOMAIN down : down'[i] = down[i]
      /\ down'[Len(down) + 1] = e
  BY <1>1, <1>2, <1>4, AppendFacts
<1>6. /\ asked \in [Reqs -> 0 .. MaxConn] /\ asked' \in [Reqs -> 0 .. MaxConn]
      /\ asked'[r] # 0 /\ \A s \in Reqs \ {r} : asked'[s] = asked[s]
  <2>1. asked \in [Reqs -> 0 .. MaxConn] /\ conns \in 0 .. MaxConn /\ conns # 0
    BY <1>2, <1>3, MqttAssumption DEF RestOK, Conn
  <2> QED BY <1>1, <2>1
<1>7. NetOK' /\ IdOK' /\ RestOK'
  <2>1. NetOK'
    BY <1>1, <1>2, <1>5 DEF NetOK
  <2>2. IdOK'
    BY <1>1, <1>2 DEF IdOK
  <2>3. RestOK'
    BY <1>1, <1>2, <1>6 DEF RestOK
  <2> QED BY <2>1, <2>2, <2>3
<1>8. GrantedMade'
  <2>1. \A i \in DOMAIN down' : down'[i].type = "suback" /\ down'[i].ok => subscribed
    BY <1>4, <1>5 DEF SInv, GrantedMade
  <2> QED BY <1>1, <2>1 DEF SInv, GrantedMade, Listening
<1>9. AskedOnce'
  <2>1. SUFFICES ASSUME NEW s \in Reqs
                 PROVE  /\ asked'[s] = 0 => /\ \A i \in DOMAIN down' : ~ FirstSent(down'[i], s)
                                            /\ \A j \in DOMAIN jobs : ~ Forked(jobs[j], s)
                                            /\ ran[s] = 0
                        /\ \A i, j \in DOMAIN down' : FirstSent(down'[i], s) /\ FirstSent(down'[j], s) => i = j
                        /\ \A i, j \in DOMAIN jobs : Forked(jobs[i], s) /\ Forked(jobs[j], s) => i = j
                        /\ \A i \in DOMAIN down' : FirstSent(down'[i], s) =>
                              ran[s] = 0 /\ \A j \in DOMAIN jobs : ~ Forked(jobs[j], s)
                        /\ \A j \in DOMAIN jobs : Forked(jobs[j], s) => ran[s] = 0
                        /\ ran[s] <= 1
    BY <1>1 DEF AskedOnce, FirstSent, Forked
  <2>2. /\ asked[s] = 0 => /\ \A i \in DOMAIN down : ~ FirstSent(down[i], s)
                           /\ \A j \in DOMAIN jobs : ~ Forked(jobs[j], s)
                           /\ ran[s] = 0
        /\ \A i, j \in DOMAIN down : FirstSent(down[i], s) /\ FirstSent(down[j], s) => i = j
        /\ \A i, j \in DOMAIN jobs : Forked(jobs[i], s) /\ Forked(jobs[j], s) => i = j
        /\ \A i \in DOMAIN down : FirstSent(down[i], s) =>
              ran[s] = 0 /\ \A j \in DOMAIN jobs : ~ Forked(jobs[j], s)
        /\ \A j \in DOMAIN jobs : Forked(jobs[j], s) => ran[s] = 0
        /\ ran[s] <= 1
    BY DEF SInv, AskedOnce
  <2>3. \A i \in DOMAIN down' : FirstSent(down'[i], s) =>
           (i \in DOMAIN down /\ FirstSent(down[i], s)) \/ (i = Len(down) + 1 /\ s = r /\ asked[r] = 0)
    BY <1>4, <1>5 DEF FirstSent
  <2>4. CASE s = r
    BY <1>6, <2>2, <2>3, <2>4
  <2>5. CASE s # r
    BY <1>6, <2>2, <2>3, <2>5
  <2> QED BY <2>4, <2>5
<1> QED BY <1>7, <1>8, <1>9, TypePartsNext DEF SInv

-----------------------------------------------------------------------------
(* The first invariant.                                                     *)

LEMMA InitSInv == Init => SInv
<1> SUFFICES ASSUME Init PROVE SInv
  OBVIOUS
<1>1. NetOK
  BY EmptySeq DEF Init, NetOK
<1>2. IdOK
  BY MqttAssumption DEF Init, IdOK
<1>3. RestOK
  <2>1. jobs \in Seq(Job) /\ Len(jobs) <= Cocurrency
    BY EmptySeq, MqttAssumption DEF Init
  <2>2. conns \in 0 .. MaxConn /\ asked \in [Reqs -> 0 .. MaxConn] /\ ran \in [Reqs -> 0 .. 2]
    BY MqttAssumption DEF Init
  <2>3. pub \in [Msgs -> {"new", "trying", "done"}] /\ sub \in [Conn -> {"off", "trying", "done"}]
    BY DEF Init
  <2> QED BY <2>1, <2>2, <2>3 DEF Init, RestOK
<1>4. GrantedMade
  BY DEF Init, GrantedMade, Listening
<1>5. AskedOnce
  BY DEF Init, AskedOnce
<1> QED BY <1>1, <1>2, <1>3, <1>4, <1>5, TypeParts DEF SInv

LEMMA StepSInv == SInv /\ [Next]_vars => SInv'
<1> SUFFICES ASSUME SInv, [Next]_vars PROVE SInv'
  OBVIOUS
<1>1. CASE Decide \/ ConnectFails \/ Registered \/ Stop \/ GetClosed
  BY <1>1, LoopKeeps
<1>2. CASE Connected
  BY <1>2, ConnectedKeeps
<1>3. CASE GetConnack
  BY <1>3, GetConnackKeeps
<1>4. CASE GetPuback
  BY <1>4, GetPubackKeeps
<1>5. CASE GetPubrec
  BY <1>5, GetPubrecKeeps
<1>6. CASE GetSuback
  BY <1>6, GetSubackKeeps
<1>7. CASE GetRequest
  BY <1>7, GetRequestKeeps
<1>8. CASE \E m \in Msgs : Offer(m) \/ Republish(m)
  BY <1>8, OfferKeeps
<1>9. CASE \E c \in Conn : Resubscribe(c)
  BY <1>9, ResubscribeKeeps
<1>10. CASE \E i \in DOMAIN jobs : Run(i) \/ Refuse(i) \/ Answer(i) \/ Raise(i)
  BY <1>10, RunKeeps, RefuseKeeps, AnswerKeeps, RaiseKeeps
<1>11. CASE BrokerReads
  BY <1>11, BrokerReadsKeeps
<1>12. CASE Break
  BY <1>12, BreakKeeps
<1>13. CASE \E r \in Reqs : Ask(r)
  BY <1>13, AskKeeps
<1>14. CASE UNCHANGED vars
  BY <1>14 DEF vars, netVars, idVars, brokerVars, SInv, TypeOK, GrantedMade, Listening, AskedOnce, FirstSent, Forked
<1> QED BY <1>1, <1>2, <1>3, <1>4, <1>5, <1>6, <1>7, <1>8, <1>9, <1>10, <1>11, <1>12, <1>13, <1>14
        DEF Next, ClientReads

(* A subscription counts as made only if the broker has it, over all the    *)
(* connections and whatever handlers of former ones are about: a SUBACK that *)
(* grants one is sent only by a broker that has made it, and both are gone  *)
(* with the connection.                                                     *)
THEOREM SessionKept == Spec => []SessionInv
<1>1. SInv => SessionInv
  BY DEF SInv, GrantedMade, SessionInv
<1> QED BY <1>1, InitSInv, StepSInv, PTL DEF Spec

(* A request is carried out once, however often the broker sends it: only   *)
(* its first sending goes without the mark dup, and that one is under way,  *)
(* waits in one coroutine, or was carried out.                              *)
THEOREM RanOnce == Spec => []RunOnce
<1>1. SInv => RunOnce
  BY DEF SInv, AskedOnce, RunOnce
<1> QED BY <1>1, InitSInv, StepSInv, PTL DEF Spec

-----------------------------------------------------------------------------
(* Ages of packet ids.                                                      *)

LEMMA AgeFacts ==
    ASSUME NEW l \in 0 .. IdSpace
    PROVE  /\ \A id \in Id : Age(l, id) \in 0 .. IdSpace - 1
           /\ \A i, j \in Id : Age(l, i) = Age(l, j) => i = j
           /\ \A k \in 0 .. IdSpace - 1 : \E id \in Id : Age(l, id) = k
           /\ NextId(l) \in Id /\ Age(NextId(l), NextId(l)) = 0 /\ Age(l, NextId(l)) = IdSpace - 1
           /\ \A id \in Id : id # NextId(l) => Age(NextId(l), id) = Age(l, id) + 1
<1>1. IdSpace \in Nat /\ IdSpace > 0
  BY MqttAssumption
<1>2. ASSUME NEW k \in 0 .. IdSpace - 1 PROVE \E id \in Id : Age(l, id) = k
  <2>1. CASE k < l
    <3>1. l - k \in Id /\ Age(l, l - k) = k
      BY <1>1, <2>1 DEF Id, Age
    <3> QED BY <3>1
  <2>2. CASE k >= l
    <3>1. l + IdSpace - k \in Id /\ Age(l, l + IdSpace - k) = k
      BY <1>1, <2>2 DEF Id, Age
    <3> QED BY <3>1
  <2> QED BY <1>1, <2>1, <2>2
<1>3. \A id \in Id : Age(l, id) \in 0 .. IdSpace - 1
  BY <1>1 DEF Id, Age
<1>4. \A i, j \in Id : Age(l, i) = Age(l, j) => i = j
  BY <1>1 DEF Id, Age
<1>5. NextId(l) \in Id /\ Age(NextId(l), NextId(l)) = 0 /\ Age(l, NextId(l)) = IdSpace - 1
  BY <1>1 DEF Id, Age, NextId
<1>6. \A id \in Id : id # NextId(l) => Age(NextId(l), id) = Age(l, id) + 1
  BY <1>1 DEF Id, Age, NextId
<1> QED BY <1>2, <1>3, <1>4, <1>5, <1>6

\* The n latest ids are n.
LEMMA LatestFacts ==
    ASSUME NEW l \in 0 .. IdSpace
    PROVE  \A n \in 0 .. IdSpace : IsFiniteSet(Latest(l, n)) /\ Cardinality(Latest(l, n)) = n
<1>1. IdSpace \in Nat
  BY MqttAssumption
<1> SUFFICES ASSUME NEW n \in 0 .. IdSpace
             PROVE  IsFiniteSet(Latest(l, n)) /\ Cardinality(Latest(l, n)) = n
  OBVIOUS
<1> DEFINE f == [k \in 1 .. n |-> CHOOSE id \in Id : Age(l, id) = k - 1]
<1>2. \A k \in 1 .. n : f[k] \in Id /\ Age(l, f[k]) = k - 1
  <2>1. SUFFICES ASSUME NEW k \in 1 .. n PROVE f[k] \in Id /\ Age(l, f[k]) = k - 1
    OBVIOUS
  <2>2. k - 1 \in 0 .. IdSpace - 1
    BY <1>1
  <2>3. \E id \in Id : Age(l, id) = k - 1
    BY <2>2, AgeFacts
  <2> QED BY <2>3
<1> HIDE DEF f
<1>3. f \in Bijection(1 .. n, Latest(l, n))
  <2>1. f \in [1 .. n -> Latest(l, n)]
    <3>1. f = [k \in 1 .. n |-> f[k]]
      BY DEF f
    <3>2. \A k \in 1 .. n : f[k] \in Latest(l, n)
      BY <1>1, <1>2 DEF Latest
    <3> QED BY <3>1, <3>2
  <2>2. \A j, k \in 1 .. n : f[j] = f[k] => j = k
    <3>1. SUFFICES ASSUME NEW j \in 1 .. n, NEW k \in 1 .. n, f[j] = f[k] PROVE j = k
      OBVIOUS
    <3>2. j - 1 = k - 1
      BY <1>2, <3>1
    <3> QED BY <1>1, <3>2
  <2>3. \A id \in Latest(l, n) : \E k \in 1 .. n : f[k] = id
    <3>1. SUFFICES ASSUME NEW id \in Latest(l, n) PROVE \E k \in 1 .. n : f[k] = id
      OBVIOUS
    <3> DEFINE k == Age(l, id) + 1
    <3>2. id \in Id /\ Age(l, id) \in 0 .. IdSpace - 1 /\ Age(l, id) < n
      BY AgeFacts DEF Latest
    <3>3. k \in 1 .. n /\ k - 1 = Age(l, id)
      BY <1>1, <3>2
    <3> HIDE DEF k
    <3>4. Age(l, f[k]) = Age(l, id) /\ f[k] \in Id
      BY <1>2, <3>3
    <3> QED BY <3>2, <3>3, <3>4, AgeFacts
  <2>4. f \in Injection(1 .. n, Latest(l, n))
    BY <2>1, <2>2 DEF Injection, IsInjective
  <2>5. f \in Surjection(1 .. n, Latest(l, n))
    BY <2>1, <2>3 DEF Surjection
  <2> QED BY <2>4, <2>5 DEF Bijection
<1>4. ExistsBijection(1 .. n, Latest(l, n))
  BY <1>3 DEF ExistsBijection
<1>5. n \in Nat
  BY <1>1
<1> QED BY <1>4, <1>5, FS_CountingElements, FS_NatBijection

\* With room, the ids waited for are fewer than Window.
LEMMA RoomFacts ==
    ASSUME Handlers, Room, lastId \in 0 .. IdSpace,
           NEW n \in 0 .. Window + 1, Ids(Ha) \cup Ids(Hs) = Latest(lastId, n)
    PROVE  n < Window
<1>1. Window \in Nat /\ IdSpace \in Nat /\ n \in 0 .. IdSpace /\ n \in Nat
  BY MqttAssumption
<1>2. Ha \subseteq acks /\ Hs \subseteq subacks /\ IsFiniteSet(Ha) /\ IsFiniteSet(Hs)
  <2>1. Ha \subseteq acks /\ Hs \subseteq subacks
    BY DEF Ha, Hs
  <2> QED BY <2>1, FS_Subset DEF Handlers
<1>3. Cardinality(Ha) + Cardinality(Hs) < Window /\ Cardinality(Ha) \in Nat /\ Cardinality(Hs) \in Nat
  BY <1>2, FS_CardinalityType DEF Room, Ha, Hs
<1>4. ASSUME NEW H, IsFiniteSet(H)
      PROVE  IsFiniteSet(Ids(H)) /\ Cardinality(Ids(H)) <= Cardinality(H)
  <2> DEFINE f == [h \in H |-> h.id]
  <2>1. f \in Surjection(H, Ids(H))
    BY DEF Surjection, Ids
  <2> QED BY <1>4, <2>1, FS_Surjection
<1>5. /\ IsFiniteSet(Ids(Ha)) /\ Cardinality(Ids(Ha)) <= Cardinality(Ha) /\ Cardinality(Ids(Ha)) \in Nat
      /\ IsFiniteSet(Ids(Hs)) /\ Cardinality(Ids(Hs)) <= Cardinality(Hs) /\ Cardinality(Ids(Hs)) \in Nat
  BY <1>2, <1>4, FS_CardinalityType
<1>6. Cardinality(Ids(Ha) \cup Ids(Hs)) <= Cardinality(Ids(Ha)) + Cardinality(Ids(Hs))
  <2>1. Cardinality(Ids(Ha) \cap Ids(Hs)) \in Nat
    <3>1. Ids(Ha) \cap Ids(Hs) \subseteq Ids(Ha)
      OBVIOUS
    <3> QED BY <1>5, <3>1, FS_Subset, FS_CardinalityType
  <2>2. Cardinality(Ids(Ha) \cup Ids(Hs)) =
           Cardinality(Ids(Ha)) + Cardinality(Ids(Hs)) - Cardinality(Ids(Ha) \cap Ids(Hs))
    BY <1>5, FS_Union
  <2> QED BY <1>5, <2>1, <2>2
<1>7. Cardinality(Ids(Ha) \cup Ids(Hs)) = n
  BY <1>1, LatestFacts
<1> QED BY <1>1, <1>3, <1>5, <1>6, <1>7

-----------------------------------------------------------------------------
(* Packets under way, in order.                                             *)

\* A packet that wants an acknowledgement takes the next id.
LEMMA GivenOut ==
    ASSUME NEW u \in Seq(Up), NEW d, NEW l \in 0 .. IdSpace, NEW al, NEW n \in 0 .. Window,
           InOrderOf(u, d, l, Latest(l, n), al),
           NEW p \in Up, Wants(p), p.id = NextId(l)
    PROVE  /\ NextId(l) \in Id /\ NextId(l) \notin Latest(l, n)
           /\ Latest(l, n) \cup {NextId(l)} = Latest(NextId(l), n + 1)
           /\ InOrderOf(IF al THEN Append(u, p) ELSE u, d, NextId(l), Latest(NextId(l), n + 1), al)
<1> DEFINE k == NextId(l)
           P == Latest(l, n)
           Q == Latest(k, n + 1)
           v == IF al THEN Append(u, p) ELSE u
<1>1. Window \in Nat /\ IdSpace \in Nat /\ n \in Nat /\ n < IdSpace
  BY MqttAssumption
<1>2. /\ \A id \in Id : Age(l, id) \in 0 .. IdSpace - 1
      /\ k \in Id /\ Age(k, k) = 0 /\ Age(l, k) = IdSpace - 1
      /\ \A id \in Id : id # k => Age(k, id) = Age(l, id) + 1
  BY AgeFacts
<1> HIDE DEF k
<1>3. k \notin P /\ P \subseteq Id
  BY <1>1, <1>2 DEF Latest
<1>4. Q = P \cup {k}
  <2>1. ASSUME NEW id \in Id PROVE id \in Q <=> id \in P \cup {k}
    <3>1. CASE id = k
      BY <1>1, <1>2, <3>1 DEF Latest
    <3>2. CASE id # k
      BY <1>1, <1>2, <3>2 DEF Latest
    <3> QED BY <3>1, <3>2
  <2>2. Q \subseteq Id
    BY DEF Latest
  <2> QED BY <1>2, <1>3, <2>1, <2>2
<1>5. \A id \in P : Age(k, id) = Age(l, id) + 1 /\ Age(l, id) \in Nat
  BY <1>1, <1>2, <1>3
<1> HIDE DEF P, Q
<1>6. /\ \A i, j \in DOMAIN d : IsAck(d[i]) /\ IsAck(d[j]) /\ i < j => Age(l, d[i].id) > Age(l, d[j].id)
      /\ \A i, j \in DOMAIN u : Wants(u[i]) /\ Wants(u[j]) /\ i < j => Age(l, u[i].id) > Age(l, u[j].id)
      /\ \A i \in DOMAIN d, j \in DOMAIN u : IsAck(d[i]) /\ Wants(u[j]) => Age(l, d[i].id) > Age(l, u[j].id)
      /\ \A i \in DOMAIN d : IsAck(d[i]) => d[i].id \in P
      /\ \A j \in DOMAIN u : Wants(u[j]) => u[j].id \in P
      /\ \A id \in P :
            \/ \E i \in DOMAIN d : IsAck(d[i]) /\ d[i].id = id
            \/ \E j \in DOMAIN u : Wants(u[j]) /\ u[j].id = id
            \/ ~ al /\ \A i \in DOMAIN d : IsAck(d[i]) => Age(l, d[i].id) > Age(l, id)
  BY DEF InOrderOf, P
<1>7. /\ \A j \in DOMAIN v : \/ j \in DOMAIN u /\ v[j] = u[j]
                             \/ al /\ v[j] = p /\ \A i \in DOMAIN u : i < j
      /\ \A j \in DOMAIN u : j \in DOMAIN v /\ v[j] = u[j]
      /\ al => \E j \in DOMAIN v : v[j] = p
      /\ \A i, j \in DOMAIN v : i < j => i \in DOMAIN u /\ v[i] = u[i]
  <2>1. DOMAIN u = 1 .. Len(u) /\ Len(u) \in Nat
    BY LenProperties
  <2>2. CASE al
    <3>1. /\ DOMAIN v = DOMAIN u \cup {Len(u) + 1}
          /\ \A i \in DOMAIN u : v[i] = u[i]
          /\ v[Len(u) + 1] = p
      BY <2>2, AppendFacts
    <3> HIDE DEF v
    <3> QED BY <2>1, <2>2, <3>1
  <2>3. CASE ~ al
    <3>1. v = u
      BY <2>3
    <3> HIDE DEF v
    <3> QED BY <2>3, <3>1
  <2> QED BY <2>2, <2>3
<1> HIDE DEF v
<1>8. \A i, j \in DOMAIN d : IsAck(d[i]) /\ IsAck(d[j]) /\ i < j => Age(k, d[i].id) > Age(k, d[j].id)
  BY <1>5, <1>6
<1>9. \A i, j \in DOMAIN v : Wants(v[i]) /\ Wants(v[j]) /\ i < j => Age(k, v[i].id) > Age(k, v[j].id)
  <2>1. SUFFICES ASSUME NEW i \in DOMAIN v, NEW j \in DOMAIN v, Wants(v[i]), Wants(v[j]), i < j
                 PROVE  Age(k, v[i].id) > Age(k, v[j].id)
    OBVIOUS
  <2>2. i \in DOMAIN u /\ v[i] = u[i] /\ v[i].id \in P
    BY <1>6, <1>7, <2>1
  <2>3. CASE j \in DOMAIN u /\ v[j] = u[j]
    <3>1. v[j].id \in P /\ Age(l, v[i].id) > Age(l, v[j].id)
      BY <1>6, <2>1, <2>2, <2>3
    <3> QED BY <1>5, <2>2, <3>1
  <2>4. CASE v[j] = p
    <3>1. Age(k, v[j].id) = 0
      BY <1>2, <2>4 DEF k
    <3> QED BY <1>5, <2>2, <3>1
  <2> QED BY <1>7, <2>3, <2>4
<1>10. \A i \in DOMAIN d, j \in DOMAIN v : IsAck(d[i]) /\ Wants(v[j]) => Age(k, d[i].id) > Age(k, v[j].id)
  <2>1. SUFFICES ASSUME NEW i \in DOMAIN d, NEW j \in DOMAIN v, IsAck(d[i]), Wants(v[j])
                 PROVE  Age(k, d[i].id) > Age(k, v[j].id)
    OBVIOUS
  <2>2. d[i].id \in P
    BY <1>6, <2>1
  <2>3. CASE j \in DOMAIN u /\ v[j] = u[j]
    <3>1. v[j].id \in P /\ Age(l, d[i].id) > Age(l, v[j].id)
      BY <1>6, <2>1, <2>3
    <3> QED BY <1>5, <2>2, <3>1
  <2>4. CASE v[j] = p
    <3>1. Age(k, v[j].id) = 0
      BY <1>2, <2>4 DEF k
    <3> QED BY <1>5, <2>2, <3>1
  <2> QED BY <1>7, <2>3, <2>4
<1>11. \A i \in DOMAIN d : IsAck(d[i]) => d[i].id \in Q
  BY <1>4, <1>6
<1>12. \A j \in DOMAIN v : Wants(v[j]) => v[j].id \in Q
  BY <1>4, <1>6, <1>7 DEF k
<1>13. \A id \in Q :
          \/ \E i \in DOMAIN d : IsAck(d[i]) /\ d[i].id = id
          \/ \E j \in DOMAIN v : Wants(v[j]) /\ v[j].id = id
          \/ ~ al /\ \A i \in DOMAIN d : IsAck(d[i]) => Age(k, d[i].id) > Age(k, id)
  <2>1. SUFFICES ASSUME NEW id \in Q
                 PROVE  \/ \E i \in DOMAIN d : IsAck(d[i]) /\ d[i].id = id
                        \/ \E j \in DOMAIN v : Wants(v[j]) /\ v[j].id = id
                        \/ ~ al /\ \A i \in DOMAIN d : IsAck(d[i]) => Age(k, d[i].id) > Age(k, id)
    OBVIOUS
  <2>2. CASE id \in P
    <3>1. CASE \E i \in DOMAIN d : IsAck(d[i]) /\ d[i].id = id
      BY <3>1
    <3>2. CASE \E j \in DOMAIN u : Wants(u[j]) /\ u[j].id = id
      BY <1>7, <3>2
    <3>3. CASE ~ al /\ \A i \in DOMAIN d : IsAck(d[i]) => Age(l, d[i].id) > Age(l, id)
      <4>1. ASSUME NEW i \in DOMAIN d, IsAck(d[i]) PROVE Age(k, d[i].id) > Age(k, id)
        <5>1. d[i].id \in P /\ Age(l, d[i].id) > Age(l, id)
          BY <1>6, <3>3, <4>1
        <5> QED BY <1>5, <2>2, <5>1
      <4> QED BY <3>3, <4>1
    <3> QED BY <1>6, <2>2, <3>1, <3>2, <3>3
  <2>3. CASE id = k /\ al
    BY <1>7, <2>3 DEF k
  <2>4. CASE id = k /\ ~ al
    <3>1. ASSUME NEW i \in DOMAIN d, IsAck(d[i]) PROVE Age(k, d[i].id) > Age(k, id)
      <4>1. d[i].id \in P
        BY <1>6, <3>1
      <4> QED BY <1>2, <1>5, <2>4, <4>1
    <3> QED BY <2>4, <3>1
  <2> QED BY <1>4, <2>2, <2>3, <2>4
<1>14. InOrderOf(v, d, k, Q, al)
  BY <1>8, <1>9, <1>10, <1>11, <1>12, <1>13 DEF InOrderOf
<1> QED BY <1>2, <1>3, <1>4, <1>14 DEF k, P, Q, v

\* The first acknowledgement is that of the oldest id.
LEMMA Taken ==
    ASSUME NEW u, NEW d \in Seq(Down), NEW l \in 0 .. IdSpace, NEW al, NEW n \in 0 .. Window + 1,
           InOrderOf(u, d, l, Latest(l, n), al), d # <<>>, IsAck(d[1])
    PROVE  /\ n > 0 /\ Latest(l, n) \ {d[1].id} = Latest(l, n - 1)
           /\ InOrderOf(u, Tail(d), l, Latest(l, n - 1), al)
<1> DEFINE P == Latest(l, n)
           x == d[1].id
           Q == Latest(l, n - 1)
           e == Tail(d)
<1>1. Window \in Nat /\ IdSpace \in Nat /\ n \in Nat /\ n <= IdSpace
  BY MqttAssumption
<1>2. /\ \A i, j \in DOMAIN d : IsAck(d[i]) /\ IsAck(d[j]) /\ i < j => Age(l, d[i].id) > Age(l, d[j].id)
      /\ \A i, j \in DOMAIN u : Wants(u[i]) /\ Wants(u[j]) /\ i < j => Age(l, u[i].id) > Age(l, u[j].id)
      /\ \A i \in DOMAIN d, j \in DOMAIN u : IsAck(d[i]) /\ Wants(u[j]) => Age(l, d[i].id) > Age(l, u[j].id)
      /\ \A i \in DOMAIN d : IsAck(d[i]) => d[i].id \in P
      /\ \A j \in DOMAIN u : Wants(u[j]) => u[j].id \in P
      /\ \A id \in P :
            \/ \E i \in DOMAIN d : IsAck(d[i]) /\ d[i].id = id
            \/ \E j \in DOMAIN u : Wants(u[j]) /\ u[j].id = id
            \/ ~ al /\ \A i \in DOMAIN d : IsAck(d[i]) => Age(l, d[i].id) > Age(l, id)
  BY DEF InOrderOf
<1>3. /\ 1 \in DOMAIN d /\ Len(d) \in Nat /\ DOMAIN d = 1 .. Len(d) /\ DOMAIN e = 1 .. Len(d) - 1
      /\ \A i \in DOMAIN e : i + 1 \in DOMAIN d /\ e[i] = d[i + 1]
  BY TailFacts
<1>4. /\ \A id \in Id : Age(l, id) \in 0 .. IdSpace - 1
      /\ \A i, j \in Id : Age(l, i) = Age(l, j) => i = j
      /\ \A k \in 0 .. IdSpace - 1 : \E id \in Id : Age(l, id) = k
  BY AgeFacts
<1>5. x \in P /\ \A id \in P : id \in Id /\ Age(l, id) \in Nat /\ Age(l, id) < n
  <2>1. x \in P
    BY <1>2, <1>3
  <2>2. \A id \in P : id \in Id /\ Age(l, id) < n
    BY DEF Latest
  <2> QED BY <1>1, <1>4, <2>1, <2>2
<1>6. n > 0
  BY <1>1, <1>5
<1>7. \A i \in DOMAIN d : IsAck(d[i]) /\ i # 1 => Age(l, x) > Age(l, d[i].id)
  BY <1>2, <1>3
<1>8. Age(l, x) = n - 1
  <2>1. n - 1 \in 0 .. IdSpace - 1
    BY <1>1, <1>6
  <2>2. PICK y \in Id : Age(l, y) = n - 1
    BY <1>4, <2>1
  <2>3. y \in P
    BY <1>1, <2>2 DEF Latest
  <2>4. \A id \in P : ~ (Age(l, id) > Age(l, y))
    BY <1>1, <1>5, <2>2
  <2>5. CASE \E i \in DOMAIN d : IsAck(d[i]) /\ d[i].id = y
    BY <1>5, <1>7, <2>2, <2>4, <2>5
  <2>6. CASE \E j \in DOMAIN u : Wants(u[j]) /\ u[j].id = y
    BY <1>2, <1>3, <1>5, <2>4, <2>6
  <2>7. CASE \A i \in DOMAIN d : IsAck(d[i]) => Age(l, d[i].id) > Age(l, y)
    BY <1>2, <1>3, <1>5, <2>4, <2>7
  <2> QED BY <1>2, <2>3, <2>5, <2>6, <2>7
<1>9. Q = P \ {x}
  <2>1. ASSUME NEW id \in Id PROVE id \in Q <=> id \in P \ {x}
    <3>1. Age(l, id) \in Nat /\ (id = x <=> Age(l, id) = n - 1)
      BY <1>1, <1>4, <1>5, <1>8
    <3>2. id \in P <=> Age(l, id) < n
      BY DEF Latest
    <3>3. id \in Q <=> Age(l, id) < n - 1
      BY DEF Latest
    <3> QED BY <1>1, <3>1, <3>2, <3>3
  <2>2. Q \subseteq Id
    BY DEF Latest
  <2> QED BY <1>5, <2>1, <2>2
<1>10. \A i \in DOMAIN d : IsAck(d[i]) /\ i # 1 => d[i].id # x
  BY <1>5, <1>7
<1>11. \A j \in DOMAIN u : Wants(u[j]) => u[j].id # x
  BY <1>2, <1>3, <1>5
<1> HIDE DEF P, Q, x, e
<1>12. \A i \in DOMAIN e : IsAck(e[i]) => e[i].id \in Q
  BY <1>2, <1>3, <1>9, <1>10
<1>13. \A j \in DOMAIN u : Wants(u[j]) => u[j].id \in Q
  BY <1>2, <1>9, <1>11
<1>14. \A i, j \in DOMAIN e : IsAck(e[i]) /\ IsAck(e[j]) /\ i < j => Age(l, e[i].id) > Age(l, e[j].id)
  BY <1>2, <1>3
<1>15. \A i \in DOMAIN e, j \in DOMAIN u : IsAck(e[i]) /\ Wants(u[j]) => Age(l, e[i].id) > Age(l, u[j].id)
  BY <1>2, <1>3
<1>16. \A id \in Q :
          \/ \E i \in DOMAIN e : IsAck(e[i]) /\ e[i].id = id
          \/ \E j \in DOMAIN u : Wants(u[j]) /\ u[j].id = id
          \/ ~ al /\ \A i \in DOMAIN e : IsAck(e[i]) => Age(l, e[i].id) > Age(l, id)
  <2>1. SUFFICES ASSUME NEW id \in Q
                 PROVE  \/ \E i \in DOMAIN e : IsAck(e[i]) /\ e[i].id = id
                        \/ \E j \in DOMAIN u : Wants(u[j]) /\ u[j].id = id
                        \/ ~ al /\ \A i \in DOMAIN e : IsAck(e[i]) => Age(l, e[i].id) > Age(l, id)
    OBVIOUS
  <2>2. id \in P /\ id # x
    BY <1>9
  <2>3. CASE \E i \in DOMAIN d : IsAck(d[i]) /\ d[i].id = id
    <3>1. PICK i \in DOMAIN d : IsAck(d[i]) /\ d[i].id = id
      BY <2>3
    <3>2. i - 1 \in DOMAIN e /\ e[i - 1] = d[i]
      <4>1. i # 1
        BY <2>2, <3>1 DEF x
      <4>2. i - 1 \in DOMAIN e /\ i - 1 + 1 = i
        BY <1>3, <4>1
      <4> QED BY <1>3, <4>2
    <3> QED BY <3>1, <3>2
  <2>4. CASE ~ al /\ \A i \in DOMAIN d : IsAck(d[i]) => Age(l, d[i].id) > Age(l, id)
    BY <1>3, <2>4
  <2> QED BY <1>2, <2>2, <2>3, <2>4
<1>17. InOrderOf(u, e, l, Q, al)
  BY <1>2, <1>12, <1>13, <1>14, <1>15, <1>16 DEF InOrderOf
<1> QED BY <1>6, <1>9, <1>17 DEF P, Q, x, e

\* Other packets come and go.
LEMMA ReadOther ==
    ASSUME NEW u, NEW d \in Seq(Down), NEW l, NEW P, NEW al, InOrderOf(u, d, l, P, al), d # <<>>, ~ IsAck(d[1])
    PROVE  InOrderOf(u, Tail(d), l, P, al)
<1> DEFINE e == Tail(d)
<1>1. /\ DOMAIN d = 1 .. Len(d) /\ Len(d) \in Nat /\ DOMAIN e = 1 .. Len(d) - 1
      /\ \A i \in DOMAIN e : i + 1 \in DOMAIN d /\ e[i] = d[i + 1]
  BY TailFacts
<1> HIDE DEF e
<1>2. \A i \in DOMAIN d : IsAck(d[i]) => i - 1 \in DOMAIN e /\ e[i - 1] = d[i]
  <2>1. SUFFICES ASSUME NEW i \in DOMAIN d, IsAck(d[i]) PROVE i - 1 \in DOMAIN e /\ e[i - 1] = d[i]
    OBVIOUS
  <2>2. i # 1
    BY <2>1
  <2>3. i - 1 \in DOMAIN e /\ i - 1 + 1 = i
    BY <1>1, <2>2
  <2> QED BY <1>1, <2>3
<1>3. InOrderOf(u, e, l, P, al)
  <2>1. \A i, j \in DOMAIN e : IsAck(e[i]) /\ IsAck(e[j]) /\ i < j => Age(l, e[i].id) > Age(l, e[j].id)
    BY <1>1 DEF InOrderOf
  <2>2. \A i \in DOMAIN e, j \in DOMAIN u : IsAck(e[i]) /\ Wants(u[j]) => Age(l, e[i].id) > Age(l, u[j].id)
    BY <1>1 DEF InOrderOf
  <2>3. \A i \in DOMAIN e : IsAck(e[i]) => e[i].id \in P
    BY <1>1 DEF InOrderOf
  <2>4. \A id \in P :
          \/ \E i \in DOMAIN e : IsAck(e[i]) /\ e[i].id = id
          \/ \E j \in DOMAIN u : Wants(u[j]) /\ u[j].id = id
          \/ ~ al /\ \A i \in DOMAIN e : IsAck(e[i]) => Age(l, e[i].id) > Age(l, id)
    <3>1. SUFFICES ASSUME NEW id \in P
                   PROVE  \/ \E i \in DOMAIN e : IsAck(e[i]) /\ e[i].id = id
                          \/ \E j \in DOMAIN u : Wants(u[j]) /\ u[j].id = id
                          \/ ~ al /\ \A i \in DOMAIN e : IsAck(e[i]) => Age(l, e[i].id) > Age(l, id)
      OBVIOUS
    <3>2. CASE \E i \in DOMAIN d : IsAck(d[i]) /\ d[i].id = id
      <4>1. PICK i \in DOMAIN d : IsAck(d[i]) /\ d[i].id = id
        BY <3>2
      <4>2. i - 1 \in DOMAIN e /\ IsAck(e[i - 1]) /\ e[i - 1].id = id
        BY <1>2, <4>1
      <4> QED BY <4>2
    <3>3. CASE ~ al /\ \A i \in DOMAIN d : IsAck(d[i]) => Age(l, d[i].id) > Age(l, id)
      BY <1>1, <3>3
    <3> QED BY <3>2, <3>3 DEF InOrderOf
  <2> QED BY <2>1, <2>2, <2>3, <2>4 DEF InOrderOf
<1> QED BY <1>3 DEF e

LEMMA SentOther ==
    ASSUME NEW u \in Seq(Up), NEW d, NEW l, NEW P, NEW al, InOrderOf(u, d, l, P, al), NEW p \in Up, ~ Wants(p)
    PROVE  InOrderOf(Append(u, p), d, l, P, al)
<1> DEFINE v == Append(u, p)
<1>1. /\ DOMAIN v = DOMAIN u \cup {Len(u) + 1} /\ \A i \in DOMAIN u : v[i] = u[i]
      /\ v[Len(u) + 1] = p
  BY AppendFacts
<1> HIDE DEF v
<1>2. \A j \in DOMAIN v : Wants(v[j]) => j \in DOMAIN u /\ v[j] = u[j]
  BY <1>1
<1>3. InOrderOf(v, d, l, P, al)
  BY <1>1, <1>2 DEF InOrderOf
<1> QED BY <1>3 DEF v

LEMMA CameOther ==
    ASSUME NEW u, NEW d \in Seq(Down), NEW l, NEW P, NEW al, InOrderOf(u, d, l, P, al), NEW p \in Down, ~ IsAck(p)
    PROVE  InOrderOf(u, Append(d, p), l, P, al)
<1> DEFINE e == Append(d, p)
<1>1. /\ DOMAIN e = DOMAIN d \cup {Len(d) + 1} /\ \A i \in DOMAIN d : e[i] = d[i]
      /\ e[Len(d) + 1] = p
  BY AppendFacts
<1> HIDE DEF e
<1>2. \A j \in DOMAIN e : IsAck(e[j]) => j \in DOMAIN d /\ e[j] = d[j]
  BY <1>1
<1>3. InOrderOf(u, e, l, P, al)
  BY <1>1, <1>2 DEF InOrderOf
<1> QED BY <1>3 DEF e

LEMMA WentOther ==
    ASSUME NEW u \in Seq(Up), NEW d, NEW l, NEW P, NEW al, InOrderOf(u, d, l, P, al), u # <<>>, ~ Wants(u[1])
    PROVE  InOrderOf(Tail(u), d, l, P, al)
<1> DEFINE v == Tail(u)
<1>1. /\ DOMAIN u = 1 .. Len(u) /\ Len(u) \in Nat /\ DOMAIN v = 1 .. Len(u) - 1
      /\ \A i \in DOMAIN v : i + 1 \in DOMAIN u /\ v[i] = u[i + 1]
  BY TailFacts
<1> HIDE DEF v
<1>2. \A i \in DOMAIN u : Wants(u[i]) => i - 1 \in DOMAIN v /\ v[i - 1] = u[i]
  <2>1. SUFFICES ASSUME NEW i \in DOMAIN u, Wants(u[i]) PROVE i - 1 \in DOMAIN v /\ v[i - 1] = u[i]
    OBVIOUS
  <2>2. i # 1
    BY <2>1
  <2>3. i - 1 \in DOMAIN v /\ i - 1 + 1 = i
    BY <1>1, <2>2
  <2> QED BY <1>1, <2>3
<1>3. InOrderOf(v, d, l, P, al)
  <2>1. \A i, j \in DOMAIN v : Wants(v[i]) /\ Wants(v[j]) /\ i < j => Age(l, v[i].id) > Age(l, v[j].id)
    BY <1>1 DEF InOrderOf
  <2>2. \A i \in DOMAIN d, j \in DOMAIN v : IsAck(d[i]) /\ Wants(v[j]) => Age(l, d[i].id) > Age(l, v[j].id)
    BY <1>1 DEF InOrderOf
  <2>3. \A j \in DOMAIN v : Wants(v[j]) => v[j].id \in P
    BY <1>1 DEF InOrderOf
  <2>4. \A id \in P : (\E j \in DOMAIN u : Wants(u[j]) /\ u[j].id = id) => \E j \in DOMAIN v : Wants(v[j]) /\ v[j].id = id
    <3>1. SUFFICES ASSUME NEW id \in P, NEW j \in DOMAIN u, Wants(u[j]), u[j].id = id
                   PROVE  \E i \in DOMAIN v : Wants(v[i]) /\ v[i].id = id
      OBVIOUS
    <3>2. j - 1 \in DOMAIN v /\ Wants(v[j - 1]) /\ v[j - 1].id = id
      BY <1>2, <3>1
    <3> QED BY <3>2
  <2> QED BY <2>1, <2>2, <2>3, <2>4 DEF InOrderOf
<1> QED BY <1>3 DEF v

\* The broker acknowledges the next packet that wants it.
LEMMA Passed ==
    ASSUME NEW u \in Seq(Up), NEW d \in Seq(Down), NEW l \in 0 .. IdSpace, NEW P \in SUBSET Id,
           InOrderOf(u, d, l, P, TRUE),
           u # <<>>, Wants(u[1]), NEW p \in Down, IsAck(p), p.id = u[1].id
    PROVE  /\ InOrderOf(Tail(u), Append(d, p), l, P, TRUE)
           /\ \A j \in DOMAIN Tail(u) : Wants(Tail(u)[j]) => Tail(u)[j].id # p.id
<1> DEFINE v == Tail(u)
           e == Append(d, p)
           z == Len(d) + 1
<1>1. /\ DOMAIN u = 1 .. Len(u) /\ Len(u) \in Nat /\ DOMAIN v = 1 .. Len(u) - 1 /\ 1 \in DOMAIN u
      /\ \A i \in DOMAIN v : i + 1 \in DOMAIN u /\ v[i] = u[i + 1]
  BY TailFacts
<1>2. /\ DOMAIN e = DOMAIN d \cup {z} /\ \A i \in DOMAIN d : e[i] = d[i] /\ i < z
      /\ e[z] = p
  BY AppendFacts, LenProperties
<1> HIDE DEF v, e, z
<1>3. /\ \A i, j \in DOMAIN d : IsAck(d[i]) /\ IsAck(d[j]) /\ i < j => Age(l, d[i].id) > Age(l, d[j].id)
      /\ \A i, j \in DOMAIN u : Wants(u[i]) /\ Wants(u[j]) /\ i < j => Age(l, u[i].id) > Age(l, u[j].id)
      /\ \A i \in DOMAIN d, j \in DOMAIN u : IsAck(d[i]) /\ Wants(u[j]) => Age(l, d[i].id) > Age(l, u[j].id)
      /\ \A i \in DOMAIN d : IsAck(d[i]) => d[i].id \in P
      /\ \A j \in DOMAIN u : Wants(u[j]) => u[j].id \in P
      /\ \A id \in P :
            \/ \E i \in DOMAIN d : IsAck(d[i]) /\ d[i].id = id
            \/ \E j \in DOMAIN u : Wants(u[j]) /\ u[j].id = id
  BY DEF InOrderOf
<1>4. \A j \in DOMAIN v : Wants(v[j]) => Age(l, p.id) > Age(l, v[j].id)
  <2>1. SUFFICES ASSUME NEW j \in DOMAIN v, Wants(v[j]) PROVE Age(l, p.id) > Age(l, v[j].id)
    OBVIOUS
  <2>2. j + 1 \in DOMAIN u /\ v[j] = u[j + 1] /\ 1 < j + 1
    BY <1>1
  <2> QED BY <1>1, <1>3, <2>1, <2>2
<1>5. \A i, j \in DOMAIN e : IsAck(e[i]) /\ IsAck(e[j]) /\ i < j => Age(l, e[i].id) > Age(l, e[j].id)
  <2>1. SUFFICES ASSUME NEW i \in DOMAIN e, NEW j \in DOMAIN e, IsAck(e[i]), IsAck(e[j]), i < j
                 PROVE  Age(l, e[i].id) > Age(l, e[j].id)
    OBVIOUS
  <2>2. i \in DOMAIN d /\ e[i] = d[i]
    <3>1. z \in Nat /\ \A k \in DOMAIN e : k \in Nat /\ k <= z
      BY <1>2, LenProperties DEF z
    <3> QED BY <1>2, <2>1, <3>1
  <2>3. CASE j = z
    BY <1>1, <1>2, <1>3, <2>1, <2>2, <2>3
  <2>4. CASE j \in DOMAIN d
    BY <1>2, <1>3, <2>1, <2>2, <2>4
  <2> QED BY <1>2, <2>3, <2>4
<1>6. \A i, j \in DOMAIN v : Wants(v[i]) /\ Wants(v[j]) /\ i < j => Age(l, v[i].id) > Age(l, v[j].id)
  BY <1>1, <1>3
<1>7. \A i \in DOMAIN e, j \in DOMAIN v : IsAck(e[i]) /\ Wants(v[j]) => Age(l, e[i].id) > Age(l, v[j].id)
  BY <1>1, <1>2, <1>3, <1>4
<1>8. \A i \in DOMAIN e : IsAck(e[i]) => e[i].id \in P
  BY <1>1, <1>2, <1>3
<1>9. \A j \in DOMAIN v : Wants(v[j]) => v[j].id \in P
  BY <1>1, <1>3
<1>10. \A id \in P :
          \/ \E i \in DOMAIN e : IsAck(e[i]) /\ e[i].id = id
          \/ \E j \in DOMAIN v : Wants(v[j]) /\ v[j].id = id
  <2>1. SUFFICES ASSUME NEW id \in P
                 PROVE  \/ \E i \in DOMAIN e : IsAck(e[i]) /\ e[i].id = id
                        \/ \E j \in DOMAIN v : Wants(v[j]) /\ v[j].id = id
    OBVIOUS
  <2>2. CASE \E i \in DOMAIN d : IsAck(d[i]) /\ d[i].id = id
    BY <1>2, <2>2
  <2>3. CASE \E j \in DOMAIN u : Wants(u[j]) /\ u[j].id = id
    <3>1. PICK j \in DOMAIN u : Wants(u[j]) /\ u[j].id = id
      BY <2>3
    <3>2. CASE j = 1
      BY <1>2, <3>1, <3>2
    <3>3. CASE j # 1
      <4>1. j - 1 \in DOMAIN v /\ j - 1 + 1 = j
        BY <1>1, <3>3
      <4>2. v[j - 1] = u[j]
        BY <1>1, <4>1
      <4> QED BY <3>1, <4>1, <4>2
    <3> QED BY <3>2, <3>3
  <2> QED BY <1>3, <2>2, <2>3
<1>11. InOrderOf(v, e, l, P, TRUE)
  BY <1>5, <1>6, <1>7, <1>8, <1>9, <1>10 DEF InOrderOf
<1>12. \A j \in DOMAIN v : Wants(v[j]) => v[j].id # p.id
  <2>1. \A id \in P : Age(l, id) \in Int
    BY AgeFacts, MqttAssumption
  <2>2. SUFFICES ASSUME NEW j \in DOMAIN v, Wants(v[j]), v[j].id = p.id PROVE FALSE
    OBVIOUS
  <2>3. Age(l, p.id) > Age(l, v[j].id) /\ Age(l, p.id) = Age(l, v[j].id) /\ p.id \in P
    BY <1>4, <1>9, <2>2
  <2> QED BY <2>1, <2>3
<1> QED BY <1>11, <1>12 DEF v, e

\* The connection breaks: the youngest go.
LEMMA Broken ==
    ASSUME NEW u, NEW d \in Seq(Down), NEW l, NEW P, InOrderOf(u, d, l, P, TRUE), NEW n \in 0 .. Len(d)
    PROVE  InOrderOf(<<>>, SubSeq(d, 1, n), l, P, FALSE)
<1> DEFINE e == SubSeq(d, 1, n)
<1>1. /\ DOMAIN d = 1 .. Len(d) /\ Len(d) \in Nat /\ DOMAIN e = 1 .. n
      /\ \A i \in 1 .. n : i \in DOMAIN d /\ e[i] = d[i]
  BY PrefixFacts, LenProperties
<1> HIDE DEF e
<1>2. \A id \in P :
         \/ \E i \in DOMAIN e : IsAck(e[i]) /\ e[i].id = id
         \/ \A i \in DOMAIN e : IsAck(e[i]) => Age(l, e[i].id) > Age(l, id)
  <2>1. SUFFICES ASSUME NEW id \in P
                 PROVE  \/ \E i \in DOMAIN e : IsAck(e[i]) /\ e[i].id = id
                        \/ \A i \in DOMAIN e : IsAck(e[i]) => Age(l, e[i].id) > Age(l, id)
    OBVIOUS
  <2>2. CASE \E i \in DOMAIN d : IsAck(d[i]) /\ d[i].id = id
    <3>1. PICK i \in DOMAIN d : IsAck(d[i]) /\ d[i].id = id
      BY <2>2
    <3>2. CASE i <= n
      <4>1. i \in DOMAIN e /\ e[i] = d[i]
        BY <1>1, <3>2
      <4> QED BY <3>1, <4>1
    <3>3. CASE ~ (i <= n)
      <4>1. \A j \in DOMAIN e : j \in DOMAIN d /\ j < i /\ e[j] = d[j]
        BY <1>1, <3>3
      <4> QED BY <3>1, <4>1 DEF InOrderOf
    <3> QED BY <3>2, <3>3
  <2>3. CASE \E j \in DOMAIN u : Wants(u[j]) /\ u[j].id = id
    BY <1>1, <2>3 DEF InOrderOf
  <2> QED BY <2>2, <2>3 DEF InOrderOf
<1>3. InOrderOf(<<>>, e, l, P, FALSE)
  <2>1. \A i, j \in DOMAIN e : IsAck(e[i]) /\ IsAck(e[j]) /\ i < j => Age(l, e[i].id) > Age(l, e[j].id)
    BY <1>1 DEF InOrderOf
  <2>2. \A i \in DOMAIN e : IsAck(e[i]) => e[i].id \in P
    BY <1>1 DEF InOrderOf
  <2>3. DOMAIN <<>> = {}
    OBVIOUS
  <2> QED BY <1>2, <2>1, <2>2, <2>3 DEF InOrderOf
<1> QED BY <1>3 DEF e

-----------------------------------------------------------------------------
(* The packets and the handlers.                                            *)

LEMMA IdsFacts ==
    /\ \A A, h : Ids(A \cup {h}) = Ids(A) \cup {h.id}
    /\ \A A, x : Ids(A \ {h \in A : h.id = x}) = Ids(A) \ {x}
<1>1. ASSUME NEW A, NEW h PROVE Ids(A \cup {h}) = Ids(A) \cup {h.id}
  <2>1. \A y : y \in Ids(A \cup {h}) <=> y \in Ids(A) \cup {h.id}
    BY DEF Ids
  <2> QED BY <2>1
<1>2. ASSUME NEW A, NEW x PROVE Ids(A \ {h \in A : h.id = x}) = Ids(A) \ {x}
  <2>1. \A y : y \in Ids(A \ {h \in A : h.id = x}) <=> y \in Ids(A) \ {x}
    BY DEF Ids
  <2> QED BY <2>1
<1> QED BY <1>1, <1>2

LEMMA FlightReads ==
    ASSUME NEW u, NEW d \in Seq(Down), NEW l, NEW al, NEW A, NEW S, NEW w, NEW acc, NEW n,
           InFlight(n, u, d, l, al, A, S, w, acc), d # <<>>, ~ IsAck(d[1])
    PROVE  /\ InFlight(n, u, Tail(d), l, al, A, S, w, acc)
           /\ \A i \in DOMAIN Tail(d) : Tail(d)[i].type # "connack"
<1> DEFINE e == Tail(d)
<1>1. InOrderOf(u, e, l, Latest(l, n), al)
  BY ReadOther DEF InFlight
<1>2. /\ DOMAIN d = 1 .. Len(d) /\ Len(d) \in Nat /\ DOMAIN e = 1 .. Len(d) - 1
      /\ \A i \in DOMAIN e : i + 1 \in DOMAIN d /\ e[i] = d[i + 1]
  BY TailFacts
<1> HIDE DEF e
<1>3. \A i \in DOMAIN e : e[i].type # "connack"
  <2>1. SUFFICES ASSUME NEW i \in DOMAIN e, e[i].type = "connack" PROVE FALSE
    OBVIOUS
  <2>2. i + 1 \in DOMAIN d /\ d[i + 1].type = "connack" /\ i + 1 # 1
    BY <1>2, <2>1
  <2> QED BY <2>2 DEF InFlight, Greeted
<1>4. \A i \in DOMAIN e : OwnDown(e[i], A, S, w, acc)
  BY <1>2 DEF InFlight
<1>5. InFlight(n, u, e, l, al, A, S, w, acc)
  BY <1>1, <1>3, <1>4 DEF InFlight, Greeted
<1> QED BY <1>3, <1>5 DEF e

LEMMA FlightSends ==
    ASSUME NEW u \in Seq(Up), NEW d, NEW l, NEW al, NEW A, NEW S, NEW w, NEW acc, NEW n,
           InFlight(n, u, d, l, al, A, S, w, acc), NEW p \in Up, ~ Wants(p)
    PROVE  InFlight(n, Append(u, p), d, l, al, A, S, w, acc)
<1> DEFINE v == Append(u, p)
<1>1. InOrderOf(v, d, l, Latest(l, n), al)
  BY SentOther DEF InFlight
<1>2. /\ DOMAIN v = DOMAIN u \cup {Len(u) + 1} /\ \A i \in DOMAIN u : v[i] = u[i]
      /\ v[Len(u) + 1] = p
  BY AppendFacts
<1> HIDE DEF v
<1>3. OwnUp(p, A, S, w)
  BY DEF OwnUp, Wants
<1>4. \A i \in DOMAIN v : OwnUp(v[i], A, S, w)
  BY <1>2, <1>3 DEF InFlight
<1>5. InFlight(n, v, d, l, al, A, S, w, acc)
  BY <1>1, <1>4 DEF InFlight
<1> QED BY <1>5 DEF v

LEMMA FlightAsks ==
    ASSUME NEW u, NEW d \in Seq(Down), NEW l, NEW al, NEW A, NEW S, NEW w, NEW acc, NEW n,
           InFlight(n, u, d, l, al, A, S, w, acc), NEW p \in Down, p.type = "publish"
    PROVE  InFlight(n, u, Append(d, p), l, al, A, S, w, acc)
<1> DEFINE e == Append(d, p)
<1>1. InOrderOf(u, e, l, Latest(l, n), al)
  BY CameOther DEF InFlight, IsAck
<1>2. /\ DOMAIN e = DOMAIN d \cup {Len(d) + 1} /\ \A i \in DOMAIN d : e[i] = d[i]
      /\ e[Len(d) + 1] = p
  BY AppendFacts
<1> HIDE DEF e
<1>3. OwnDown(p, A, S, w, acc)
  BY DEF OwnDown
<1>4. \A i \in DOMAIN e : OwnDown(e[i], A, S, w, acc)
  BY <1>2, <1>3 DEF InFlight
<1>5. Greeted(e, n)
  BY <1>2 DEF InFlight, Greeted
<1>6. InFlight(n, u, e, l, al, A, S, w, acc)
  BY <1>1, <1>4, <1>5 DEF InFlight
<1> QED BY <1>6 DEF e

\* A packet is sent under the next id and its handler registered.
LEMMA FlightGives ==
    ASSUME NEW u \in Seq(Up), NEW d, NEW l \in 0 .. IdSpace, NEW al, NEW A, NEW S, NEW w, NEW acc,
           NEW n \in 0 .. Window, InFlight(n, u, d, l, al, A, S, w, acc),
           n + 1 > Window => \A i \in DOMAIN d : d[i].type # "connack",
           NEW p \in Up, Wants(p), p.id = NextId(l), NEW B, NEW T, NEW x,
           \/ /\ p.type = "publish" /\ B = A \cup {[id |-> p.id, msg |-> p.msg, conn |-> conns]} /\ T = S
              /\ x = IF Qos[p.msg] = 2 THEN w \cup {p.id} ELSE w
           \/ /\ p.type = "subscribe" /\ B = A /\ x = w
              /\ \E c \in Conn : T = S \cup {[id |-> p.id, loop |-> c, conn |-> conns]}
    PROVE  InFlight(n + 1, IF al THEN Append(u, p) ELSE u, d, NextId(l), al, B, T, x, acc)
<1> DEFINE v == IF al THEN Append(u, p) ELSE u
           k == NextId(l)
<1>1. /\ k \in Id /\ k \notin Latest(l, n)
      /\ Latest(l, n) \cup {k} = Latest(k, n + 1)
      /\ InOrderOf(v, d, k, Latest(k, n + 1), al)
  BY GivenOut DEF InFlight
<1>2. \A j \in DOMAIN v : (j \in DOMAIN u /\ v[j] = u[j]) \/ v[j] = p
  <2>1. CASE al
    <3>1. /\ DOMAIN v = DOMAIN u \cup {Len(u) + 1}
          /\ \A i \in DOMAIN u : v[i] = u[i]
          /\ v[Len(u) + 1] = p
      BY <2>1, AppendFacts
    <3> HIDE DEF v
    <3> QED BY <3>1
  <2>2. CASE ~ al
    BY <2>2
  <2> QED BY <2>1, <2>2
<1> HIDE DEF v, k
<1>3. Ids(B) \cup Ids(T) = Ids(A) \cup Ids(S) \cup {k}
  <2>1. CASE p.type = "publish" /\ B = A \cup {[id |-> p.id, msg |-> p.msg, conn |-> conns]} /\ T = S
    <3> DEFINE h == [id |-> p.id, msg |-> p.msg, conn |-> conns]
    <3>1. Ids(A \cup {h}) = Ids(A) \cup {h.id} /\ h.id = k
      BY IdsFacts DEF k
    <3> QED BY <2>1, <3>1
  <2>2. CASE B = A /\ \E c \in Conn : T = S \cup {[id |-> p.id, loop |-> c, conn |-> conns]}
    <3>1. PICK c \in Conn : T = S \cup {[id |-> p.id, loop |-> c, conn |-> conns]}
      BY <2>2
    <3> DEFINE h == [id |-> p.id, loop |-> c, conn |-> conns]
    <3>2. Ids(S \cup {h}) = Ids(S) \cup {h.id} /\ h.id = k
      BY IdsFacts DEF k
    <3> QED BY <2>2, <3>1, <3>2
  <2> QED BY <2>1, <2>2
<1>4. k \notin Ids(A) \cup Ids(S) /\ \A h \in A \cup S : h.id # k
  BY <1>1 DEF InFlight, Ids
<1>5. w \subseteq x
  OBVIOUS
<1>6. /\ \A h \in B : h \in A \/ (h.id = k /\ p.type = "publish" /\ h.msg = p.msg)
      /\ \A h \in T : h \in S \/ (h.id = k /\ p.type = "subscribe")
  BY DEF k
<1>7. \A i \in DOMAIN u : OwnUp(u[i], B, T, x)
  <2>1. SUFFICES ASSUME NEW i \in DOMAIN u PROVE OwnUp(u[i], B, T, x)
    OBVIOUS
  <2>2. CASE Wants(u[i])
    <3>1. u[i].id # k
      BY <1>1, <2>2 DEF InFlight, InOrderOf
    <3>2. OwnUp(u[i], A, S, w)
      BY DEF InFlight
    <3> QED BY <1>5, <1>6, <3>1, <3>2 DEF OwnUp, Ids
  <2>3. CASE ~ Wants(u[i])
    BY <2>3 DEF OwnUp, Wants
  <2> QED BY <2>2, <2>3
<1>8. OwnUp(p, B, T, x)
  <2>1. CASE p.type = "publish" /\ B = A \cup {[id |-> p.id, msg |-> p.msg, conn |-> conns]} /\ T = S
             /\ x = IF Qos[p.msg] = 2 THEN w \cup {p.id} ELSE w
    BY <1>4, <1>6, <2>1 DEF OwnUp, k
  <2>2. CASE p.type = "subscribe" /\ B = A
    BY <1>4, <2>2 DEF OwnUp, k
  <2> QED BY <2>1, <2>2
<1>9. \A i \in DOMAIN v : OwnUp(v[i], B, T, x)
  BY <1>2, <1>7, <1>8
<1>10. \A i \in DOMAIN d : OwnDown(d[i], B, T, x, acc)
  <2>1. SUFFICES ASSUME NEW i \in DOMAIN d PROVE OwnDown(d[i], B, T, x, acc)
    OBVIOUS
  <2>2. CASE IsAck(d[i])
    <3>1. d[i].id # k
      BY <1>1, <2>2 DEF InFlight, InOrderOf
    <3>2. OwnDown(d[i], A, S, w, acc)
      BY DEF InFlight
    <3> QED BY <1>5, <1>6, <3>1, <3>2 DEF OwnDown, Ids
  <2>3. CASE ~ IsAck(d[i])
    BY <2>3 DEF OwnDown, IsAck
  <2> QED BY <2>2, <2>3
<1>11. n + 1 \in 0 .. Window + 1 /\ Greeted(d, n + 1)
  BY MqttAssumption DEF InFlight, Greeted
<1>12. InFlight(n + 1, v, d, k, al, B, T, x, acc)
  BY <1>1, <1>3, <1>9, <1>10, <1>11 DEF InFlight
<1> QED BY <1>12 DEF v, k

\* An acknowledgement is read, and its handlers are gone.
LEMMA FlightTakes ==
    ASSUME NEW u, NEW d \in Seq(Down), NEW l \in 0 .. IdSpace, NEW al, NEW A, NEW S, NEW w, NEW acc, NEW n,
           InFlight(n, u, d, l, al, A, S, w, acc), d # <<>>, IsAck(d[1]), NEW B, NEW T, NEW x,
           \/ /\ d[1].type \in {"puback", "pubrec"} /\ B = A \ {h \in A : h.id = d[1].id} /\ T = S
              /\ x \in {w, w \ {d[1].id}}
           \/ d[1].type = "suback" /\ B = A /\ T = S \ {h \in S : h.id = d[1].id} /\ x = w
    PROVE  n - 1 \in 0 .. Window + 1 /\ InFlight(n - 1, u, Tail(d), l, al, B, T, x, acc)
<1> DEFINE k == d[1].id
           e == Tail(d)
<1>1. n \in 0 .. Window + 1 /\ Window \in Nat
  BY MqttAssumption DEF InFlight
<1>2. /\ n > 0 /\ Latest(l, n) \ {k} = Latest(l, n - 1)
      /\ InOrderOf(u, e, l, Latest(l, n - 1), al)
  <2>1. InOrderOf(u, d, l, Latest(l, n), al)
    BY DEF InFlight
  <2> QED BY <1>1, <2>1, Taken
<1>3. /\ 1 \in DOMAIN d /\ DOMAIN d = 1 .. Len(d) /\ Len(d) \in Nat /\ DOMAIN e = 1 .. Len(d) - 1
      /\ \A i \in DOMAIN e : i + 1 \in DOMAIN d /\ e[i] = d[i + 1]
  BY TailFacts
<1>4. OwnDown(d[1], A, S, w, acc)
  BY <1>3 DEF InFlight
<1> HIDE DEF e, k
<1>5. Ids(B) \cup Ids(T) = (Ids(A) \cup Ids(S)) \ {k}
  <2>1. CASE d[1].type \in {"puback", "pubrec"} /\ B = A \ {h \in A : h.id = k} /\ T = S
    <3>1. k \notin Ids(S)
      BY <1>4, <2>1 DEF OwnDown, k
    <3>2. Ids(A \ {h \in A : h.id = k}) = Ids(A) \ {k}
      BY IdsFacts
    <3> QED BY <2>1, <3>1, <3>2
  <2>2. CASE d[1].type = "suback" /\ B = A /\ T = S \ {h \in S : h.id = k}
    <3>1. k \notin Ids(A)
      BY <1>4, <2>2 DEF OwnDown, k
    <3>2. Ids(S \ {h \in S : h.id = k}) = Ids(S) \ {k}
      BY IdsFacts
    <3> QED BY <2>2, <3>1, <3>2
  <2> QED BY <2>1, <2>2 DEF k
<1>6. B \subseteq A /\ T \subseteq S /\ \A id \in w : id # k => id \in x
  BY DEF k
<1>7. k \notin Latest(l, n - 1)
  BY <1>2
<1>8. \A i \in DOMAIN u : OwnUp(u[i], B, T, x)
  <2>1. SUFFICES ASSUME NEW i \in DOMAIN u PROVE OwnUp(u[i], B, T, x)
    OBVIOUS
  <2>2. CASE Wants(u[i])
    <3>1. u[i].id # k
      BY <1>2, <1>7, <2>2 DEF InOrderOf
    <3>2. OwnUp(u[i], A, S, w)
      BY DEF InFlight
    <3> QED BY <1>6, <3>1, <3>2 DEF OwnUp, Ids
  <2>3. CASE ~ Wants(u[i])
    BY <2>3 DEF OwnUp, Wants
  <2> QED BY <2>2, <2>3
<1>9. \A i \in DOMAIN e : OwnDown(e[i], B, T, x, acc)
  <2>1. SUFFICES ASSUME NEW i \in DOMAIN e PROVE OwnDown(e[i], B, T, x, acc)
    OBVIOUS
  <2>2. CASE IsAck(e[i])
    <3>1. e[i].id # k
      BY <1>2, <1>7, <2>2 DEF InOrderOf
    <3>2. OwnDown(e[i], A, S, w, acc)
      BY <1>3 DEF InFlight
    <3> QED BY <1>6, <3>1, <3>2 DEF OwnDown, Ids
  <2>3. CASE ~ IsAck(e[i])
    BY <2>3 DEF OwnDown, IsAck
  <2> QED BY <2>2, <2>3
<1>10. Greeted(e, n - 1)
  <2>1. SUFFICES ASSUME NEW i \in DOMAIN e, e[i].type = "connack" PROVE FALSE
    BY DEF Greeted
  <2>2. i + 1 \in DOMAIN d /\ d[i + 1].type = "connack" /\ i + 1 # 1
    BY <1>3, <2>1
  <2> QED BY <2>2 DEF InFlight, Greeted
<1>11. n - 1 \in 0 .. Window + 1
  BY <1>1, <1>2
<1>12. InFlight(n - 1, u, e, l, al, B, T, x, acc)
  BY <1>2, <1>5, <1>8, <1>9, <1>10, <1>11 DEF InFlight
<1> QED BY <1>11, <1>12 DEF e

\* The broker reads a packet.
LEMMA FlightPasses ==
    ASSUME NEW u \in Seq(Up), NEW d \in Seq(Down), NEW l \in 0 .. IdSpace, NEW A, NEW S, NEW w, NEW acc, NEW n,
           InFlight(n, u, d, l, TRUE, A, S, w, acc), u # <<>>,
           NEW ok \in BOOLEAN, NEW a, acc \subseteq a, u[1].type = "publish" => u[1].msg \in a
    PROVE  InFlight(n, Tail(u), d \o Answered(u[1], ok), l, TRUE, A, S, w, a)
<1> DEFINE v == Tail(u)
           p == u[1]
<1>1. /\ 1 \in DOMAIN u /\ p \in Up /\ v \in Seq(Up)
      /\ \A i \in DOMAIN v : i + 1 \in DOMAIN u /\ v[i] = u[i + 1]
  BY TailFacts
<1>2. \A i \in DOMAIN v : OwnUp(v[i], A, S, w)
  BY <1>1 DEF InFlight
<1>3. \A i \in DOMAIN d : OwnDown(d[i], A, S, w, a)
  <2>1. \A i \in DOMAIN d : OwnDown(d[i], A, S, w, acc)
    BY DEF InFlight
  <2> QED BY <2>1 DEF OwnDown
<1>4. CASE ~ Wants(p) /\ d \o Answered(p, ok) = d
  <2>1. InOrderOf(v, d, l, Latest(l, n), TRUE)
    BY <1>4, WentOther DEF InFlight
  <2>2. InFlight(n, v, d, l, TRUE, A, S, w, a)
    BY <1>2, <1>3, <2>1 DEF InFlight
  <2> QED BY <1>4, <2>2
<1>5. ASSUME Wants(p), NEW e \in Down, d \o Answered(p, ok) = Append(d, e),
             e.id = p.id, e.type \in {"puback", "pubrec", "suback"},
             p.type = "subscribe" => e.type = "suback",
             p.type = "publish" => e.type = IF Qos[p.msg] = 2 THEN "pubrec" ELSE "puback"
      PROVE  InFlight(n, v, Append(d, e), l, TRUE, A, S, w, a)
  <2>1. InOrderOf(v, Append(d, e), l, Latest(l, n), TRUE)
    <3>1. Latest(l, n) \in SUBSET Id /\ IsAck(e)
      BY <1>5 DEF Latest, IsAck
    <3> QED BY <1>5, <3>1, Passed DEF InFlight
  <2>2. /\ DOMAIN Append(d, e) = DOMAIN d \cup {Len(d) + 1} /\ \A i \in DOMAIN d : Append(d, e)[i] = d[i]
        /\ Append(d, e)[Len(d) + 1] = e
    BY AppendFacts
  <2>3. OwnDown(e, A, S, w, a)
    <3>1. OwnUp(p, A, S, w)
      BY <1>1 DEF InFlight
    <3>2. CASE p.type = "subscribe"
      BY <1>5, <3>1, <3>2 DEF OwnUp, OwnDown
    <3>3. CASE p.type = "publish" /\ p.id # 0
      <4>1. e.type \in {"puback", "pubrec"} /\ (e.type = "pubrec" => Qos[p.msg] = 2)
        BY <1>5, <3>3
      <4> QED BY <1>5, <3>1, <3>3, <4>1 DEF OwnUp, OwnDown
    <3> QED BY <1>5, <3>2, <3>3 DEF Wants
  <2>4. \A i \in DOMAIN Append(d, e) : OwnDown(Append(d, e)[i], A, S, w, a)
    BY <1>3, <2>2, <2>3
  <2>5. Greeted(Append(d, e), n)
    BY <1>5, <2>2 DEF InFlight, Greeted
  <2> QED BY <1>2, <2>1, <2>4, <2>5 DEF InFlight
<1>6. CASE ~ (~ Wants(p) /\ d \o Answered(p, ok) = d)
  <2>1. PICK e \in Down :
           /\ d \o Answered(p, ok) = Append(d, e)
           /\ e.id = p.id /\ e.type \in {"puback", "pubrec", "suback"}
           /\ p.type = "subscribe" => e.type = "suback"
           /\ p.type = "publish" => e.type = IF Qos[p.msg] = 2 THEN "pubrec" ELSE "puback"
    BY <1>1, <1>6, AnsweredFacts
  <2>2. Wants(p)
    BY <1>1, <1>6, AnsweredFacts
  <2> QED BY <1>5, <2>1, <2>2
<1> QED BY <1>4, <1>6

LEMMA FlightBreaks ==
    ASSUME NEW u, NEW d \in Seq(Down), NEW l, NEW A, NEW S, NEW w, NEW acc, NEW n,
           InFlight(n, u, d, l, TRUE, A, S, w, acc), NEW k \in 0 .. Len(d)
    PROVE  InFlight(n, <<>>, SubSeq(d, 1, k), l, FALSE, A, S, w, acc)
<1> DEFINE e == SubSeq(d, 1, k)
<1>1. InOrderOf(<<>>, e, l, Latest(l, n), FALSE)
  BY Broken DEF InFlight
<1>2. DOMAIN e = 1 .. k /\ \A i \in 1 .. k : i \in DOMAIN d /\ e[i] = d[i]
  BY PrefixFacts
<1> HIDE DEF e
<1>3. Greeted(e, n)
  BY <1>2 DEF InFlight, Greeted
<1>4. \A i \in DOMAIN e : OwnDown(e[i], A, S, w, acc)
  BY <1>2 DEF InFlight
<1>5. DOMAIN <<>> = {}
  OBVIOUS
<1>6. InFlight(n, <<>>, e, l, FALSE, A, S, w, acc)
  BY <1>1, <1>3, <1>4, <1>5 DEF InFlight
<1> QED BY <1>6 DEF e

LEMMA FlightStarts ==
    ASSUME NEW p \in Down, p.type = "connack", NEW al, NEW acc
    PROVE  InFlight(0, <<>>, <<p>>, 0, al, {}, {}, {}, acc)
<1>1. Window \in Nat /\ IdSpace \in Nat /\ 0 \in 0 .. IdSpace
  BY MqttAssumption
<1>2. Latest(0, 0) = {}
  <2>1. \A id \in Id : ~ (Age(0, id) < 0)
    BY <1>1, AgeFacts
  <2> QED BY <2>1 DEF Latest
<1>3. Ids({}) = {}
  BY DEF Ids
<1>4. DOMAIN <<p>> = {1} /\ <<p>>[1] = p /\ DOMAIN <<>> = {}
  OBVIOUS
<1>5. Greeted(<<p>>, 0)
  BY <1>1, <1>4 DEF Greeted
<1>6. InOrderOf(<<>>, <<p>>, 0, {}, al)
  BY <1>4 DEF InOrderOf, IsAck
<1>7. OwnDown(p, {}, {}, {}, acc)
  BY DEF OwnDown
<1>8. \A i \in DOMAIN <<p>> : OwnDown(<<p>>[i], {}, {}, {}, acc)
  BY <1>4, <1>7
<1>9. \A i \in DOMAIN <<>> : OwnUp(<<>>[i], {}, {}, {})
  BY <1>4
<1>10. 0 \in 0 .. Window + 1 /\ Ids({}) \cup Ids({}) = Latest(0, 0)
  BY <1>1, <1>2, <1>3
<1> QED BY <1>2, <1>5, <1>6, <1>8, <1>9, <1>10 DEF InFlight

-----------------------------------------------------------------------------
(* The second invariant, step by step.                                      *)

LEMMA QuietCarries ==
    ASSUME Carried, UNCHANGED <<connected, alive, up, down, conns, lastId, waitRec, acks, subacks, accepted>>
    PROVE  Carried'
<1>1. Handlers'
  BY DEF Carried, Handlers
<1>2. connected' => Matched'
  BY DEF Carried, Matched, Ha, Hs
<1> QED BY <1>1, <1>2 DEF Carried

\* The connection is closed.
LEMMA ClosedCarries ==
    ASSUME Carried, Closed, UNCHANGED <<conns, acks, subacks>>
    PROVE  Carried'
<1>1. Handlers'
  BY DEF Carried, Handlers
<1> QED BY <1>1 DEF Closed, Carried

LEMMA CarriedFacts ==
    ASSUME SInv, Carried, connected
    PROVE  /\ Handlers /\ conns \in Conn /\ alive \in BOOLEAN
           /\ up \in Seq(Up) /\ down \in Seq(Down) /\ lastId \in 0 .. IdSpace
           /\ \E n \in 0 .. Window + 1 : InFlight(n, up, down, lastId, alive, Ha, Hs, waitRec, accepted)
BY SInvFacts DEF Carried, Matched, NetOK, IdOK

\* A packet that wants no acknowledgement is sent.
LEMMA SendCarries ==
    ASSUME SInv, connected, NEW n \in 0 .. Window + 1, NEW rest,
           InFlight(n, up, rest, lastId, alive, Ha', Hs', waitRec', accepted), Handlers', ~ alive => up = <<>>,
           NEW p \in Up, ~ Wants(p), Sent(p, rest), UNCHANGED <<conns, lastId, accepted>>
    PROVE  Carried'
<1>1. up' = (IF alive THEN Append(up, p) ELSE up) /\ down' = rest /\ UNCHANGED <<connected, alive>>
  BY DEF Sent
<1>2. up \in Seq(Up)
  BY SInvFacts DEF NetOK
<1>3. InFlight(n, up', down', lastId', alive', Ha', Hs', waitRec', accepted')
  <2>1. CASE alive
    <3>1. InFlight(n, Append(up, p), rest, lastId, alive, Ha', Hs', waitRec', accepted)
      BY <1>2, FlightSends
    <3> QED BY <1>1, <2>1, <3>1
  <2>2. CASE ~ alive
    BY <1>1, <2>2
  <2> QED BY <2>1, <2>2
<1>4. Matched'
  BY <1>3 DEF Matched
<1> QED BY <1>1, <1>4 DEF Carried

\* A packet is sent that wants one.
LEMMA GiveCarries ==
    ASSUME SInv, Carried, connected, NEW n \in 0 .. Window, NEW rest,
           InFlight(n, up, rest, lastId, alive, Ha, Hs, waitRec, accepted),
           n + 1 > Window => \A i \in DOMAIN rest : rest[i].type # "connack",
           NEW p \in Up, Wants(p), p.id = NextId(lastId), Sent(p, rest),
           lastId' = NextId(lastId), UNCHANGED <<conns, accepted>>,
           \/ /\ p.type = "publish" /\ acks' = acks \cup {[id |-> p.id, msg |-> p.msg, conn |-> conns]}
              /\ UNCHANGED subacks /\ waitRec' = IF Qos[p.msg] = 2 THEN waitRec \cup {p.id} ELSE waitRec
           \/ /\ p.type = "subscribe" /\ UNCHANGED <<acks, waitRec>>
              /\ \E c \in Conn : subacks' = subacks \cup {[id |-> p.id, loop |-> c, conn |-> conns]}
    PROVE  Carried'
<1>1. up' = (IF alive THEN Append(up, p) ELSE up) /\ down' = rest /\ UNCHANGED <<connected, alive>>
  BY DEF Sent
<1>2. up \in Seq(Up) /\ lastId \in 0 .. IdSpace /\ conns \in Conn /\ Handlers
  BY CarriedFacts
<1>3. Handlers' /\ (p.type = "publish" => Ha' = Ha \cup {[id |-> p.id, msg |-> p.msg, conn |-> conns]} /\ Hs' = Hs)
                /\ (p.type = "subscribe" =>
                      /\ Ha' = Ha
                      /\ \E c \in Conn : Hs' = Hs \cup {[id |-> p.id, loop |-> c, conn |-> conns]})
  <2>1. ASSUME p.type = "publish", acks' = acks \cup {[id |-> p.id, msg |-> p.msg, conn |-> conns]}, UNCHANGED subacks
        PROVE  Handlers' /\ Ha' = Ha \cup {[id |-> p.id, msg |-> p.msg, conn |-> conns]} /\ Hs' = Hs
    <3> DEFINE h == [id |-> p.id, msg |-> p.msg, conn |-> conns]
    <3>1. h.conn = conns
      OBVIOUS
    <3>2. acks' = acks \cup {h}
      BY <2>1
    <3> HIDE DEF h
    <3>3. IsFiniteSet(acks')
      BY <1>2, <3>2, FS_AddElement DEF Handlers
    <3>4. conns \in Nat
      BY <1>2, MqttAssumption DEF Conn
    <3>5. Handlers'
      BY <1>2, <2>1, <3>1, <3>2, <3>3, <3>4 DEF Handlers
    <3>6. Ha' = Ha \cup {h} /\ Hs' = Hs
      BY <2>1, <3>1, <3>2 DEF Ha, Hs
    <3> QED BY <3>5, <3>6 DEF h
  <2>2. ASSUME p.type = "subscribe", UNCHANGED acks,
               NEW c \in Conn, subacks' = subacks \cup {[id |-> p.id, loop |-> c, conn |-> conns]}
        PROVE  Handlers' /\ Ha' = Ha /\ Hs' = Hs \cup {[id |-> p.id, loop |-> c, conn |-> conns]}
    <3> DEFINE h == [id |-> p.id, loop |-> c, conn |-> conns]
    <3>1. h.conn = conns
      OBVIOUS
    <3>2. subacks' = subacks \cup {h}
      BY <2>2
    <3> HIDE DEF h
    <3>3. IsFiniteSet(subacks')
      BY <1>2, <3>2, FS_AddElement DEF Handlers
    <3>4. conns \in Nat
      BY <1>2, MqttAssumption DEF Conn
    <3>5. Handlers'
      BY <1>2, <2>2, <3>1, <3>2, <3>3, <3>4 DEF Handlers
    <3>6. Hs' = Hs \cup {h} /\ Ha' = Ha
      BY <2>2, <3>1, <3>2 DEF Ha, Hs
    <3> QED BY <3>5, <3>6 DEF h
  <2>3. CASE p.type = "publish"
    BY <2>1, <2>3
  <2>4. CASE p.type = "subscribe"
    BY <2>2, <2>4
  <2> QED BY <2>3, <2>4
<1>4. InFlight(n + 1, IF alive THEN Append(up, p) ELSE up, rest, NextId(lastId), alive, Ha', Hs', waitRec', accepted)
  <2>1. CASE p.type = "publish"
    <3>1. /\ Ha' = Ha \cup {[id |-> p.id, msg |-> p.msg, conn |-> conns]} /\ Hs' = Hs
          /\ waitRec' = IF Qos[p.msg] = 2 THEN waitRec \cup {p.id} ELSE waitRec
      BY <1>3, <2>1
    <3> QED BY <1>2, <2>1, <3>1, FlightGives
  <2>2. CASE p.type = "subscribe"
    <3>1. /\ Ha' = Ha /\ waitRec' = waitRec
          /\ \E c \in Conn : Hs' = Hs \cup {[id |-> p.id, loop |-> c, conn |-> conns]}
      BY <1>3, <2>2
    <3> QED BY <1>2, <2>2, <3>1, FlightGives
  <2> QED BY <2>1, <2>2
<1>5. InFlight(n + 1, up', down', lastId', alive', Ha', Hs', waitRec', accepted')
  BY <1>1, <1>4
<1>6. n + 1 \in 0 .. Window + 1
  BY MqttAssumption
<1>7. Matched'
  BY <1>5, <1>6 DEF Matched
<1> QED BY <1>1, <1>3, <1>7 DEF Carried

LEMMA PublishCarries ==
    ASSUME SInv, Carried, connected, NEW m \in Msgs, Published(m, down), UNCHANGED <<conns, subacks, accepted>>
    PROVE  Carried'
<1> DEFINE id == NextId(lastId)
           p == [type |-> "publish", id |-> id, msg |-> m]
           q == [type |-> "publish", id |-> 0, msg |-> m]
<1>1. /\ Handlers /\ conns \in Conn /\ lastId \in 0 .. IdSpace
      /\ \E n \in 0 .. Window + 1 : InFlight(n, up, down, lastId, alive, Ha, Hs, waitRec, accepted)
  BY CarriedFacts
<1>2. PICK n \in 0 .. Window + 1 : InFlight(n, up, down, lastId, alive, Ha, Hs, waitRec, accepted)
  BY <1>1
<1>3. /\ id \in Id /\ p \in Up /\ q \in Up /\ Wants(p) /\ ~ Wants(q)
      /\ p.id = id /\ p.msg = m /\ p.type = "publish"
  <2>1. id \in Id /\ 0 \notin Id
    BY <1>1, NextIdType DEF Id
  <2> QED BY <2>1, UpFacts DEF Wants
<1>4. CASE SendFails
  <2>1. UNCHANGED acks
    BY <1>4 DEF Published, SendFails, Sent, Closed
  <2> QED BY <1>4, <2>1, ClosedCarries DEF SendFails
<1>5. CASE Sent(q, down) /\ UNCHANGED <<lastId, waitRec, acks>>
  <2>1. Ha' = Ha /\ Hs' = Hs /\ Handlers' /\ waitRec' = waitRec
    BY <1>1, <1>5 DEF Ha, Hs, Handlers
  <2>2. InFlight(n, up, down, lastId, alive, Ha', Hs', waitRec', accepted)
    BY <1>2, <2>1
  <2>3. ~ alive => up = <<>>
    BY DEF Carried
  <2> QED BY <1>3, <1>5, <2>1, <2>2, <2>3, SendCarries
<1>6. CASE /\ Qos[m] > 0 /\ Room /\ lastId' = id /\ Sent(p, down)
           /\ acks' = acks \cup {[id |-> id, msg |-> m, conn |-> conns]}
           /\ waitRec' = IF Qos[m] = 2 THEN waitRec \cup {id} ELSE waitRec
  <2>1. n < Window /\ Window \in Nat
    BY <1>1, <1>2, <1>6, RoomFacts, MqttAssumption DEF InFlight
  <2>2. n \in 0 .. Window /\ ~ (n + 1 > Window)
    BY <2>1
  <2> HIDE DEF p, id
  <2>3. /\ acks' = acks \cup {[id |-> p.id, msg |-> p.msg, conn |-> conns]}
        /\ waitRec' = IF Qos[p.msg] = 2 THEN waitRec \cup {p.id} ELSE waitRec
        /\ p.id = NextId(lastId) /\ lastId' = NextId(lastId)
    BY <1>3, <1>6 DEF id
  <2> QED BY <1>2, <1>3, <1>6, <2>2, <2>3, GiveCarries
<1> QED BY <1>4, <1>5, <1>6 DEF Published

LEMMA SubscribeCarries ==
    ASSUME SInv, Carried, connected, NEW c \in Conn, NEW rest, NEW n \in 0 .. Window,
           InFlight(n, up, rest, lastId, alive, Ha, Hs, waitRec, accepted),
           n + 1 > Window => \A i \in DOMAIN rest : rest[i].type # "connack",
           Subscribes(c, rest), UNCHANGED <<conns, waitRec, acks, accepted>>
    PROVE  Carried'
<1> DEFINE id == NextId(lastId)
           p == [type |-> "subscribe", id |-> id]
<1>1. lastId \in 0 .. IdSpace
  BY CarriedFacts
<1>2. id \in Id /\ p \in Up /\ Wants(p) /\ p.id = NextId(lastId) /\ p.type = "subscribe"
  <2>1. id \in Id
    BY <1>1, NextIdType
  <2> QED BY <2>1, UpFacts DEF Wants
<1>3. CASE SendFails /\ UNCHANGED subacks
  BY <1>3, ClosedCarries DEF SendFails
<1>4. CASE Sent(p, rest) /\ subacks' = subacks \cup {[id |-> id, loop |-> c, conn |-> conns]}
  <2>1. lastId' = NextId(lastId)
    BY DEF Subscribes
  <2>2. subacks' = subacks \cup {[id |-> p.id, loop |-> c, conn |-> conns]}
    BY <1>4
  <2> HIDE DEF p
  <2> QED BY <1>2, <1>4, <2>1, <2>2, GiveCarries
<1> QED BY <1>3, <1>4 DEF Subscribes

LEMMA OfferedCarries ==
    ASSUME SInv, Carried, NEW m \in Msgs, Offered(m), UNCHANGED <<conns, subacks, accepted>>
    PROVE  Carried'
<1>1. CASE connected /\ Published(m, down)
  BY <1>1, PublishCarries
<1>2. CASE UNCHANGED <<netVars, lastId, waitRec, acks>>
  BY <1>2, QuietCarries DEF netVars
<1> QED BY <1>1, <1>2, OfferedSplit

LEMMA ResubscribeCarries ==
    ASSUME SInv, Carried, NEW c \in Conn, Resubscribe(c)
    PROVE  Carried'
<1>1. UNCHANGED <<conns, waitRec, acks, accepted>>
  BY DEF Resubscribe, brokerVars
<1>2. CASE connected /\ Room /\ Subscribes(c, down)
  <2>1. PICK n \in 0 .. Window + 1 : InFlight(n, up, down, lastId, alive, Ha, Hs, waitRec, accepted)
    BY <1>2, CarriedFacts
  <2>2. n < Window /\ Window \in Nat
    BY <1>2, <2>1, CarriedFacts, RoomFacts, MqttAssumption DEF InFlight
  <2>3. n \in 0 .. Window /\ ~ (n + 1 > Window)
    BY <2>2
  <2> QED BY <1>1, <1>2, <2>1, <2>3, SubscribeCarries
<1>3. CASE ~ connected /\ UNCHANGED <<netVars, lastId, subacks>>
  BY <1>1, <1>3, QuietCarries DEF netVars
<1> QED BY <1>2, <1>3 DEF Resubscribe

LEMMA ConnectedCarries ==
    ASSUME SInv, Carried, Connected
    PROVE  Carried'
<1>1. /\ conns' = conns + 1 /\ up' = <<>> /\ lastId' = 0 /\ waitRec' = {}
      /\ UNCHANGED <<acks, subacks, accepted>>
  BY DEF Connected
<1>2. PICK ok \in BOOLEAN : alive' = ok /\ down' = <<[type |-> "connack", id |-> 0, ok |-> ok]>>
  BY DEF Connected
<1>3. conns \in Nat /\ Handlers /\ \A h \in acks \cup subacks : h.conn \in Nat
  BY SInvFacts, MqttAssumption DEF Carried, RestOK, IdOK, Conn
<1>4. Handlers' /\ Ha' = {} /\ Hs' = {}
  BY <1>1, <1>3 DEF Handlers, Ha, Hs
<1>5. [type |-> "connack", id |-> 0, ok |-> ok] \in Down
  BY DEF Down
<1>6. InFlight(0, <<>>, <<[type |-> "connack", id |-> 0, ok |-> ok]>>, 0, ok, {}, {}, {}, accepted)
  BY <1>5, FlightStarts
<1>7. InFlight(0, up', down', lastId', alive', Ha', Hs', waitRec', accepted')
  BY <1>1, <1>2, <1>4, <1>6
<1>8. 0 \in 0 .. Window + 1
  BY MqttAssumption
<1>9. Matched'
  BY <1>7, <1>8 DEF Matched
<1> QED BY <1>1, <1>4, <1>9 DEF Carried

LEMMA GetConnackCarries ==
    ASSUME SInv, Carried, GetConnack
    PROVE  Carried'
<1>1. /\ connected /\ conns \in Conn /\ down # <<>> /\ 1 \in DOMAIN down /\ down[1].type = "connack"
      /\ UNCHANGED <<conns, waitRec, acks, accepted>>
  BY ReadsFacts DEF GetConnack, brokerVars
<1>2. CASE Subscribes(conns, Tail(down))
  <2>1. PICK n \in 0 .. Window + 1 : InFlight(n, up, down, lastId, alive, Ha, Hs, waitRec, accepted)
    BY <1>1, CarriedFacts
  <2>2. n \in 0 .. Window
    BY <1>1, <2>1, MqttAssumption DEF InFlight, Greeted
  <2>3. /\ InFlight(n, up, Tail(down), lastId, alive, Ha, Hs, waitRec, accepted)
        /\ \A i \in DOMAIN Tail(down) : Tail(down)[i].type # "connack"
    BY <1>1, <2>1, CarriedFacts, FlightReads DEF IsAck
  <2> QED BY <1>1, <1>2, <2>2, <2>3, SubscribeCarries
<1>3. CASE Closed /\ UNCHANGED subacks
  BY <1>1, <1>3, ClosedCarries
<1> QED BY <1>2, <1>3 DEF GetConnack

\* Handlers go.
LEMMA HandlersGo ==
    ASSUME Handlers, UNCHANGED conns, acks' \subseteq acks, subacks' \subseteq subacks
    PROVE  Handlers'
BY FS_Subset DEF Handlers

LEMMA GetPubackCarries ==
    ASSUME SInv, Carried, GetPuback
    PROVE  Carried'
<1>1. /\ connected /\ conns \in Conn /\ down # <<>> /\ Head(down) = down[1] /\ down[1].type = "puback"
      /\ acks' = acks \ Fired(down[1].id) /\ down' = Tail(down)
      /\ UNCHANGED <<connected, alive, up, conns, lastId, waitRec, subacks, accepted>>
  BY ReadsFacts DEF GetPuback, Acknowledged, brokerVars
<1>2. PICK n \in 0 .. Window + 1 : InFlight(n, up, down, lastId, alive, Ha, Hs, waitRec, accepted)
  BY <1>1, CarriedFacts
<1>3. Handlers'
  BY <1>1, CarriedFacts, HandlersGo
<1>4. Ha' = Ha \ {h \in Ha : h.id = down[1].id} /\ Hs' = Hs
  BY <1>1 DEF Ha, Hs, Fired
<1>5. n - 1 \in 0 .. Window + 1 /\ InFlight(n - 1, up, Tail(down), lastId, alive, Ha', Hs', waitRec, accepted)
  BY <1>1, <1>2, <1>4, CarriedFacts, FlightTakes DEF IsAck
<1>6. InFlight(n - 1, up', down', lastId', alive', Ha', Hs', waitRec', accepted')
  BY <1>1, <1>5
<1>7. Matched'
  BY <1>5, <1>6 DEF Matched
<1> QED BY <1>1, <1>3, <1>7 DEF Carried

LEMMA GetSubackCarries ==
    ASSUME SInv, Carried, GetSuback
    PROVE  Carried'
<1>1. /\ connected /\ conns \in Conn /\ down # <<>> /\ Head(down) = down[1] /\ down[1].type = "suback"
      /\ subacks' = subacks \ {h \in subacks : h.id = down[1].id} /\ down' = Tail(down)
      /\ UNCHANGED <<connected, alive, up, conns, lastId, waitRec, acks, accepted>>
  BY ReadsFacts DEF GetSuback, brokerVars
<1>2. PICK n \in 0 .. Window + 1 : InFlight(n, up, down, lastId, alive, Ha, Hs, waitRec, accepted)
  BY <1>1, CarriedFacts
<1>3. Handlers'
  BY <1>1, CarriedFacts, HandlersGo
<1>4. Hs' = Hs \ {h \in Hs : h.id = down[1].id} /\ Ha' = Ha
  BY <1>1 DEF Ha, Hs
<1>5. n - 1 \in 0 .. Window + 1 /\ InFlight(n - 1, up, Tail(down), lastId, alive, Ha', Hs', waitRec, accepted)
  BY <1>1, <1>2, <1>4, CarriedFacts, FlightTakes DEF IsAck
<1>6. InFlight(n - 1, up', down', lastId', alive', Ha', Hs', waitRec', accepted')
  BY <1>1, <1>5
<1>7. Matched'
  BY <1>5, <1>6 DEF Matched
<1> QED BY <1>1, <1>3, <1>7 DEF Carried

\* A PUBREC is waited for.
LEMMA GetPubrecCarries ==
    ASSUME SInv, Carried, GetPubrec
    PROVE  Carried'
<1> DEFINE id == down[1].id
           p == [type |-> "pubrel", id |-> id]
<1>1. /\ connected /\ conns \in Conn /\ down # <<>> /\ Head(down) = down[1] /\ down[1].type = "pubrec"
      /\ 1 \in DOMAIN down /\ down[1] \in Down
      /\ UNCHANGED <<conns, lastId, subacks, accepted>>
  BY ReadsFacts DEF GetPubrec, brokerVars
<1>2. PICK n \in 0 .. Window + 1 : InFlight(n, up, down, lastId, alive, Ha, Hs, waitRec, accepted)
  BY <1>1, CarriedFacts
<1>3. id \in waitRec
  BY <1>1, <1>2 DEF InFlight, OwnDown
<1>4. CASE SendFails /\ UNCHANGED acks
  BY <1>1, <1>4, ClosedCarries DEF SendFails
<1>5. CASE Sent(p, Tail(down)) /\ Acknowledged(id) /\ waitRec' = waitRec \ {id}
  <2>1. acks' = acks \ Fired(id)
    BY <1>5 DEF Acknowledged
  <2>2. Handlers'
    BY <1>1, <2>1, CarriedFacts, HandlersGo
  <2>3. Ha' = Ha \ {h \in Ha : h.id = id} /\ Hs' = Hs
    BY <1>1, <2>1 DEF Ha, Hs, Fired
  <2>4. waitRec' \in {waitRec, waitRec \ {id}}
    BY <1>5
  <2>5. n - 1 \in 0 .. Window + 1 /\ InFlight(n - 1, up, Tail(down), lastId, alive, Ha', Hs', waitRec', accepted)
    BY <1>1, <1>2, <2>3, <2>4, CarriedFacts, FlightTakes DEF IsAck
  <2>6. p \in Up /\ ~ Wants(p)
    <3>1. id \in Id
      BY <1>1, DownFacts
    <3> QED BY <3>1, UpFacts DEF Wants
  <2>7. ~ alive => up = <<>>
    BY DEF Carried
  <2> HIDE DEF p
  <2> QED BY <1>1, <1>5, <2>2, <2>5, <2>6, <2>7, SendCarries
<1> QED BY <1>1, <1>3, <1>4, <1>5 DEF GetPubrec

LEMMA GetRequestCarries ==
    ASSUME SInv, Carried, GetRequest
    PROVE  Carried'
<1> DEFINE p == [type |-> "puback", req |-> down[1].req]
<1>1. /\ connected /\ conns \in Conn /\ down # <<>> /\ Head(down) = down[1] /\ down[1].type = "publish"
      /\ down[1] \in Down
      /\ UNCHANGED <<conns, lastId, waitRec, acks, subacks, accepted>>
  BY ReadsFacts DEF GetRequest, idVars, brokerVars
<1>2. PICK n \in 0 .. Window + 1 : InFlight(n, up, down, lastId, alive, Ha, Hs, waitRec, accepted)
  BY <1>1, CarriedFacts
<1>3. CASE SendFails
  BY <1>1, <1>3, ClosedCarries DEF SendFails
<1>4. CASE Sent(p, Tail(down))
  <2>1. InFlight(n, up, Tail(down), lastId, alive, Ha, Hs, waitRec, accepted)
    BY <1>1, <1>2, CarriedFacts, FlightReads DEF IsAck
  <2>2. Ha' = Ha /\ Hs' = Hs /\ waitRec' = waitRec
    BY <1>1 DEF Ha, Hs
  <2>3. Handlers'
    BY <1>1, CarriedFacts, HandlersGo
  <2>4. p \in Up /\ ~ Wants(p)
    <3>1. down[1].req \in Reqs
      BY <1>1, DownFacts
    <3> QED BY <3>1, UpFacts DEF Wants
  <2>5. ~ alive => up = <<>>
    BY DEF Carried
  <2>6. InFlight(n, up, Tail(down), lastId, alive, Ha', Hs', waitRec', accepted)
    BY <2>1, <2>2
  <2> HIDE DEF p
  <2> QED BY <1>1, <1>4, <2>3, <2>4, <2>5, <2>6, SendCarries
<1> QED BY <1>1, <1>3, <1>4 DEF GetRequest

LEMMA BrokerCarries ==
    ASSUME SInv, Carried, BrokerReads \/ Break \/ \E r \in Reqs : Ask(r)
    PROVE  Carried'
<1>1. alive /\ UNCHANGED <<connected, conns, lastId, waitRec, acks, subacks>>
  BY DEF BrokerReads, Break, Ask, idVars
<1>2. connected
  BY <1>1, SInvFacts DEF NetOK
<1>3. PICK n \in 0 .. Window + 1 : InFlight(n, up, down, lastId, alive, Ha, Hs, waitRec, accepted)
  BY <1>2, CarriedFacts
<1>4. InFlight(n, up, down, lastId, TRUE, Ha, Hs, waitRec, accepted)
  <2>1. alive = TRUE
    BY <1>1, <1>2, CarriedFacts
  <2> QED BY <1>3, <2>1
<1>5. Handlers' /\ Ha' = Ha /\ Hs' = Hs
  BY <1>1, <1>2, CarriedFacts, HandlersGo DEF Ha, Hs
<1>6. CASE BrokerReads
  <2>1. /\ up # <<>> /\ Head(up) = up[1] /\ up' = Tail(up) /\ UNCHANGED alive
        /\ accepted' = IF up[1].type = "publish" THEN accepted \cup {up[1].msg} ELSE accepted
    BY <1>2, <1>6, CarriedFacts, TailFacts DEF BrokerReads
  <2>2. PICK ok \in BOOLEAN : down' = down \o Answered(up[1], ok)
    BY <1>6, <2>1 DEF BrokerReads
  <2>3. InFlight(n, Tail(up), down \o Answered(up[1], ok), lastId, TRUE, Ha, Hs, waitRec, accepted')
    BY <1>2, <1>4, <2>1, CarriedFacts, FlightPasses
  <2>4. InFlight(n, up', down', lastId', alive', Ha', Hs', waitRec', accepted')
    BY <1>1, <1>2, <1>5, <2>1, <2>2, <2>3, CarriedFacts
  <2>5. Matched'
    BY <2>4 DEF Matched
  <2> QED BY <1>1, <1>5, <2>1, <2>5 DEF Carried
<1>7. CASE Break
  <2>1. alive' = FALSE /\ up' = <<>> /\ UNCHANGED accepted
    BY <1>7 DEF Break, brokerVars
  <2>2. PICK k \in 0 .. Len(down) : down' = SubSeq(down, 1, k)
    BY <1>7 DEF Break
  <2>3. InFlight(n, <<>>, SubSeq(down, 1, k), lastId, FALSE, Ha, Hs, waitRec, accepted)
    BY <1>2, <1>4, CarriedFacts, FlightBreaks
  <2>4. InFlight(n, up', down', lastId', alive', Ha', Hs', waitRec', accepted')
    BY <1>1, <1>5, <2>1, <2>2, <2>3
  <2>5. Matched'
    BY <2>4 DEF Matched
  <2> QED BY <1>5, <2>1, <2>5 DEF Carried
<1>8. CASE \E r \in Reqs : Ask(r)
  <2>1. PICK r \in Reqs : Ask(r)
    BY <1>8
  <2> DEFINE p == [type |-> "publish", req |-> r, dup |-> asked[r] # 0]
  <2>2. down' = Append(down, p) /\ UNCHANGED <<alive, up, accepted>>
    BY <2>1 DEF Ask
  <2>3. p \in Down /\ p.type = "publish"
    BY DEF Down
  <2> HIDE DEF p
  <2>4. InFlight(n, up, Append(down, p), lastId, alive, Ha, Hs, waitRec, accepted)
    BY <1>2, <1>3, <2>3, CarriedFacts, FlightAsks
  <2>5. InFlight(n, up', down', lastId', alive', Ha', Hs', waitRec', accepted')
    BY <1>1, <1>5, <2>2, <2>4
  <2>6. Matched'
    BY <2>5 DEF Matched
  <2> QED BY <1>1, <1>5, <2>2, <2>6 DEF Carried
<1> QED BY <1>6, <1>7, <1>8

LEMMA StepCarried == SInv /\ Carried /\ [Next]_vars => Carried'
<1> SUFFICES ASSUME SInv, Carried, [Next]_vars PROVE Carried'
  OBVIOUS
<1>1. CASE Decide \/ ConnectFails \/ Registered \/ Stop \/ GetClosed
  <2>1. UNCHANGED <<conns, lastId, waitRec, acks, subacks, accepted>> /\ (Closed \/ UNCHANGED netVars)
    BY <1>1 DEF Decide, ConnectFails, Registered, Stop, GetClosed, idVars, brokerVars
  <2> QED BY <2>1, QuietCarries, ClosedCarries DEF netVars
<1>2. CASE Connected
  BY <1>2, ConnectedCarries
<1>3. CASE GetConnack
  BY <1>3, GetConnackCarries
<1>4. CASE GetPuback
  BY <1>4, GetPubackCarries
<1>5. CASE GetPubrec
  BY <1>5, GetPubrecCarries
<1>6. CASE GetSuback
  BY <1>6, GetSubackCarries
<1>7. CASE GetRequest
  BY <1>7, GetRequestCarries
<1>8. CASE \E m \in Msgs : Offer(m) \/ Republish(m)
  BY <1>8, OfferedCarries, PublishCarries DEF Offer, Republish, brokerVars
<1>9. CASE \E c \in Conn : Resubscribe(c)
  BY <1>9, ResubscribeCarries
<1>10. CASE \E i \in DOMAIN jobs : Run(i) \/ Refuse(i) \/ Raise(i)
  <2>1. UNCHANGED <<connected, alive, up, down, conns, lastId, waitRec, acks, subacks, accepted>>
    BY <1>10 DEF Run, Refuse, Raise, netVars, idVars, brokerVars
  <2> QED BY <2>1, QuietCarries
<1>11. ASSUME NEW i \in DOMAIN jobs, Answer(i)
       PROVE  Carried'
  <2>1. ReplyTo[jobs[i].req] \in Msgs
    <3>1. jobs[i] \in Job
      BY SInvFacts, ElementOfSeq, LenProperties DEF RestOK
    <3> QED BY <3>1, MqttAssumption DEF Job
  <2>2. Offered(ReplyTo[jobs[i].req]) /\ UNCHANGED <<conns, subacks, accepted>>
    BY <1>11 DEF Answer, brokerVars
  <2> QED BY <2>1, <2>2, OfferedCarries
<1>12. CASE BrokerReads \/ Break \/ \E r \in Reqs : Ask(r)
  BY <1>12, BrokerCarries
<1>13. CASE UNCHANGED vars
  BY <1>13, QuietCarries DEF vars, netVars, idVars, brokerVars
<1> QED BY <1>1, <1>2, <1>3, <1>4, <1>5, <1>6, <1>7, <1>8, <1>9, <1>10, <1>11, <1>12, <1>13
        DEF Next, ClientReads

LEMMA InitCarried == Init => Carried
BY FS_EmptySet DEF Init, Carried, Handlers

\* What an acknowledgement marks.
LEMMA OwnAckStep ==
    ASSUME IInv, [Next]_vars, ~ UNCHANGED vars, NEW h \in acks \ acks', h.conn = conns
    PROVE  h.msg \in accepted
<1>1. CASE GetPuback \/ GetPubrec
  <2>1. /\ connected /\ 1 \in DOMAIN down /\ down[1].type \in {"puback", "pubrec"} /\ Head(down) = down[1]
    BY <1>1, ReadsFacts DEF GetPuback, GetPubrec, IInv
  <2>2. h \in Ha /\ h.id = down[1].id
    BY <1>1, <2>1 DEF GetPuback, GetPubrec, Acknowledged, Fired, Ha
  <2>3. OwnDown(down[1], Ha, Hs, waitRec, accepted)
    BY <2>1, CarriedFacts DEF IInv, InFlight
  <2> QED BY <2>1, <2>2, <2>3 DEF OwnDown
<1>2. CASE acks \subseteq acks'
  BY <1>2
<1>3. CASE Decide \/ ConnectFails \/ Connected \/ GetConnack \/ GetSuback \/ GetRequest \/ GetClosed \/ Registered
           \/ Stop \/ BrokerReads \/ Break \/ \E r \in Reqs : Ask(r)
  BY <1>2, <1>3 DEF Decide, ConnectFails, Connected, GetConnack, GetSuback, GetRequest, GetClosed, Registered,
                    Stop, BrokerReads, Break, Ask, idVars
<1>4. CASE \/ \E m \in Msgs : Offer(m) \/ Republish(m)
           \/ \E c \in Conn : Resubscribe(c)
           \/ \E i \in DOMAIN jobs : Run(i) \/ Refuse(i) \/ Answer(i) \/ Raise(i)
  BY <1>2, <1>4 DEF Offer, Republish, Offered, Published, Resubscribe, Run, Refuse, Answer, Raise, idVars
<1> QED BY <1>1, <1>3, <1>4 DEF Next, ClientReads

(* An acknowledgement marks no message of its connection but the one it is  *)
(* for, whatever number of ids has been used up: the ids that are waited    *)
(* for are the latest ones, acknowledged in the order they were given out,  *)
(* so that with fewer than IdSpace of them none is given out again.         *)
THEOREM AckOwn == Spec => OwnAck
<1>1. Init => IInv
  BY InitSInv, InitCarried DEF IInv
<1>2. IInv /\ [Next]_vars => IInv'
  BY StepSInv, StepCarried DEF IInv
<1>3. IInv /\ [Next]_vars =>
        [\A h \in acks \ acks' : (h.conn = conns /\ pub'[h.msg] = "done") => h.msg \in accepted]_vars
  BY OwnAckStep
<1> QED BY <1>1, <1>2, <1>3, PTL DEF Spec, OwnAck
=============================================================================
