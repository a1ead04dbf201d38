--------------------------- MODULE KafkaProducer ---------------------------
(***************************************************************************)
(* The Kafka producer of an APP: lualib/kafka/producer.lua with its ring   *)
(* buffer, sendbuffer.lua, client.lua and broker.lua.                      *)
(*                                                                         *)
(* An APP's messages go to the ring; one coroutine, flush_co, moves them   *)
(* to a buffer per partition and sends the buffers to the brokers, again   *)
(* where an answer asks for it or does not come, and gives up after        *)
(* max_retry rounds.  `at` is where flush_co stands.  Other coroutines run *)
(* only where it waits (Waiting).                                          *)
(*                                                                         *)
(* One topic, keys nil (as app/pub_kafka sends), so that a partition is    *)
(* any.  Messages are numbered in the order the APP sends them.  Sizes in  *)
(* bytes are left out: a buffer is full when it holds BatchNum messages,   *)
(* and a broker's share of a round is one request.  Ids of requests match  *)
(* answers to them (socketchannel does) and are left out.                  *)
(***************************************************************************)
EXTENDS KafkaRing, FiniteSets, SequencesExt

CONSTANTS Partition, Broker, NoBroker, Unasked, Untold,
          Layouts,    \* what metadata may say: partition -> leader or NoBroker
          BatchNum,   \* messages that fill a buffer
          MaxRetry,
          Batch,      \* opts.batch: wake flush_co for NeedSend messages only
          NeedSend,
          Listed      \* do brokers answer only the codes of errors.lua?

ASSUME ProducerAssumption ==
    /\ 0 \in Partition
    /\ Layouts \subseteq [Partition -> Broker \cup {NoBroker}]
    /\ BatchNum \in Nat \ {0} /\ MaxRetry \in Nat \ {0} /\ NeedSend \in Nat
    /\ IsFiniteSet(Partition)
    /\ IsFiniteSet(Entry) /\ Entry = 1 .. Cardinality(Entry) /\ Nil \notin Entry

Codes == {"none", "retry", "drop"} \cup (IF Listed THEN {} ELSE {"unlisted"})

VARIABLES
    at,         \* where flush_co stands
    flushing,
    hand,       \* the message popped and not yet in a buffer, or Nil
    try,        \* the round of _batch_send
    sb,         \* sendbuffer: the messages per partition
    queue_num,  \* sendbuffer: the partitions with messages, as counted
    todo,       \* <<broker, partition>>: the requests of this round to send
    req,        \* the partitions of the request in flight
    meta,       \* topic_partitions: Unasked, Untold or a layout
    confFetch,  \* on_conf's own fetch_metadata is on its way
    accepted,   \* messages send returned true for
    acked, dropped,
    log         \* the brokers' logs, repetitions left out

flushVars == <<at, flushing, hand, try, sb, queue_num, todo, req>>
vars == <<ringVars, flushVars, meta, confFetch, accepted, acked, dropped, log>>

Waiting == {"asleep", "fetch", "refetch", "answer", "refresh", "dead"}

TypeOK ==
    /\ RingTypeOK
    /\ at \in Waiting \cup {"loop", "woken", "pop", "choose", "batch", "send"}
    /\ flushing \in BOOLEAN
    /\ hand \in Entry \cup {Nil}
    /\ try \in 0 .. MaxRetry
    /\ sb \in [Partition -> BoundedSeq(Entry, BatchNum)]
    /\ queue_num \in 0 .. Cardinality(Partition)
    /\ todo \subseteq (Broker \X Partition)
    /\ req \subseteq Partition
    /\ meta \in {Unasked, Untold} \cup Layouts
    /\ confFetch \in BOOLEAN
    /\ accepted \in 0 .. Cardinality(Entry)
    /\ acked \subseteq Entry /\ dropped \subseteq Entry
    /\ \A p \in Partition : Range(log[p]) \subseteq Entry

Init ==
    /\ RingInit
    /\ at = "loop" /\ flushing = FALSE /\ hand = Nil /\ try = 0
    /\ sb = [p \in Partition |-> <<>>] /\ queue_num = 0
    /\ todo = {} /\ req = {}
    /\ meta = Unasked /\ confFetch = TRUE
    /\ accepted = 0 /\ acked = {} /\ dropped = {}
    /\ log = [p \in Partition |-> <<>>]

-----------------------------------------------------------------------------
\* The partitions sb:loop visits.
Used == {p \in Partition : sb[p] # <<>>}

\* _metadata_cache finds the topic.
Cached == meta \in Layouts

\* What fetch_metadata leaves, whether a broker answers or none does.
Fetched == {meta, Untold} \cup Layouts

\* What refresh leaves: it asks for the topics it has, if any.
Refreshed == IF meta = Unasked THEN {meta} ELSE Fetched

\* <<broker, partition>> of the partitions P with a leader, by layout m.
Assigned(m, P) == IF m \in Layouts
                  THEN {<<m[p], p>> : p \in {q \in P : m[q] # NoBroker}}
                  ELSE {}

\* Wrong: a message goes before the ones that wait.
SbAddFront(p, m) ==
    /\ sb' = [sb EXCEPT ![p] = <<m>> \o @]
    /\ queue_num' = IF sb[p] = <<>> THEN queue_num + 1 ELSE queue_num
\* sb:add
SbAdd(p, m) ==
    /\ sb' = [sb EXCEPT ![p] = Append(@, m)]
    /\ queue_num' = IF sb[p] = <<>> THEN queue_num + 1 ELSE queue_num

Overflow(p) == Len(sb[p]) + 1 >= BatchNum

\* Wrong: the buffers of all partitions are cleared.
SbClearAll(P) ==
    /\ sb' = [p \in Partition |-> <<>>]
    /\ queue_num' = 0
\* sb:clear for each partition of P
SbClear(P) ==
    /\ sb' = [p \in Partition |-> IF p \in P THEN <<>> ELSE sb[p]]
    /\ queue_num' = IF queue_num >= Cardinality(P)
                    THEN queue_num - Cardinality(P) ELSE 0

Messages(P) == UNION {Range(sb[p]) : p \in P}

\* A broker appends the buffers of P; one it has already is not shown twice.
Logged(P) ==
    log' = [p \in Partition |-> IF p \in P /\ ~ Range(sb[p]) \subseteq Range(log[p])
                                THEN log[p] \o sb[p] ELSE log[p]]

\* producer:flush wakes flush_co unless it is flushing; it runs at once.
Wakes == ~ flushing /\ (~ Batch \/ num' >= s * NeedSend)

-----------------------------------------------------------------------------
\* producer:send of the next message, while the ring has room
Send ==
    /\ at \in Waiting
    /\ accepted < Cardinality(Entry)
    /\ Add(accepted + 1)
    /\ accepted' = accepted + 1
    /\ at' = IF Wakes /\ at = "asleep" THEN "woken" ELSE at
    /\ UNCHANGED <<flushing, hand, try, sb, queue_num, todo, req, meta, confFetch,
                   acked, dropped, log>>

\* on_conf's fetch_metadata ends, at any time.
ConfFetched ==
    /\ at \in Waiting
    /\ confFetch
    /\ confFetch' = FALSE
    /\ meta' \in (IF Cached THEN {meta} \cup Layouts ELSE Fetched)
    /\ UNCHANGED <<ringVars, flushVars, accepted, acked, dropped, log>>

\* _flush: nothing to do, sleep
Idle ==
    /\ at = "loop"
    /\ Empty
    /\ at' = "asleep"
    /\ flushing' = FALSE
    /\ UNCHANGED <<ringVars, hand, try, sb, queue_num, todo, req, meta, confFetch,
                   accepted, acked, dropped, log>>

MarkFlushing == flushing' = TRUE

\* _flush: the ring has messages, or the sleep ended by itself or by flush
Start ==
    /\ at \in {"asleep", "woken"} \/ (at = "loop" /\ ~ Empty)
    /\ at' = "pop"
    /\ MarkFlushing
    /\ UNCHANGED <<ringVars, hand, try, sb, queue_num, todo, req, meta, confFetch,
                   accepted, acked, dropped, log>>

\* _flush: one message leaves the ring; its partition may need metadata
PopOne ==
    /\ at = "pop"
    /\ Pop
    /\ hand' = queue[head]
    /\ at' = IF Cached THEN "choose" ELSE "fetch"
    /\ UNCHANGED <<flushing, try, sb, queue_num, todo, req, meta, confFetch,
                   accepted, acked, dropped, log>>

\* choose_partition: the metadata came, or no broker gave it
FetchEnds ==
    /\ at = "fetch"
    /\ meta' \in Fetched
    /\ at' = "choose"
    /\ UNCHANGED <<ringVars, flushing, hand, try, sb, queue_num, todo, req, confFetch,
                   accepted, acked, dropped, log>>

\* choose_partition: any partition, the first where none is known; sb:add
Choose ==
    /\ at = "choose"
    /\ \E p \in (IF Cached THEN Partition ELSE {0}) :
          /\ SbAdd(p, hand)
          /\ at' = IF Overflow(p) THEN "batch" ELSE "pop"
          /\ try' = IF Overflow(p) THEN 1 ELSE 0
    /\ hand' = Nil
    /\ UNCHANGED <<ringVars, flushing, todo, req, meta, confFetch,
                   accepted, acked, dropped, log>>

\* _flush: the ring is drained
Drained ==
    /\ at = "pop"
    /\ Empty
    /\ at' = "batch"
    /\ try' = 1
    /\ UNCHANGED <<ringVars, flushing, hand, sb, queue_num, todo, req, meta, confFetch,
                   accepted, acked, dropped, log>>

-----------------------------------------------------------------------------
\* sb:aggregator with the metadata there, or nothing to send
Aggregate ==
    /\ at = "batch"
    /\ Cached \/ Used = {}
    /\ todo' = Assigned(meta, Used)
    /\ at' = "send"
    /\ UNCHANGED <<ringVars, flushing, hand, try, sb, queue_num, req, meta, confFetch,
                   accepted, acked, dropped, log>>

\* sb:aggregator: choose_broker has to fetch metadata
AggregateAsks ==
    /\ at = "batch"
    /\ ~ Cached /\ Used # {}
    /\ at' = "refetch"
    /\ UNCHANGED <<ringVars, flushing, hand, try, sb, queue_num, todo, req, meta, confFetch,
                   accepted, acked, dropped, log>>

\* sb:aggregator: each partition asks until one is answered; those before it
\* are left for the next round
RefetchEnds ==
    /\ at = "refetch"
    /\ meta' \in Fetched
    /\ \E P \in SUBSET Used :
          /\ P # {} <=> meta' \in Layouts
          /\ todo' = Assigned(meta', P)
    /\ at' = "send"
    /\ UNCHANGED <<ringVars, flushing, hand, try, sb, queue_num, req, confFetch,
                   accepted, acked, dropped, log>>

\* _send: one broker's partitions
SendOne ==
    /\ at = "send"
    /\ \E b \in {t[1] : t \in todo} :
          LET mine == {t \in todo : t[1] = b} IN
          /\ req' = {t[2] : t \in mine}
          /\ todo' = todo \ mine
    /\ at' = "answer"
    /\ UNCHANGED <<ringVars, flushing, hand, try, sb, queue_num, meta, confFetch,
                   accepted, acked, dropped, log>>

\* The partitions _send visits in an answer: all, or some until one with a
\* code that errors.lua does not list, which has no text and log.error raises.
Visited(code) ==
    LET bad == {p \in req : code[p] = "unlisted"}
    IN IF bad = {} THEN {req} ELSE SUBSET (req \ bad)

\* _send: the answer, with a code per partition
Answered ==
    /\ at = "answer"
    /\ \E code \in [req -> Codes] : \E seen \in Visited(code) :
          LET ok == {p \in seen : code[p] = "none"}
              done == {p \in seen : code[p] # "retry"}
          IN /\ Logged({p \in req : code[p] = "none"})
             /\ SbClear(done)
             /\ acked' = acked \cup Messages(ok)
             /\ dropped' = dropped \cup Messages(done \ ok)
             /\ at' = IF seen = req THEN "send" ELSE "dead"
    /\ req' = {}
    /\ UNCHANGED <<ringVars, flushing, hand, try, todo, meta, confFetch, accepted>>

\* _send: the connection failed, before or after the broker took it
Unanswered ==
    /\ at = "answer"
    /\ \E P \in SUBSET req : Logged(P)
    /\ req' = {}
    /\ at' = "send"
    /\ UNCHANGED <<ringVars, flushing, hand, try, sb, queue_num, todo, meta, confFetch,
                   accepted, acked, dropped>>

\* _batch_send: every buffer was sent
AllSent ==
    /\ at = "send" /\ todo = {}
    /\ queue_num = 0
    /\ at' = "loop" /\ try' = 0
    /\ UNCHANGED <<ringVars, flushing, hand, sb, queue_num, todo, req, meta, confFetch,
                   accepted, acked, dropped, log>>

\* _batch_send: another round, after refresh and a sleep
Retry ==
    /\ at = "send" /\ todo = {}
    /\ queue_num # 0 /\ try # MaxRetry
    /\ at' = "refresh"
    /\ UNCHANGED <<ringVars, flushing, hand, try, sb, queue_num, todo, req, meta, confFetch,
                   accepted, acked, dropped, log>>

\* Wrong: rounds are not counted.
SameTry == try
NextTry == try + 1

RefreshEnds ==
    /\ at = "refresh"
    /\ meta' \in Refreshed
    /\ at' = "batch" /\ try' = NextTry
    /\ UNCHANGED <<ringVars, flushing, hand, sb, queue_num, todo, req, confFetch,
                   accepted, acked, dropped, log>>

\* _batch_send: the last round was no better; what is left is dropped
GiveUp ==
    /\ at = "send" /\ todo = {}
    /\ queue_num # 0 /\ try = MaxRetry
    /\ SbClear(Used)
    /\ dropped' = dropped \cup Messages(Used)
    /\ at' = "loop" /\ try' = 0
    /\ UNCHANGED <<ringVars, flushing, hand, todo, req, meta, confFetch, accepted, acked, log>>

-----------------------------------------------------------------------------
\* flush_co and what it waits for
Flush == \/ Idle \/ Start \/ PopOne \/ FetchEnds \/ Choose \/ Drained
         \/ Aggregate \/ AggregateAsks \/ RefetchEnds
         \/ SendOne \/ Answered \/ Unanswered
         \/ AllSent \/ Retry \/ RefreshEnds \/ GiveUp

Next == Send \/ ConfFetched \/ Flush

Spec == Init /\ [][Next]_vars

\* A broker answers or its connection fails, and sleeps end.
FairSpec == Spec /\ WF_vars(Flush)

-----------------------------------------------------------------------------
\* Where the producer holds message m.
InRing(m) == m \in Range(Content)
InHand(m) == hand = m
Buffers(m) == {p \in Partition : m \in Range(sb[p])}

\* A message send returned true for is in exactly one place of the producer
\* until it is acknowledged or dropped, and acknowledged only if the broker
\* has it: rounds, overflows and partial answers neither lose nor double one.
Held ==
    \A m \in 1 .. accepted :
       LET places == (IF InRing(m) THEN 1 ELSE 0) + (IF InHand(m) THEN 1 ELSE 0)
                     + Cardinality(Buffers(m)) + (IF m \in acked THEN 1 ELSE 0)
                     + (IF m \in dropped THEN 1 ELSE 0)
       IN /\ places = 1
          /\ m \in acked => \E p \in Partition : m \in Range(log[p])

\* A partition's log has the messages in the order the APP sent them, also
\* where a round is repeated after a lost answer.
InOrder ==
    \A p \in Partition : \A i, j \in DOMAIN log[p] : i < j => log[p][i] < log[p][j]

\* sb:done, which ends the rounds, is right: queue_num counts the partitions
\* that hold messages.
DoneIsDone == queue_num = Cardinality(Used)

\* producer:flush wakes flush_co only from its own sleep, never from a wait
\* for a broker, which the wakeup would end without an answer.
WakesSleep == flushing \/ at \in {"loop", "asleep", "woken"}

\* The producer's state at any moment: well-formed, no message lost or
\* doubled, the count right that ends the rounds, and no wait cut short.
ProducerInv == TypeOK /\ Held /\ DoneIsDone /\ WakesSleep

\* Every message that was accepted is acknowledged or dropped in the end: a
\* round ends, and the last one gives up; unless flush_co died.
Settled == \A m \in Entry :
              m <= accepted ~> m \in acked \cup dropped \/ at = "dead"

\* producer.lua:104: "only 3, 5, 6 can retry", and the messages of any other
\* code are dropped; in any case the producer goes on.
SettledAlways == \A m \in Entry : m <= accepted ~> m \in acked \cup dropped
=============================================================================
