---------------------------- MODULE KafkaProofs ----------------------------
(***************************************************************************)
(* What the Kafka producer keeps, for every capacity of the ring and of    *)
(* the buffers, any partitions and brokers and any number of rounds: the   *)
(* ring is a bounded FIFO queue, by itself (KafkaRing) and in use; the     *)
(* producer holds each message in one place, wakes flush_co only from its  *)
(* own sleep and counts its buffers right; and a partition's log is in the *)
(* order of the sends (KafkaProducer).                                     *)
(***************************************************************************)
EXTENDS KafkaProducer, SequencesExt, SequenceTheorems, FiniteSetTheorems, TLAPS

-----------------------------------------------------------------------------
(* Facts about the operators on sequences.                                  *)

\* Append adds one element at the end.
LEMMA AppendFacts ==
    ASSUME NEW S, NEW q \in Seq(S), NEW e \in S
    PROVE  /\ Append(q, e) \in Seq(S) /\ Len(Append(q, e)) = Len(q) + 1
           /\ DOMAIN Append(q, e) = DOMAIN q \cup {Len(q) + 1}
           /\ Len(q) + 1 \notin DOMAIN q
           /\ \A i \in DOMAIN q : Append(q, e)[i] = q[i]
           /\ Append(q, e)[Len(q) + 1] = e
<1>1. Len(q) \in Nat /\ DOMAIN q = 1 .. Len(q)
  BY LenProperties
<1>2. Append(q, e) \in Seq(S) /\ Len(Append(q, e)) = Len(q) + 1
  OBVIOUS
<1>3. DOMAIN Append(q, e) = 1 .. Len(q) + 1
  BY <1>2, LenProperties
<1> QED BY <1>1, <1>2, <1>3

\* Tail leaves out the first element.
LEMMA TailFacts ==
    ASSUME NEW S, NEW q \in Seq(S), q # <<>>
    PROVE  /\ Tail(q) \in Seq(S) /\ Len(q) \in Nat /\ Len(q) > 0
           /\ DOMAIN q = 1 .. Len(q) /\ DOMAIN Tail(q) = 1 .. Len(q) - 1
           /\ \A i \in DOMAIN Tail(q) : i + 1 \in DOMAIN q /\ Tail(q)[i] = q[i + 1]
           /\ Head(q) = q[1] /\ 1 \in DOMAIN q /\ q[1] \in S
<1>1. Len(q) \in Nat /\ DOMAIN q = 1 .. Len(q)
  BY LenProperties
<1>2. Len(q) > 0
  BY <1>1, EmptySeq
<1>3. /\ Tail(q) \in Seq(S) /\ Len(Tail(q)) = Len(q) - 1
      /\ \A i \in 1 .. Len(Tail(q)) : Tail(q)[i] = q[i + 1]
  BY HeadTailProperties
<1>4. DOMAIN Tail(q) = 1 .. Len(q) - 1
  BY <1>3, LenProperties
<1>5. Head(q) = q[1] /\ 1 \in DOMAIN q
  BY <1>1, <1>2
<1>6. q[1] \in S
  BY <1>5, <1>1, ElementOfSeq
<1> QED BY <1>1, <1>2, <1>3, <1>4, <1>5, <1>6

\* What the elements are after Append and after \o.
LEMMA AppendRange ==
    ASSUME NEW S, NEW q \in Seq(S), NEW e \in S
    PROVE  Range(Append(q, e)) = Range(q) \cup {e}
BY AppendFacts DEF Range

LEMMA ConcatRange ==
    ASSUME NEW S, NEW q \in Seq(S), NEW r \in Seq(S)
    PROVE  Range(q \o r) = Range(q) \cup Range(r)
<1>1. /\ q \o r \in Seq(S) /\ Len(q \o r) = Len(q) + Len(r)
      /\ \A i \in 1 .. Len(q) + Len(r) : (q \o r)[i] = IF i <= Len(q) THEN q[i] ELSE r[i - Len(q)]
  BY ConcatProperties
<1>2. /\ Len(q) \in Nat /\ Len(r) \in Nat
      /\ DOMAIN q = 1 .. Len(q) /\ DOMAIN r = 1 .. Len(r)
      /\ DOMAIN (q \o r) = 1 .. Len(q) + Len(r)
  BY <1>1, LenProperties
<1>3. ASSUME NEW i \in DOMAIN (q \o r) PROVE (q \o r)[i] \in Range(q) \cup Range(r)
  <2>1. CASE i <= Len(q)
    BY <1>1, <1>2, <2>1 DEF Range
  <2>2. CASE ~ (i <= Len(q))
    <3>1. i - Len(q) \in DOMAIN r /\ (q \o r)[i] = r[i - Len(q)]
      BY <1>1, <1>2, <2>2
    <3> QED BY <3>1 DEF Range
  <2> QED BY <2>1, <2>2
<1>4. ASSUME NEW i \in DOMAIN q PROVE q[i] \in Range(q \o r)
  <2>1. i \in DOMAIN (q \o r) /\ (q \o r)[i] = q[i]
    BY <1>1, <1>2
  <2> QED BY <2>1 DEF Range
<1>5. ASSUME NEW i \in DOMAIN r PROVE r[i] \in Range(q \o r)
  <2>1. Len(q) + i \in DOMAIN (q \o r) /\ ~ (Len(q) + i <= Len(q)) /\ Len(q) + i - Len(q) = i
    BY <1>2
  <2>2. (q \o r)[Len(q) + i] = r[i]
    BY <1>1, <1>2, <2>1
  <2> QED BY <2>1, <2>2 DEF Range
<1> QED BY <1>3, <1>4, <1>5 DEF Range

(* The ring.                                                                *)
\* Stepping by an entry wraps at the last cell, and only there.
LEMMA AfterWraps ==
    ASSUME NEW c \in Starts
    PROVE  /\ After(c) \in Starts
           /\ After(c) = IF c + s < Cells THEN c + s ELSE c + s - Cells
<1>1. PICK i \in 0 .. MaxNum - 1 : c = 1 + s * i
  BY DEF Starts
<1>2. /\ MaxNum \in Nat \ {0} /\ Cells = 3 * MaxNum /\ c \in Nat /\ c + s < 2 * Cells
      /\ c < Cells
  BY <1>1, MaxNumAssumption DEF s, Cells
<1>3. CASE i < MaxNum - 1
  <2>1. c + s < Cells /\ c + s \in Nat
    BY <1>1, <1>2, <1>3 DEF s
  <2>2. After(c) = c + s
    BY <2>1, <1>2 DEF After, s
  <2>3. c + s = 1 + s * (i + 1) /\ i + 1 \in 0 .. MaxNum - 1
    BY <1>1, <1>2, <1>3 DEF s
  <2> QED BY <2>1, <2>2, <2>3 DEF Starts
<1>4. CASE i = MaxNum - 1
  <2>1. c + s = Cells + 1
    BY <1>1, <1>2, <1>4 DEF s
  <2>2. (Cells + 1) % Cells = 1
    BY <1>2
  <2>3. After(c) = 1
    BY <2>1, <2>2 DEF After
  <2>4. 1 \in Starts
    <3>1. 1 = 1 + s * 0 /\ 0 \in 0 .. MaxNum - 1
      BY MaxNumAssumption DEF s
    <3> QED BY <3>1 DEF Starts
  <2> QED BY <1>2, <2>1, <2>3, <2>4 DEF s
<1> QED BY <1>1, <1>2, <1>3, <1>4

\* The cell of the i-th entry is one an entry starts in ...
LEMMA NthStarts ==
    ASSUME head \in Starts, NEW i \in 1 .. MaxNum
    PROVE  Nth(i) \in Starts
<1>1. PICK h \in 0 .. MaxNum - 1 : head = 1 + s * h
  BY DEF Starts
<1>2. CASE h + i - 1 < MaxNum
  <2>1. h + i - 1 \in 0 .. MaxNum - 1 /\ Nth(i) = 1 + s * (h + i - 1)
    BY <1>1, <1>2, MaxNumAssumption DEF Nth, s, Cells
  <2> QED BY <2>1 DEF Starts
<1>3. CASE h + i - 1 >= MaxNum
  <2>1. /\ h + i - 1 - MaxNum \in 0 .. MaxNum - 1
        /\ Nth(i) = 1 + s * (h + i - 1 - MaxNum)
    BY <1>1, <1>3, MaxNumAssumption DEF Nth, s, Cells
  <2> QED BY <2>1 DEF Starts
<1> QED BY <1>1, <1>2, <1>3, MaxNumAssumption

\* ... and no two entries share one.
LEMMA NthInjective ==
    ASSUME head \in Starts, NEW i \in 1 .. MaxNum, NEW j \in 1 .. MaxNum, i # j
    PROVE  Nth(i) # Nth(j)
<1>1. PICK h \in 0 .. MaxNum - 1 : head = 1 + s * h
  BY DEF Starts
<1> QED BY <1>1, MaxNumAssumption DEF Nth, s, Cells

-----------------------------------------------------------------------------
\* The i-th entry after a pop is the one that was (i+1)-th.
LEMMA NthShifts ==
    ASSUME head \in Starts, head' = After(head), NEW i \in 1 .. MaxNum - 1
    PROVE  Nth(i)' = Nth(i + 1)
<1>1. PICK h \in 0 .. MaxNum - 1 : head = 1 + s * h
  BY DEF Starts
<1>2. head' = IF head + s < Cells THEN head + s ELSE head + s - Cells
  BY AfterWraps
<1> QED BY <1>1, <1>2, MaxNumAssumption DEF Nth, s, Cells

-----------------------------------------------------------------------------
\* tail is the cell after the last entry, and the cells of entries hold
\* entries: the first is what keeps Add from overwriting one, the second
\* what keeps Pop from returning nil.
RingInv ==
    /\ RingTypeOK
    /\ tail = IF head + num < Cells THEN head + num ELSE head + num - Cells
    /\ \A i \in 1 .. num \div s : queue[Nth(i)] \in Entry

\* In RingInv: k entries are in, and the next goes to the cell after them.
LEMMA Shape ==
    ASSUME RingInv
    PROVE  /\ MaxNum \in Nat \ {0}
           /\ num \div s \in 0 .. MaxNum
           /\ num = s * (num \div s)
           /\ tail = Nth(num \div s + 1)
           /\ Content \in Seq(Entry)
           /\ Len(Content) = num \div s
<1>1. PICK k \in 0 .. MaxNum : num = s * k
  BY DEF RingInv, RingTypeOK
<1>2. MaxNum \in Nat \ {0} /\ num \div s = k
  BY <1>1, MaxNumAssumption DEF s
<1>3. tail = Nth(k + 1)
  <2>1. head \in Int
    BY MaxNumAssumption DEF RingInv, RingTypeOK, Starts, s
  <2> QED BY <1>1, <1>2, <2>1 DEF RingInv, Nth, Cells, s
<1>4. Content \in Seq(Entry) /\ Len(Content) = k
  <2>1. \A i \in 1 .. k : queue[Nth(i)] \in Entry
    BY <1>2 DEF RingInv
  <2>2. Content = [i \in 1 .. k |-> queue[Nth(i)]]
    BY <1>2 DEF Content
  <2> QED BY <1>2, <2>1, <2>2
<1> QED BY <1>1, <1>2, <1>3, <1>4

LEMMA InitInv == RingInit => RingInv /\ Fifo!Init
<1> SUFFICES ASSUME RingInit PROVE RingInv /\ Fifo!Init
  OBVIOUS
<1>1. MaxNum \in Nat \ {0} /\ num = 0 /\ head = 1 /\ tail = 1 /\ num \div s = 0
  BY MaxNumAssumption DEF RingInit, s
<1>2. 1 \in Starts
  <2>1. 1 = 1 + s * 0 /\ 0 \in 0 .. MaxNum - 1
    BY <1>1 DEF s
  <2> QED BY <2>1 DEF Starts
<1>3. num \in {s * i : i \in 0 .. MaxNum}
  <2>1. num = s * 0 /\ 0 \in 0 .. MaxNum
    BY <1>1 DEF s
  <2> QED BY <2>1
<1>4. RingTypeOK
  BY <1>1, <1>2, <1>3 DEF RingInit, RingTypeOK
<1>5. RingInv
  BY <1>1, <1>4 DEF RingInv, Cells, s
<1>6. Content = <<>>
  BY <1>1 DEF Content
<1> QED BY <1>5, <1>6 DEF Fifo!Init

\* Add puts its entry last, and into no cell of an entry that waits.
LEMMA AddPuts ==
    ASSUME RingInv, NEW e \in Entry, Add(e)
    PROVE  RingInv' /\ Fifo!Put(e)
<1>1. PICK k \in 0 .. MaxNum :
         /\ num \div s = k /\ num = s * k /\ tail = Nth(k + 1)
         /\ Content \in Seq(Entry) /\ Len(Content) = k
  BY Shape
<1>m. MaxNum \in Nat \ {0}
  BY MaxNumAssumption
<1>2. k < MaxNum /\ head \in Starts /\ tail \in Starts /\ queue \in [Starts -> Entry \cup {Nil}]
  BY <1>m, <1>1 DEF Add, Full, Cells, s, RingInv, RingTypeOK
<1>3. /\ num' = s * (k + 1) /\ num' \div s = k + 1 /\ head' = head
      /\ queue' = [queue EXCEPT ![tail] = e] /\ tail' = After(tail)
  BY <1>m, <1>1 DEF Add, s
<1>4. \A i \in 1 .. MaxNum : Nth(i)' = Nth(i)
  BY <1>3 DEF Nth
<1>5. \A i \in 1 .. k : Nth(i) \in Starts /\ Nth(i) # tail
  BY <1>m, <1>1, <1>2, NthStarts, NthInjective
<1>6. \A i \in 1 .. k : queue'[Nth(i)'] = queue[Nth(i)]
  BY <1>m, <1>1, <1>2, <1>3, <1>4, <1>5
<1>7. queue'[Nth(k + 1)'] = e
  BY <1>m, <1>1, <1>2, <1>3, <1>4
<1>8. RingInv'
  <2>1. queue' \in [Starts -> Entry \cup {Nil}]
    BY <1>2, <1>3
  <2>2. tail' \in Starts /\ head' \in Starts
    BY <1>2, <1>3, AfterWraps
  <2>3. num' \in {s * i : i \in 0 .. MaxNum}
    <3>1. k + 1 \in 0 .. MaxNum
      BY <1>m, <1>1, <1>2
    <3> QED BY <1>3, <3>1
  <2>4. tail' = IF head' + num' < Cells THEN head' + num' ELSE head' + num' - Cells
    <3>1. tail' = IF tail + s < Cells THEN tail + s ELSE tail + s - Cells
      BY <1>2, <1>3, AfterWraps
    <3>2. PICK h \in 0 .. MaxNum - 1 : head = 1 + s * h
      BY <1>2 DEF Starts
    <3> QED BY <1>m, <1>1, <1>2, <1>3, <3>1, <3>2 DEF Nth, Cells, s
  <2>5. \A i \in 1 .. num' \div s : queue'[Nth(i)'] \in Entry
    BY <1>m, <1>1, <1>3, <1>6, <1>7 DEF RingInv
  <2> QED BY <2>1, <2>2, <2>3, <2>4, <2>5 DEF RingInv, RingTypeOK, Starts, s, Cells
<1>9. Content' = Append(Content, e)
  <2>1. Content' = [i \in 1 .. k + 1 |-> queue'[Nth(i)']]
    BY <1>3 DEF Content
  <2>2. Content = [i \in 1 .. k |-> queue[Nth(i)]]
    BY <1>1 DEF Content
  <2>3. \A i \in 1 .. k + 1 : Append(Content, e)[i] = queue'[Nth(i)']
    BY <1>m, <1>1, <1>6, <1>7, <2>2
  <2>4. Content' \in Seq(Entry) /\ Len(Content') = k + 1
    <3>1. \A i \in 1 .. k + 1 : queue'[Nth(i)'] \in Entry
      BY <1>3, <1>8 DEF RingInv
    <3> QED BY <1>m, <1>1, <2>1, <3>1
  <2>5. Append(Content, e) \in Seq(Entry) /\ Len(Append(Content, e)) = k + 1
    BY <1>1
  <2>6. \A i \in 1 .. k + 1 : Content'[i] = Append(Content, e)[i]
    BY <2>1, <2>3
  <2> QED BY <2>4, <2>5, <2>6, SeqEqual
<1> QED BY <1>m, <1>1, <1>2, <1>8, <1>9 DEF Fifo!Put

\* Pop takes the entry that went in first.
LEMMA PopGets ==
    ASSUME RingInv, Pop
    PROVE  RingInv' /\ Fifo!Get /\ queue[head] = Head(Content)
<1>1. PICK k \in 0 .. MaxNum :
         /\ num \div s = k /\ num = s * k /\ tail = Nth(k + 1)
         /\ Content \in Seq(Entry) /\ Len(Content) = k
  BY Shape
<1>m. MaxNum \in Nat \ {0}
  BY MaxNumAssumption
<1>2. k > 0 /\ head \in Starts /\ tail \in Starts
  BY <1>m, <1>1 DEF Pop, Empty, s, RingInv, RingTypeOK
<1>3. /\ num' = s * (k - 1) /\ num' \div s = k - 1 /\ head' = After(head)
      /\ queue' = queue /\ tail' = tail
  BY <1>m, <1>1 DEF Pop, s
<1>4. \A i \in 1 .. MaxNum - 1 : Nth(i)' = Nth(i + 1)
  BY <1>2, <1>3, NthShifts
<1>5. RingInv'
  <2>1. head' \in Starts
    BY <1>2, <1>3, AfterWraps
  <2>2. num' \in {s * i : i \in 0 .. MaxNum}
    <3>1. k - 1 \in 0 .. MaxNum
      BY <1>m, <1>1, <1>2
    <3> QED BY <1>3, <3>1
  <2>3. tail' = IF head' + num' < Cells THEN head' + num' ELSE head' + num' - Cells
    <3>1. head' = IF head + s < Cells THEN head + s ELSE head + s - Cells
      BY <1>2, <1>3, AfterWraps
    <3>2. PICK h \in 0 .. MaxNum - 1 : head = 1 + s * h
      BY <1>2 DEF Starts
    <3> QED BY <1>m, <1>1, <1>2, <1>3, <3>1, <3>2 DEF Nth, Cells, s
  <2>4. \A i \in 1 .. num' \div s : queue'[Nth(i)'] \in Entry
    <3>1. \A i \in 1 .. k - 1 : Nth(i)' = Nth(i + 1) /\ queue[Nth(i + 1)] \in Entry
      BY <1>m, <1>1, <1>4 DEF RingInv
    <3> QED BY <1>3, <3>1
  <2> QED BY <1>3, <2>1, <2>2, <2>3, <2>4 DEF RingInv, RingTypeOK, Starts, s, Cells
<1>6. Content' = Tail(Content)
  <2>1. Content' = [i \in 1 .. k - 1 |-> queue[Nth(i)']]
    BY <1>3 DEF Content
  <2>2. Content = [i \in 1 .. k |-> queue[Nth(i)]]
    BY <1>1 DEF Content
  <2>3. \A i \in 1 .. k - 1 : Tail(Content)[i] = queue[Nth(i)']
    BY <1>m, <1>1, <1>4, <2>2
  <2>4. Tail(Content) \in Seq(Entry) /\ Len(Tail(Content)) = k - 1
    BY <1>m, <1>1, <1>2
  <2>5. Content' \in Seq(Entry) /\ Len(Content') = k - 1
    <3>1. \A i \in 1 .. k - 1 : queue[Nth(i)'] \in Entry
      BY <1>3, <1>5 DEF RingInv
    <3> QED BY <1>m, <1>1, <1>2, <2>1, <3>1
  <2>6. \A i \in 1 .. k - 1 : Content'[i] = Tail(Content)[i]
    BY <2>1, <2>3
  <2> QED BY <2>4, <2>5, <2>6, SeqEqual
<1>7. queue[head] = Head(Content)
  <2>1. Nth(1) = head
    <3>1. PICK h \in 0 .. MaxNum - 1 : head = 1 + s * h
      BY <1>2 DEF Starts
    <3>2. head < Cells /\ head + s * (1 - 1) = head
      BY <1>m, <3>1 DEF Cells, s
    <3> QED BY <3>2 DEF Nth
  <2> QED BY <1>m, <1>1, <1>2, <2>1 DEF Content
<1> QED BY <1>m, <1>1, <1>2, <1>5, <1>6, <1>7 DEF Fifo!Get

-----------------------------------------------------------------------------
LEMMA RingInvStep ==
    ASSUME RingInv, [RingNext]_ringVars
    PROVE  RingInv'
<1>1. CASE Pop
  BY <1>1, PopGets
<1>2. ASSUME NEW e \in Entry, Add(e) PROVE RingInv'
  BY <1>2, AddPuts
<1>3. CASE UNCHANGED ringVars
  BY <1>3 DEF ringVars, RingInv, RingTypeOK, Nth, Cells, Starts, s
<1> QED BY <1>1, <1>2, <1>3 DEF RingNext

\* rb:add and rb:pop keep head, tail and num in step with the entries.
THEOREM RingKept == RingSpec => []RingInv
BY InitInv, RingInvStep, PTL DEF RingSpec

\* The ring buffer is a FIFO queue of MaxNum entries (ringbuffer.lua): no
\* add overwrites an entry, no pop repeats or skips one.
THEOREM RingIsFifo == RingSpec => FifoSpec
<1>1. RingInit => Fifo!Init
  BY InitInv
<1>2. RingInv /\ [RingNext]_ringVars => [Fifo!Next]_Content
  <2> SUFFICES ASSUME RingInv, [RingNext]_ringVars PROVE [Fifo!Next]_Content
    OBVIOUS
  <2>1. CASE Pop
    BY <2>1, PopGets DEF Fifo!Next
  <2>2. ASSUME NEW e \in Entry, Add(e) PROVE Fifo!Next
    BY <2>2, AddPuts DEF Fifo!Next
  <2>3. CASE UNCHANGED ringVars
    BY <2>3 DEF ringVars, Content, Nth, Cells, s
  <2> QED BY <2>1, <2>2, <2>3 DEF RingNext
<1> QED BY <1>1, <1>2, RingKept, PTL DEF RingSpec, FifoSpec, Fifo!Spec

-----------------------------------------------------------------------------
(* The producer.                                                            *)

\* A partition's messages are still to send in this round, in flight or
\* neither, never both; only partitions that hold messages are, so that an
\* answer clears no buffer that sb:clear has counted already.
RoundsInv ==
    /\ sb \in [Partition -> Seq(Entry \cup {Nil})]
    /\ hand \in Entry \cup {Nil}
    /\ accepted \in Nat
    /\ todo \subseteq ((Broker \cup {NoBroker}) \X Used)
    /\ \A t, u \in todo : t[2] = u[2] => t = u
    /\ req \subseteq Used
    /\ at # "answer" => req = {}
    /\ \A t \in todo : t[2] \notin req
    /\ at \in {"loop", "asleep", "woken", "pop", "fetch", "choose", "batch", "refetch",
               "refresh"} => todo = {}

RoundInv == RingInv /\ RoundsInv /\ DoneIsDone /\ WakesSleep

-----------------------------------------------------------------------------
LEMMA EntryNat == Cardinality(Entry) \in Nat /\ Entry = 1 .. Cardinality(Entry)
BY ProducerAssumption, FS_CardinalityType

LEMMA UsedFinite == IsFiniteSet(Used) /\ Cardinality(Used) \in Nat
<1>1. Used \in SUBSET Partition
  BY DEF Used
<1> QED BY <1>1, ProducerAssumption, FS_Subset, FS_CardinalityType

\* Every step of the producer is a step of the ring, or leaves it alone.
LEMMA RingSteps ==
    ASSUME accepted \in Nat, [Next]_vars
    PROVE  [RingNext]_ringVars
<1>1. CASE Send
  <2>1. accepted + 1 \in Entry
    BY <1>1, EntryNat DEF Send
  <2> QED BY <1>1, <2>1 DEF Send, RingNext
<1>2. CASE PopOne
  BY <1>2 DEF PopOne, RingNext
<1>3. CASE ConfFetched \/ (Flush /\ ~ PopOne)
  BY <1>3 DEF ConfFetched, Flush, Idle, Start, FetchEnds, Choose, Drained, Aggregate,
       AggregateAsks, RefetchEnds, SendOne, Answered, Unanswered, AllSent, Retry,
       RefreshEnds, GiveUp
<1>4. CASE UNCHANGED vars
  BY <1>4 DEF vars
<1> QED BY <1>1, <1>2, <1>3, <1>4 DEF Next, Flush

-----------------------------------------------------------------------------
\* What choose_broker returns is one request per partition asked about.
LEMMA AssignedOnce ==
    ASSUME NEW m, NEW P \in SUBSET Used
    PROVE  /\ Assigned(m, P) \subseteq ((Broker \cup {NoBroker}) \X Used)
           /\ \A t, u \in Assigned(m, P) : t[2] = u[2] => t = u
<1>1. CASE m \in Layouts
  <2>1. m \in [Partition -> Broker \cup {NoBroker}] /\ P \subseteq Partition
    BY <1>1, ProducerAssumption DEF Used
  <2> QED BY <1>1, <2>1 DEF Assigned
<1>2. CASE m \notin Layouts
  BY <1>2 DEF Assigned
<1> QED BY <1>1, <1>2

\* sb:add makes its partition one that holds messages, and counts it once.
LEMMA AddCounts ==
    ASSUME RoundsInv, DoneIsDone, NEW p \in Partition, SbAdd(p, hand)
    PROVE  /\ sb' \in [Partition -> Seq(Entry \cup {Nil})]
           /\ Used' = Used \cup {p}
           /\ DoneIsDone'
<1>1. sb \in [Partition -> Seq(Entry \cup {Nil})] /\ hand \in Entry \cup {Nil}
  BY DEF RoundsInv
<1>2. Append(sb[p], hand) \in Seq(Entry \cup {Nil}) /\ Append(sb[p], hand) # <<>>
  BY <1>1
<1>3. sb' = [sb EXCEPT ![p] = Append(sb[p], hand)]
  BY DEF SbAdd
<1>4. sb' \in [Partition -> Seq(Entry \cup {Nil})]
  BY <1>1, <1>2, <1>3
<1>5. Used' = Used \cup {p}
  BY <1>1, <1>2, <1>3 DEF Used
<1>6. queue_num' = IF p \in Used THEN queue_num ELSE queue_num + 1
  BY DEF SbAdd, Used
<1>7. Cardinality(Used \cup {p}) = IF p \in Used THEN Cardinality(Used) ELSE Cardinality(Used) + 1
  BY UsedFinite, FS_AddElement
<1> QED BY <1>4, <1>5, <1>6, <1>7 DEF DoneIsDone

\* sb:clear of partitions that hold messages takes them off the count.
LEMMA ClearCounts ==
    ASSUME RoundsInv, DoneIsDone, NEW P \in SUBSET Used, SbClear(P)
    PROVE  /\ sb' \in [Partition -> Seq(Entry \cup {Nil})]
           /\ Used' = Used \ P
           /\ DoneIsDone'
<1>1. sb \in [Partition -> Seq(Entry \cup {Nil})]
  BY DEF RoundsInv
<1>2. sb' = [p \in Partition |-> IF p \in P THEN <<>> ELSE sb[p]]
  BY DEF SbClear
<1>3. <<>> \in Seq(Entry \cup {Nil})
  OBVIOUS
<1>4. sb' \in [Partition -> Seq(Entry \cup {Nil})]
  BY <1>1, <1>2, <1>3
<1>5. Used' = Used \ P
  BY <1>2 DEF Used
<1>6. /\ Cardinality(Used \ P) = Cardinality(Used) - Cardinality(Used \cap P)
      /\ Cardinality(P) \in Nat /\ Cardinality(P) <= Cardinality(Used)
  BY UsedFinite, FS_Difference, FS_Subset, FS_CardinalityType
<1>7. Used \cap P = P
  OBVIOUS
<1>8. queue_num' = queue_num - Cardinality(P)
  BY <1>6, UsedFinite DEF SbClear, DoneIsDone
<1> QED BY <1>4, <1>5, <1>6, <1>7, <1>8 DEF DoneIsDone

-----------------------------------------------------------------------------
LEMMA RoundInit == Init => RoundInv
<1> SUFFICES ASSUME Init PROVE RoundInv
  OBVIOUS
<1>1. RingInv
  BY InitInv DEF Init
<1>2. Used = {}
  BY DEF Init, Used
<1>3. DoneIsDone
  BY <1>2, FS_EmptySet DEF Init, DoneIsDone
<1>4. <<>> \in Seq(Entry \cup {Nil})
  OBVIOUS
<1>5. RoundsInv
  BY <1>4 DEF Init, RoundsInv
<1>6. WakesSleep
  BY DEF Init, WakesSleep
<1> QED BY <1>1, <1>3, <1>5, <1>6 DEF RoundInv

\* flush_co marks that it flushes before it leaves the three places where
\* it may be woken, and unmarks it only to sleep.
LEMMA WakesKept ==
    ASSUME WakesSleep, [Next]_vars
    PROVE  WakesSleep'
BY DEF WakesSleep, Next, Send, ConfFetched, Flush, Idle, Start, MarkFlushing, PopOne,
    FetchEnds, Choose, Drained, Aggregate, AggregateAsks, RefetchEnds, SendOne, Answered,
    Unanswered, AllSent, Retry, RefreshEnds, GiveUp, vars, flushVars

LEMMA RoundStep ==
    ASSUME RingInv, RoundsInv, DoneIsDone, [Next]_vars
    PROVE  RoundsInv' /\ DoneIsDone'
<1>1. CASE Send
  <2>1. UNCHANGED <<sb, hand, queue_num, todo, req>> /\ accepted' = accepted + 1
        /\ (at' = at \/ (at = "asleep" /\ at' = "woken"))
    BY <1>1 DEF Send
  <2> QED BY <2>1 DEF RoundsInv, DoneIsDone, Used
<1>2. CASE ConfFetched \/ UNCHANGED vars
  BY <1>2 DEF ConfFetched, vars, flushVars, RoundsInv, DoneIsDone, Used
<1>3. CASE Idle \/ Start \/ FetchEnds \/ Drained \/ AggregateAsks \/ AllSent \/ Retry \/ RefreshEnds
  <2>1. UNCHANGED <<sb, hand, queue_num, todo, req, accepted>>
    BY <1>3 DEF Idle, Start, FetchEnds, Drained, AggregateAsks, AllSent, Retry, RefreshEnds
  <2>2. at # "answer" /\ at' \notin {"answer"} /\ todo = {}
    BY <1>3 DEF RoundsInv, Idle, Start, FetchEnds, Drained, AggregateAsks, AllSent, Retry, RefreshEnds
  <2> QED BY <2>1, <2>2 DEF RoundsInv, DoneIsDone, Used
<1>4. CASE PopOne
  <2>1. UNCHANGED <<sb, queue_num, todo, req, accepted>> /\ hand' = queue[head]
        /\ at = "pop" /\ at' \in {"choose", "fetch"}
    BY <1>4 DEF PopOne
  <2>2. queue[head] \in Entry \cup {Nil}
    BY DEF RingInv, RingTypeOK
  <2> QED BY <2>1, <2>2 DEF RoundsInv, DoneIsDone, Used
<1>5. CASE Choose
  <2>1. PICK p \in Partition : SbAdd(p, hand)
    BY <1>5, ProducerAssumption DEF Choose
  <2>2. UNCHANGED <<todo, req, accepted>> /\ hand' = Nil
        /\ at = "choose" /\ at' \in {"batch", "pop"}
    BY <1>5 DEF Choose
  <2>3. Used \subseteq Used'
    BY <2>1, AddCounts
  <2> QED BY <2>1, <2>2, <2>3, AddCounts DEF RoundsInv
<1>6. CASE Aggregate \/ RefetchEnds
  <2>1. \E m : \E P \in SUBSET Used : todo' = Assigned(m, P)
    <3>1. CASE Aggregate
      BY <3>1 DEF Aggregate
    <3>2. CASE RefetchEnds
      BY <3>2 DEF RefetchEnds
    <3> QED BY <1>6, <3>1, <3>2
  <2>2. UNCHANGED <<sb, hand, queue_num, req, accepted>> /\ at' = "send" /\ at # "answer"
    BY <1>6 DEF Aggregate, RefetchEnds
  <2>3. Used' = Used
    BY <2>2 DEF Used
  <2>4. /\ todo' \subseteq ((Broker \cup {NoBroker}) \X Used)
        /\ \A t, u \in todo' : t[2] = u[2] => t = u
    BY <2>1, AssignedOnce
  <2>5. req = {}
    BY <2>2 DEF RoundsInv
  <2> QED BY <2>2, <2>3, <2>4, <2>5 DEF RoundsInv, DoneIsDone
<1>7. CASE SendOne
  <2>1. PICK b : req' = {t[2] : t \in {u \in todo : u[1] = b}}
                 /\ todo' = todo \ {u \in todo : u[1] = b}
    BY <1>7 DEF SendOne
  <2>2. UNCHANGED <<sb, hand, queue_num, accepted>> /\ at' = "answer"
    BY <1>7 DEF SendOne
  <2>3. Used' = Used
    BY <2>2 DEF Used
  <2>4. req' \subseteq Used
    BY <2>1 DEF RoundsInv
  <2>5. \A t \in todo' : t[2] \notin req'
    BY <2>1 DEF RoundsInv
  <2> QED BY <2>1, <2>2, <2>3, <2>4, <2>5 DEF RoundsInv, DoneIsDone
<1>8. CASE Answered
  <2>1. PICK P \in SUBSET req : SbClear(P)
    <3>1. PICK code \in [req -> Codes] : \E seen \in Visited(code) :
             SbClear({p \in seen : code[p] # "retry"})
      BY <1>8 DEF Answered
    <3>2. PICK seen \in Visited(code) : SbClear({p \in seen : code[p] # "retry"})
      BY <3>1
    <3>3. seen \subseteq req
      BY <3>2 DEF Visited
    <3> QED BY <3>2, <3>3
  <2>2. UNCHANGED <<hand, todo, accepted>> /\ req' = {} /\ at' \in {"send", "dead"}
    BY <1>8 DEF Answered
  <2>3. P \in SUBSET Used
    BY DEF RoundsInv
  <2>4. Used' = Used \ P /\ DoneIsDone' /\ sb' \in [Partition -> Seq(Entry \cup {Nil})]
    BY <2>1, <2>3, ClearCounts
  <2>5. todo' \subseteq ((Broker \cup {NoBroker}) \X Used')
    BY <2>2, <2>4 DEF RoundsInv
  <2> QED BY <2>2, <2>4, <2>5 DEF RoundsInv
<1>9. CASE Unanswered
  <2>1. UNCHANGED <<sb, hand, queue_num, todo, accepted>> /\ req' = {} /\ at' = "send"
    BY <1>9 DEF Unanswered
  <2> QED BY <2>1 DEF RoundsInv, DoneIsDone, Used
<1>10. CASE GiveUp
  <2>1. SbClear(Used) /\ UNCHANGED <<hand, todo, req, accepted>> /\ at = "send"
        /\ todo = {} /\ at' = "loop"
    BY <1>10 DEF GiveUp
  <2>2. DoneIsDone' /\ sb' \in [Partition -> Seq(Entry \cup {Nil})]
    BY <2>1, ClearCounts
  <2> QED BY <2>1, <2>2 DEF RoundsInv
<1> QED BY <1>1, <1>2, <1>3, <1>4, <1>5, <1>6, <1>7, <1>8, <1>9, <1>10 DEF Next, Flush

-----------------------------------------------------------------------------
LEMMA RoundKept == Spec => []RoundInv
<1>1. RoundInv /\ [Next]_vars => RoundInv'
  <2> SUFFICES ASSUME RoundInv, [Next]_vars PROVE RoundInv'
    OBVIOUS
  <2>1. [RingNext]_ringVars
    BY RingSteps DEF RoundInv, RoundsInv
  <2>2. RingInv'
    BY <2>1, RingInvStep DEF RoundInv
  <2> QED BY <2>2, RoundStep, WakesKept DEF RoundInv
<1> QED BY <1>1, RoundInit, PTL DEF Spec

\* Under the producer -- sends that come while it flushes, pops one at a
\* time between waits -- the ring buffer still is a FIFO queue of MaxNum
\* entries (producer.lua, ringbuffer.lua).
THEOREM ProducerIsFifo == Spec => FifoSpec
<1>1. Init => RingInit
  BY DEF Init
<1>2. RoundInv /\ [Next]_vars => [RingNext]_ringVars
  BY RingSteps DEF RoundInv, RoundsInv
<1>3. Spec => RingSpec
  BY <1>1, <1>2, RoundKept, PTL DEF Spec, RingSpec
<1> QED BY <1>3, RingIsFifo

-----------------------------------------------------------------------------
(* Where messages are.                                                      *)

Queued == num \div s

\* The messages that have left the ring and flush_co's hand are 1 .. Past.
Past == accepted - Queued - (IF hand = Nil THEN 0 ELSE 1)

\* flush_co gathers messages, no round is on.
Gathering == {"loop", "asleep", "woken", "pop", "fetch", "choose"}

\* A buffer is full in a round only; the hand is full between pop and sb:add only.
Shaped ==
    /\ at \in Waiting \cup {"loop", "woken", "pop", "choose", "batch", "send"}
    /\ flushing \in BOOLEAN /\ confFetch \in BOOLEAN
    /\ meta \in {Unasked, Untold} \cup Layouts
    /\ try \in 0 .. MaxRetry /\ (at = "refresh" => try < MaxRetry)
    /\ todo \subseteq (Broker \X Partition)
    /\ sb \in [Partition -> Seq(Entry)]
    /\ \A p \in Partition : Len(sb[p]) <= BatchNum
    /\ at \in Gathering => \A p \in Partition : Len(sb[p]) < BatchNum
    /\ hand # Nil <=> at \in {"fetch", "choose"}

\* Messages leave the ring in the order they were numbered.
Numbered ==
    /\ accepted \in 0 .. Cardinality(Entry) /\ Past \in Nat
    /\ \A i \in DOMAIN Content : Content[i] = accepted - Queued + i
    /\ hand # Nil => hand = Past + 1

\* A message that has left them is in one buffer, acknowledged, or dropped.
Placed ==
    /\ \A p, q \in Partition : p # q => Range(sb[p]) \cap Range(sb[q]) = {}
    /\ Messages(Partition) \cap (acked \cup dropped) = {}
    /\ acked \cap dropped = {}
    /\ Messages(Partition) \cup acked \cup dropped = 1 .. Past
    /\ \A m \in acked : \E p \in Partition : m \in Range(log[p])

Sorted(l) == \A i, j \in DOMAIN l : i < j => l[i] < l[j]

\* What is in a buffer is newer than its partition's log, or, in a round, there
\* already.
Ordered ==
    /\ log \in [Partition -> Seq(Entry)]
    /\ \A p \in Partition :
        /\ Sorted(sb[p]) /\ Sorted(log[p])
        /\ \/ \A x \in Range(log[p]), y \in Range(sb[p]) : x < y
           \/ Range(sb[p]) \subseteq Range(log[p]) /\ at \notin Gathering
        /\ Range(log[p]) \subseteq 1 .. Past

QInv == Shaped /\ Numbered /\ Placed /\ Ordered

-----------------------------------------------------------------------------
\* What is queued, in hand, and has left both, after a step.
LEMMA PastMoves ==
    ASSUME RoundInv, Shaped, Numbered, [Next]_vars
    PROVE  /\ Numbered'
           /\ Past \in Nat /\ Past' \in Nat
           /\ Choose => hand = Past + 1 /\ hand \in Entry /\ Past' = Past + 1
           /\ ~ Choose => Past' = Past
<1>1. /\ num \div s \in 0 .. MaxNum /\ num = s * (num \div s)
      /\ Content \in Seq(Entry) /\ Len(Content) = num \div s
      /\ DOMAIN Content = 1 .. num \div s /\ MaxNum \in Nat
  <2>1. RingInv
    BY DEF RoundInv
  <2>2. /\ num \div s \in 0 .. MaxNum /\ num = s * (num \div s) /\ MaxNum \in Nat
        /\ Content \in Seq(Entry) /\ Len(Content) = num \div s
    BY <2>1, Shape
  <2> QED BY <2>2, LenProperties
<1>2. /\ accepted \in 0 .. Cardinality(Entry) /\ Past \in Nat /\ accepted \in Nat
      /\ \A i \in DOMAIN Content : Content[i] = accepted - Queued + i
      /\ hand # Nil => hand = Past + 1
      /\ Queued \in Nat /\ Len(Content) = Queued
  BY <1>1, EntryNat DEF Numbered, Queued
<1>3. Nil \notin Entry /\ hand \in Entry \cup {Nil}
  BY ProducerAssumption DEF RoundInv, RoundsInv
<1>4. (hand # Nil) <=> at \in {"fetch", "choose"}
  BY DEF Shaped
<1>5. CASE Send
  <2>1. /\ Add(accepted + 1) /\ accepted' = accepted + 1 /\ hand' = hand
        /\ accepted < Cardinality(Entry) /\ accepted + 1 \in Entry
    BY <1>2, <1>5, EntryNat DEF Send
  <2>2. Content' = Append(Content, accepted + 1)
    BY <2>1, AddPuts DEF RoundInv, Fifo!Put
  <2>3. Queued' = Queued + 1
    BY <1>1, <2>1 DEF Add, Queued, s
  <2>4. Past' = Past
    BY <1>2, <2>1, <2>3 DEF Past
  <2>5. /\ DOMAIN Content' = DOMAIN Content \cup {Queued + 1}
        /\ \A i \in DOMAIN Content : Content'[i] = Content[i]
        /\ Content'[Queued + 1] = accepted + 1
    <3>1. /\ DOMAIN Append(Content, accepted + 1) = DOMAIN Content \cup {Len(Content) + 1}
          /\ \A i \in DOMAIN Content : Append(Content, accepted + 1)[i] = Content[i]
          /\ Append(Content, accepted + 1)[Len(Content) + 1] = accepted + 1
      BY <1>1, <2>1, AppendFacts
    <3> QED BY <1>2, <2>2, <3>1
  <2>6. ASSUME NEW i \in DOMAIN Content' PROVE Content'[i] = accepted' - Queued' + i
    <3>1. i \in Int
      BY <1>1, <1>2, <2>5
    <3> QED BY <1>2, <2>1, <2>3, <2>5, <3>1
  <2>7. accepted' \in 0 .. Cardinality(Entry)
    BY <1>2, <2>1, EntryNat
  <2>8. ~ Choose
    BY <2>1 DEF Choose, Add
  <2> QED BY <1>2, <2>1, <2>4, <2>6, <2>7, <2>8 DEF Numbered
<1>6. CASE PopOne
  <2>1. Pop /\ hand' = queue[head] /\ hand = Nil /\ accepted' = accepted
    BY <1>4, <1>6 DEF PopOne
  <2>2. Content' = Tail(Content) /\ queue[head] = Head(Content)
    BY <2>1, PopGets DEF RoundInv, Fifo!Get
  <2>3. Queued' = Queued - 1 /\ Queued > 0
    BY <1>1, <2>1 DEF Pop, Empty, Queued, s
  <2>4. Content # <<>>
    BY <1>2, <2>3
  <2>5. /\ DOMAIN Content' = 1 .. Queued - 1
        /\ \A i \in DOMAIN Content' : i + 1 \in DOMAIN Content /\ Content'[i] = Content[i + 1]
        /\ queue[head] = Content[1] /\ 1 \in DOMAIN Content /\ queue[head] \in Entry
    BY <1>1, <1>2, <2>2, <2>4, TailFacts
  <2>6. ASSUME NEW i \in DOMAIN Content' PROVE Content'[i] = accepted' - Queued' + i
    BY <1>2, <2>1, <2>3, <2>5
  <2>7. hand' # Nil /\ hand' = accepted - Queued + 1
    BY <1>2, <1>3, <2>1, <2>5
  <2>8. Past' = Past /\ hand' = Past' + 1
    BY <1>2, <2>1, <2>3, <2>7 DEF Past
  <2>9. ~ Choose
    BY <1>6 DEF Choose, PopOne
  <2> QED BY <1>2, <2>1, <2>6, <2>8, <2>9 DEF Numbered
<1>7. CASE Choose
  <2>1. hand' = Nil /\ accepted' = accepted /\ UNCHANGED ringVars /\ at = "choose"
    BY <1>7 DEF Choose
  <2>2. Content' = Content /\ Queued' = Queued
    BY <2>1 DEF ringVars, Content, Nth, Queued
  <2>3. hand # Nil /\ hand = Past + 1 /\ hand \in Entry
    BY <1>2, <1>3, <1>4, <2>1
  <2>4. Past' = Past + 1
    BY <1>2, <2>1, <2>2, <2>3 DEF Past
  <2> QED BY <1>2, <1>7, <2>1, <2>2, <2>3, <2>4 DEF Numbered
<1>8. CASE ~ (Send \/ PopOne \/ Choose)
  <2>1. UNCHANGED <<ringVars, hand, accepted>>
    BY <1>8 DEF Next, Flush, vars, flushVars, ConfFetched, Idle, Start, FetchEnds, Drained,
       Aggregate, AggregateAsks, RefetchEnds, SendOne, Answered, Unanswered, AllSent, Retry,
       RefreshEnds, GiveUp
  <2>2. Content' = Content /\ Queued' = Queued
    BY <2>1 DEF ringVars, Content, Nth, Queued
  <2>3. Past' = Past
    BY <2>1, <2>2 DEF Past
  <2> QED BY <1>2, <1>8, <2>1, <2>2, <2>3 DEF Numbered
<1> QED BY <1>5, <1>6, <1>7, <1>8

-----------------------------------------------------------------------------
LEMMA ConcatSorted ==
    ASSUME NEW S, S \subseteq Nat, NEW q \in Seq(S), NEW r \in Seq(S), Sorted(q), Sorted(r),
           \A x \in Range(q), y \in Range(r) : x < y
    PROVE  Sorted(q \o r)
<1>1. /\ q \o r \in Seq(S) /\ Len(q \o r) = Len(q) + Len(r)
      /\ \A i \in 1 .. Len(q) + Len(r) : (q \o r)[i] = IF i <= Len(q) THEN q[i] ELSE r[i - Len(q)]
  BY ConcatProperties
<1>2. /\ Len(q) \in Nat /\ Len(r) \in Nat
      /\ DOMAIN q = 1 .. Len(q) /\ DOMAIN r = 1 .. Len(r)
      /\ DOMAIN (q \o r) = 1 .. Len(q) + Len(r)
  BY <1>1, LenProperties
<1>3. \A i \in DOMAIN q, j \in DOMAIN r : q[i] < r[j]
  BY DEF Range
<1>4. ASSUME NEW i \in DOMAIN (q \o r), NEW j \in DOMAIN (q \o r), i < j
      PROVE  (q \o r)[i] < (q \o r)[j]
  <2>1. i \in Nat /\ j \in Nat
    BY <1>2
  <2>2. CASE j <= Len(q)
    <3>1. i \in DOMAIN q /\ j \in DOMAIN q /\ (q \o r)[i] = q[i] /\ (q \o r)[j] = q[j]
      BY <1>1, <1>2, <1>4, <2>2
    <3> QED BY <1>4, <3>1 DEF Sorted
  <2>3. CASE i <= Len(q) /\ ~ (j <= Len(q))
    <3>1. /\ i \in DOMAIN q /\ j - Len(q) \in DOMAIN r
          /\ (q \o r)[i] = q[i] /\ (q \o r)[j] = r[j - Len(q)]
      BY <1>1, <1>2, <2>3
    <3> QED BY <1>3, <3>1
  <2>4. CASE ~ (i <= Len(q))
    <3>1. /\ i - Len(q) \in DOMAIN r /\ j - Len(q) \in DOMAIN r /\ i - Len(q) < j - Len(q)
          /\ (q \o r)[i] = r[i - Len(q)] /\ (q \o r)[j] = r[j - Len(q)]
      BY <1>1, <1>2, <1>4, <2>4
    <3> QED BY <3>1 DEF Sorted
  <2> QED BY <1>4, <2>1, <2>2, <2>3, <2>4, <1>2
<1> QED BY <1>4 DEF Sorted

LEMMA AppendSorted ==
    ASSUME NEW S, S \subseteq Nat, NEW q \in Seq(S), NEW e \in S, Sorted(q), \A x \in Range(q) : x < e
    PROVE  Sorted(Append(q, e))
<1>1. /\ DOMAIN Append(q, e) = DOMAIN q \cup {Len(q) + 1}
      /\ \A i \in DOMAIN q : Append(q, e)[i] = q[i]
      /\ Append(q, e)[Len(q) + 1] = e
  BY AppendFacts
<1>2. DOMAIN q = 1 .. Len(q) /\ Len(q) \in Nat
  BY LenProperties
<1>3. \A i \in DOMAIN q : q[i] < e
  BY DEF Range
<1> QED BY <1>1, <1>2, <1>3 DEF Sorted

\* What sb:clear of P leaves.
LEMMA Cleared ==
    ASSUME NEW P \in SUBSET Partition, SbClear(P)
    PROVE  /\ \A p \in P : sb'[p] = <<>> /\ Range(sb'[p]) = {}
           /\ \A p \in Partition \ P : sb'[p] = sb[p]
<1>1. \A p \in Partition : sb'[p] = IF p \in P THEN <<>> ELSE sb[p]
  BY DEF SbClear
<1>2. Range(<<>>) = {}
  BY DEF Range
<1> QED BY <1>1, <1>2

\* No buffer holds a message where none is counted.
LEMMA NoneUsed ==
    ASSUME Shaped, Used = {}
    PROVE  \A p \in Partition : sb[p] = <<>> /\ Len(sb[p]) = 0 /\ Range(sb[p]) = {}
<1>1. \A p \in Partition : sb[p] = <<>>
  BY DEF Used
<1>2. Range(<<>>) = {} /\ Len(<<>>) = 0
  BY DEF Range
<1> QED BY <1>1, <1>2

\* The answers to a request.
LEMMA Answer ==
    ASSUME Answered
    PROVE  \E got, ok, done \in SUBSET req :
             /\ ok \subseteq got /\ ok \subseteq done
             /\ Logged(got) /\ SbClear(done)
             /\ acked' = acked \cup Messages(ok)
             /\ dropped' = dropped \cup Messages(done \ ok)
             /\ at = "answer" /\ at' \in {"send", "dead"}
<1>1. PICK code \in [req -> Codes] : \E seen \in Visited(code) :
          LET ok == {p \in seen : code[p] = "none"}
              done == {p \in seen : code[p] # "retry"}
          IN /\ Logged({p \in req : code[p] = "none"})
             /\ SbClear(done)
             /\ acked' = acked \cup Messages(ok)
             /\ dropped' = dropped \cup Messages(done \ ok)
             /\ at' = IF seen = req THEN "send" ELSE "dead"
  BY DEF Answered
<1>2. PICK seen \in Visited(code) :
          LET ok == {p \in seen : code[p] = "none"}
              done == {p \in seen : code[p] # "retry"}
          IN /\ Logged({p \in req : code[p] = "none"})
             /\ SbClear(done)
             /\ acked' = acked \cup Messages(ok)
             /\ dropped' = dropped \cup Messages(done \ ok)
             /\ at' = IF seen = req THEN "send" ELSE "dead"
  BY <1>1
<1>3. seen \subseteq req
  BY DEF Visited
<1> DEFINE got == {p \in req : code[p] = "none"}
           ok == {p \in seen : code[p] = "none"}
           done == {p \in seen : code[p] # "retry"}
<1>4. ok \subseteq got /\ ok \subseteq done /\ got \subseteq req /\ done \subseteq req
  BY <1>3
<1>5. /\ Logged(got) /\ SbClear(done)
      /\ acked' = acked \cup Messages(ok)
      /\ dropped' = dropped \cup Messages(done \ ok)
      /\ at' \in {"send", "dead"}
  BY <1>2
<1>6. at = "answer"
  BY DEF Answered
<1> HIDE DEF got, ok, done
<1> QED BY <1>4, <1>5, <1>6

-----------------------------------------------------------------------------
\* A message that left the ring is one, and a number.
LEMMA PastEntry ==
    ASSUME RoundInv, Numbered
    PROVE  Past \in Nat /\ 1 .. Past \subseteq Entry /\ Entry \subseteq Nat
<1>1. num \div s \in Nat
  <2>1. RingInv
    BY DEF RoundInv
  <2> QED BY <2>1, Shape
<1>2. accepted \in 0 .. Cardinality(Entry) /\ Past \in Nat
  BY DEF Numbered
<1>3. Past <= accepted
  BY <1>1, <1>2, EntryNat DEF Past, Queued
<1> QED BY <1>2, <1>3, EntryNat

LEMMA BufferPast ==
    ASSUME Shaped, Placed, NEW p \in Partition
    PROVE  sb[p] \in Seq(Entry) /\ Range(sb[p]) \subseteq 1 .. Past
<1>1. Range(sb[p]) \subseteq Messages(Partition)
  BY DEF Messages
<1> QED BY <1>1 DEF Placed, Shaped

\* What brokers hold after they took the buffers of P.
LEMMA LoggedFacts ==
    ASSUME RoundInv, QInv, NEW P \in SUBSET Partition, Logged(P)
    PROVE  /\ log' \in [Partition -> Seq(Entry)]
           /\ \A p \in Partition :
                /\ Sorted(log'[p]) /\ Range(log'[p]) \subseteq 1 .. Past
                /\ Range(log[p]) \subseteq Range(log'[p])
                /\ p \in P => Range(sb[p]) \subseteq Range(log'[p])
                /\ p \notin P => log'[p] = log[p]
<1>1. Past \in Nat /\ 1 .. Past \subseteq Entry /\ Entry \subseteq Nat
  BY PastEntry DEF QInv
<1>2. \A p \in Partition :
        /\ sb[p] \in Seq(Entry) /\ Range(sb[p]) \subseteq 1 .. Past
        /\ log[p] \in Seq(Entry) /\ Range(log[p]) \subseteq 1 .. Past
        /\ Sorted(sb[p]) /\ Sorted(log[p])
        /\ \/ \A x \in Range(log[p]), y \in Range(sb[p]) : x < y
           \/ Range(sb[p]) \subseteq Range(log[p])
  BY BufferPast DEF QInv, Ordered
<1>3. /\ log' = [p \in Partition |-> IF p \in P /\ ~ Range(sb[p]) \subseteq Range(log[p])
                                     THEN log[p] \o sb[p] ELSE log[p]]
      /\ \A p \in Partition :
           log'[p] = IF p \in P /\ ~ Range(sb[p]) \subseteq Range(log[p])
                     THEN log[p] \o sb[p] ELSE log[p]
  BY DEF Logged
<1>4. ASSUME NEW p \in Partition
      PROVE  /\ log'[p] \in Seq(Entry)
             /\ Sorted(log'[p]) /\ Range(log'[p]) \subseteq 1 .. Past
             /\ Range(log[p]) \subseteq Range(log'[p])
             /\ p \in P => Range(sb[p]) \subseteq Range(log'[p])
             /\ p \notin P => log'[p] = log[p]
  <2>1. CASE p \in P /\ ~ Range(sb[p]) \subseteq Range(log[p])
    <3>1. log'[p] = log[p] \o sb[p]
      BY <1>3, <2>1
    <3>2. \A x \in Range(log[p]), y \in Range(sb[p]) : x < y
      BY <1>2, <2>1
    <3>3. log[p] \o sb[p] \in Seq(Entry)
      BY <1>2, ConcatProperties
    <3>4. Range(log[p] \o sb[p]) = Range(log[p]) \cup Range(sb[p])
      BY <1>2, ConcatRange
    <3>5. Sorted(log[p] \o sb[p])
      BY <1>1, <1>2, <3>2, ConcatSorted
    <3> QED BY <1>2, <2>1, <3>1, <3>3, <3>4, <3>5
  <2>2. CASE ~ (p \in P /\ ~ Range(sb[p]) \subseteq Range(log[p]))
    <3>1. log'[p] = log[p]
      BY <1>3, <2>2
    <3> QED BY <1>2, <2>2, <3>1
  <2> QED BY <2>1, <2>2
<1>5. log' \in [Partition -> Seq(Entry)]
  BY <1>3, <1>4
<1> QED BY <1>4, <1>5

-----------------------------------------------------------------------------
LEMMA ShapedStep ==
    ASSUME RoundInv, QInv, [Next]_vars
    PROVE  Shaped'
<1>1. /\ Shaped /\ sb \in [Partition -> Seq(Entry)] /\ BatchNum \in Nat \ {0}
      /\ MaxRetry \in Nat \ {0} /\ try \in 0 .. MaxRetry
      /\ \A p \in Partition : Len(sb[p]) \in Nat
  BY ProducerAssumption, LenProperties DEF QInv, Shaped
<1>2. CASE Send \/ ConfFetched \/ UNCHANGED vars
  <2>1. /\ UNCHANGED <<flushing, hand, try, sb, todo>>
        /\ at' = at \/ (at = "asleep" /\ at' = "woken")
        /\ meta' \in {Unasked, Untold} \cup Layouts /\ confFetch' \in BOOLEAN
    BY <1>1, <1>2 DEF Send, ConfFetched, vars, flushVars, Fetched, Cached, Shaped
  <2> QED BY <1>1, <2>1 DEF Shaped, Gathering, Waiting
<1>3. CASE Idle \/ Start \/ FetchEnds \/ Drained \/ AggregateAsks \/ Retry \/ RefreshEnds
  <2>1. /\ UNCHANGED <<hand, sb, todo, confFetch>>
        /\ flushing' \in BOOLEAN
        /\ meta' \in {Unasked, Untold} \cup Layouts
    BY <1>1, <1>3 DEF Idle, Start, MarkFlushing, FetchEnds, Drained, AggregateAsks, Retry,
       RefreshEnds, Fetched, Refreshed, Shaped
  <2>2. try' \in 0 .. MaxRetry /\ (at' = "refresh" => try' < MaxRetry)
    BY <1>1, <1>3 DEF Idle, Start, FetchEnds, Drained, AggregateAsks, Retry,
       RefreshEnds, NextTry, Shaped
  <2>3. /\ at' \in {"asleep", "pop", "choose", "batch", "refetch", "refresh"}
        /\ at' \in Gathering => at \in Gathering
        /\ at \in {"fetch", "choose"} <=> at' \in {"fetch", "choose"}
    BY <1>3 DEF Idle, Start, FetchEnds, Drained, AggregateAsks, Retry, RefreshEnds, Gathering
  <2> QED BY <1>1, <2>1, <2>2, <2>3 DEF Shaped, Waiting
<1>4. CASE PopOne
  <2>1. queue[head] \in Entry
    <3>1. RingInv /\ Pop
      BY <1>4 DEF RoundInv, PopOne
    <3>2. num \div s > 0 /\ Content \in Seq(Entry) /\ Len(Content) = num \div s
      BY <3>1, Shape DEF Pop, Empty, s
    <3>3. Content # <<>>
      BY <3>2
    <3> QED BY <3>1, <3>2, <3>3, PopGets, TailFacts
  <2>2. hand' # Nil
    BY <1>4, <2>1, ProducerAssumption DEF PopOne
  <2>3. /\ UNCHANGED <<flushing, try, sb, todo, meta, confFetch>>
        /\ at = "pop" /\ at' \in {"choose", "fetch"}
    BY <1>4 DEF PopOne
  <2> QED BY <1>1, <2>2, <2>3 DEF Shaped, Gathering, Waiting
<1>5. CASE Choose
  <2>1. PICK p \in (IF Cached THEN Partition ELSE {0}) :
          /\ SbAdd(p, hand)
          /\ at' = IF Overflow(p) THEN "batch" ELSE "pop"
          /\ try' = IF Overflow(p) THEN 1 ELSE 0
    BY <1>5 DEF Choose
  <2>2. p \in Partition
    BY ProducerAssumption
  <2>3. hand' = Nil /\ UNCHANGED <<flushing, todo, meta, confFetch>> /\ at = "choose"
    BY <1>5 DEF Choose
  <2>4. hand \in Entry /\ \A q \in Partition : Len(sb[q]) < BatchNum
    BY <1>1, <2>3 DEF RoundInv, RoundsInv, Shaped, Gathering
  <2>5. sb' = [sb EXCEPT ![p] = Append(sb[p], hand)]
    BY <2>1 DEF SbAdd
  <2>6. Append(sb[p], hand) \in Seq(Entry) /\ Len(Append(sb[p], hand)) = Len(sb[p]) + 1
    BY <1>1, <2>2, <2>4
  <2>7. /\ sb' \in [Partition -> Seq(Entry)]
        /\ \A q \in Partition : Len(sb'[q]) = IF q = p THEN Len(sb[q]) + 1 ELSE Len(sb[q])
    BY <1>1, <2>2, <2>5, <2>6
  <2>8. \A q \in Partition : Len(sb'[q]) <= BatchNum
    BY <1>1, <2>4, <2>7
  <2>9. at' \in Gathering => \A q \in Partition : Len(sb'[q]) < BatchNum
    BY <1>1, <2>1, <2>2, <2>4, <2>7 DEF Overflow, Gathering
  <2>10. at' \in {"batch", "pop"} /\ try' \in 0 .. MaxRetry
    BY <1>1, <2>1
  <2> QED BY <1>1, <2>3, <2>7, <2>8, <2>9, <2>10 DEF Shaped, Waiting
<1>6. CASE Aggregate \/ RefetchEnds
  <2>1. \E P \in SUBSET Used : todo' = Assigned(meta', P)
    BY <1>6 DEF Aggregate, RefetchEnds
  <2>2. todo' \subseteq (Broker \X Partition)
    BY <2>1, ProducerAssumption DEF Assigned, Used
  <2>3. /\ UNCHANGED <<flushing, hand, try, sb, confFetch>> /\ at' = "send"
        /\ at \in {"batch", "refetch"} /\ meta' \in {Unasked, Untold} \cup Layouts
    BY <1>1, <1>6 DEF Aggregate, RefetchEnds, Fetched, Shaped
  <2> QED BY <1>1, <2>2, <2>3 DEF Shaped, Gathering, Waiting
<1>7. CASE SendOne \/ Unanswered
  <2>1. /\ todo' \subseteq todo /\ UNCHANGED <<flushing, hand, try, sb, meta, confFetch>>
        /\ at \in {"send", "answer"} /\ at' \in {"send", "answer"}
    BY <1>7 DEF SendOne, Unanswered
  <2> QED BY <1>1, <2>1 DEF Shaped, Gathering, Waiting
<1>8. CASE Answered
  <2>1. PICK done \in SUBSET req : SbClear(done) /\ at = "answer" /\ at' \in {"send", "dead"}
    BY <1>8, Answer
  <2>2. done \in SUBSET Partition
    BY DEF RoundInv, RoundsInv, Used
  <2>3. sb' \in [Partition -> Seq(Entry)] /\ \A p \in Partition : sb'[p] = <<>> \/ sb'[p] = sb[p]
    BY <1>1, <2>1, <2>2 DEF SbClear
  <2>4. UNCHANGED <<flushing, hand, try, todo, meta, confFetch>>
    BY <1>8 DEF Answered
  <2>5. \A p \in Partition : Len(sb'[p]) <= BatchNum
    BY <1>1, <2>3 DEF Shaped
  <2> QED BY <1>1, <2>1, <2>3, <2>4, <2>5 DEF Shaped, Gathering, Waiting
<1>9. CASE AllSent \/ GiveUp
  <2>1. sb' \in [Partition -> Seq(Entry)] /\ \A p \in Partition : Len(sb'[p]) = 0
    <3>1. CASE AllSent
      <4>1. sb' = sb /\ Used = {}
        <5>1. Cardinality(Used) = 0
          BY <3>1 DEF AllSent, RoundInv, DoneIsDone
        <5> QED BY <3>1, <5>1, UsedFinite, FS_EmptySet DEF AllSent
      <4> QED BY <1>1, <4>1, NoneUsed
    <3>2. CASE GiveUp
      <4>1. sb' = [p \in Partition |-> IF p \in Used THEN <<>> ELSE sb[p]]
        BY <3>2 DEF GiveUp, SbClear
      <4>2. \A p \in Partition : sb'[p] = <<>>
        BY <4>1 DEF Used
      <4>3. <<>> \in Seq(Entry) /\ Len(<<>>) = 0
        OBVIOUS
      <4>4. sb' \in [Partition -> Seq(Entry)]
        BY <1>1, <4>1, <4>3
      <4> QED BY <4>2, <4>3, <4>4
    <3> QED BY <1>9, <3>1, <3>2
  <2>2. /\ UNCHANGED <<flushing, hand, todo, meta, confFetch>>
        /\ at = "send" /\ at' = "loop" /\ try' = 0
    BY <1>9 DEF AllSent, GiveUp
  <2> QED BY <1>1, <2>1, <2>2 DEF Shaped, Gathering, Waiting
<1> QED BY <1>2, <1>3, <1>4, <1>5, <1>6, <1>7, <1>8, <1>9 DEF Next, Flush

\* What is acked or dropped leaves the buffers, and nothing else does.
LEMMA Moved ==
    ASSUME NEW A, NEW D, NEW K, NEW O, NEW X,
           K \cap O = {}, K \cap X = {}, O \cap X = {},
           (K \cup O \cup X) \cap (A \cup D) = {}, A \cap D = {}
    PROVE  /\ K \cap ((A \cup O) \cup (D \cup X)) = {}
           /\ (A \cup O) \cap (D \cup X) = {}
           /\ K \cup (A \cup O) \cup (D \cup X) = (K \cup O \cup X) \cup A \cup D
  OBVIOUS

-----------------------------------------------------------------------------
\* Buffers that are cleared, into acked and dropped.
LEMMA ClearPlaces ==
    ASSUME Placed, NEW done \in SUBSET Partition, NEW ok \in SUBSET done,
           SbClear(done), Past' = Past,
           acked' = acked \cup Messages(ok), dropped' = dropped \cup Messages(done \ ok),
           \A p \in Partition : Range(log[p]) \subseteq Range(log'[p]),
           \A p \in ok : Range(sb[p]) \subseteq Range(log'[p])
    PROVE  Placed'
<1>1. /\ \A p \in done : Range(sb'[p]) = {}
      /\ \A p \in Partition \ done : sb'[p] = sb[p]
  BY Cleared
<1>2. \A p, q \in Partition : p # q => Range(sb'[p]) \cap Range(sb'[q]) = {}
  BY <1>1 DEF Placed
<1>3. Messages(Partition)' = Messages(Partition \ done)
  <2>1. Messages(Partition)' = UNION {Range(sb'[p]) : p \in Partition}
    BY DEF Messages
  <2>2. ASSUME NEW m PROVE m \in Messages(Partition)' <=> m \in Messages(Partition \ done)
    <3>1. m \in Messages(Partition)' <=> \E p \in Partition : m \in Range(sb'[p])
      BY <2>1
    <3>2. m \in Messages(Partition \ done) <=> \E p \in Partition \ done : m \in Range(sb[p])
      BY DEF Messages
    <3> QED BY <1>1, <3>1, <3>2
  <2> QED BY <2>2
<1>4. \A P \in SUBSET Partition : \A m :
         m \in Messages(P) <=> \E p \in P : m \in Range(sb[p])
  BY DEF Messages
<1>5. /\ Messages(Partition \ done) \cap Messages(ok) = {}
      /\ Messages(Partition \ done) \cap Messages(done \ ok) = {}
      /\ Messages(ok) \cap Messages(done \ ok) = {}
  <2>1. \A P, Q \in SUBSET Partition : P \cap Q = {} => Messages(P) \cap Messages(Q) = {}
    BY <1>4 DEF Placed
  <2> QED BY <2>1
<1>6. Messages(Partition) = Messages(Partition \ done) \cup Messages(ok) \cup Messages(done \ ok)
  <2>1. ASSUME NEW m
        PROVE  m \in Messages(Partition) <=>
                 m \in Messages(Partition \ done) \cup Messages(ok) \cup Messages(done \ ok)
    <3>1. \A p : p \in Partition <=> p \in Partition \ done \/ p \in ok \/ p \in done \ ok
      OBVIOUS
    <3> QED BY <1>4, <3>1
  <2> QED BY <2>1
<1>7. ASSUME NEW m \in acked' PROVE \E p \in Partition : m \in Range(log'[p])
  <2>1. CASE m \in acked
    BY <2>1 DEF Placed
  <2>2. CASE m \in Messages(ok)
    BY <1>4, <2>2
  <2> QED BY <1>7, <2>1, <2>2
<1>8. /\ Messages(Partition) \cap (acked \cup dropped) = {}
       /\ acked \cap dropped = {}
       /\ Messages(Partition) \cup acked \cup dropped = 1 .. Past
  BY DEF Placed
<1>9. /\ Messages(Partition)' \cap (acked' \cup dropped') = {} /\ acked' \cap dropped' = {}
      /\ Messages(Partition)' \cup acked' \cup dropped' = 1 .. Past
  <2> DEFINE K == Messages(Partition \ done)
             O == Messages(ok)
             X == Messages(done \ ok)
  <2>1. K \cap O = {} /\ K \cap X = {} /\ O \cap X = {}
    BY <1>5
  <2>2. acked' = acked \cup O /\ dropped' = dropped \cup X
    OBVIOUS
  <2>3. Messages(Partition)' = K
    BY <1>3
  <2>4. Messages(Partition) = K \cup O \cup X
    BY <1>6
  <2> HIDE DEF K, O, X
  <2>5. (K \cup O \cup X) \cap (acked \cup dropped) = {} /\ acked \cap dropped = {}
    BY <1>8, <2>4
  <2>6. /\ K \cap ((acked \cup O) \cup (dropped \cup X)) = {}
        /\ (acked \cup O) \cap (dropped \cup X) = {}
        /\ K \cup (acked \cup O) \cup (dropped \cup X) = (K \cup O \cup X) \cup acked \cup dropped
    BY <2>1, <2>5, Moved, Zenon
  <2>7. Messages(Partition)' \cup acked' \cup dropped' = 1 .. Past
    BY <1>8, <2>2, <2>3, <2>4, <2>6, Zenon
  <2> QED BY <2>2, <2>3, <2>6, <2>7, Zenon
<1>10. 1 .. Past' = 1 .. Past
  OBVIOUS
<1> QED BY <1>2, <1>7, <1>9, <1>10, ZenonT(40) DEF Placed

LEMMA PlacedStep ==
    ASSUME RoundInv, QInv, [Next]_vars
    PROVE  Placed'
<1>1. Placed /\ Past \in Nat /\ Past' \in Nat /\ (~ Choose => Past' = Past)
  BY PastMoves DEF QInv
<1>2. req \subseteq Used /\ Used \subseteq Partition
  BY DEF RoundInv, RoundsInv, Used
<1>3. CASE Choose
  <2>1. PICK p \in Partition : SbAdd(p, hand)
    BY <1>3, ProducerAssumption DEF Choose
  <2>2. hand = Past + 1 /\ Past' = Past + 1 /\ hand \in Entry /\ sb \in [Partition -> Seq(Entry)]
    BY <1>3, PastMoves DEF QInv, Shaped
  <2>3. sb' = [sb EXCEPT ![p] = Append(sb[p], hand)]
    BY <2>1 DEF SbAdd
  <2>4. \A q \in Partition : Range(sb'[q]) = IF q = p THEN Range(sb[q]) \cup {Past + 1} ELSE Range(sb[q])
    <3>1. Range(Append(sb[p], hand)) = Range(sb[p]) \cup {hand}
      BY <2>2, AppendRange
    <3> QED BY <2>2, <2>3, <3>1
  <2>5. \A m : m \in Messages(Partition) <=> \E q \in Partition : m \in Range(sb[q])
    BY DEF Messages
  <2>6. \A m : m \in Messages(Partition)' <=> \E q \in Partition : m \in Range(sb'[q])
    <3>1. Messages(Partition)' = UNION {Range(sb'[q]) : q \in Partition}
      BY DEF Messages
    <3> QED BY <3>1
  <2>7. Messages(Partition)' = Messages(Partition) \cup {Past + 1}
    BY <2>4, <2>5, <2>6
  <2>8. Past + 1 \notin 1 .. Past /\ 1 .. Past' = (1 .. Past) \cup {Past + 1}
    BY <1>1, <2>2
  <2>9. UNCHANGED <<acked, dropped, log>>
    BY <1>3 DEF Choose
  <2>10. \A q \in Partition : Past + 1 \notin Range(sb[q])
    BY <1>1, <2>5, <2>8 DEF Placed
  <2>11. \A q, r \in Partition : q # r => Range(sb'[q]) \cap Range(sb'[r]) = {}
    <3>1. \A q, r \in Partition : q # r => Range(sb[q]) \cap Range(sb[r]) = {}
      BY <1>1 DEF Placed
    <3> SUFFICES ASSUME NEW q \in Partition, NEW r \in Partition, q # r
                 PROVE  Range(sb'[q]) \cap Range(sb'[r]) = {}
      OBVIOUS
    <3>2. Range(sb[q]) \cap Range(sb[r]) = {}
      BY <3>1
    <3>3. CASE q = p
      BY <2>4, <2>10, <3>2, <3>3
    <3>4. CASE r = p
      BY <2>4, <2>10, <3>2, <3>4
    <3>5. CASE q # p /\ r # p
      BY <2>4, <3>2, <3>5
    <3> QED BY <3>3, <3>4, <3>5
  <2>12. /\ Messages(Partition)' \cap (acked' \cup dropped') = {} /\ acked' \cap dropped' = {}
         /\ Messages(Partition)' \cup acked' \cup dropped' = 1 .. Past'
    BY <1>1, <2>7, <2>8, <2>9 DEF Placed
  <2> QED BY <1>1, <2>9, <2>11, <2>12 DEF Placed
<1>4. CASE Answered
  <2>1. PICK got, ok, done \in SUBSET req :
             /\ ok \subseteq got /\ ok \subseteq done
             /\ Logged(got) /\ SbClear(done)
             /\ acked' = acked \cup Messages(ok)
             /\ dropped' = dropped \cup Messages(done \ ok)
             /\ at = "answer"
    BY <1>4, Answer
  <2>2. got \in SUBSET Partition /\ done \in SUBSET Partition /\ ok \in SUBSET done
    BY <1>2, <2>1
  <2>3. /\ \A p \in Partition : Range(log[p]) \subseteq Range(log'[p])
        /\ \A p \in ok : Range(sb[p]) \subseteq Range(log'[p])
    BY <2>1, <2>2, LoggedFacts
  <2>4. Past' = Past
    BY <1>1, <2>1 DEF Choose
  <2> QED BY <1>1, <2>1, <2>2, <2>3, <2>4, ClearPlaces
<1>5. CASE GiveUp
  <2>1. /\ SbClear(Used) /\ dropped' = dropped \cup Messages(Used) /\ acked' = acked
        /\ log' = log /\ at = "send"
    BY <1>5 DEF GiveUp
  <2>2. /\ {} \in SUBSET Used /\ Used \in SUBSET Partition /\ Messages({}) = {}
        /\ Used \ {} = Used
    BY <1>2 DEF Messages
  <2>3. Past' = Past
    BY <1>1, <2>1 DEF Choose
  <2>4. acked' = acked \cup Messages({}) /\ dropped' = dropped \cup Messages(Used \ {})
    BY <2>1, <2>2
  <2> QED BY <1>1, <2>1, <2>2, <2>3, <2>4, ClearPlaces
<1>6. CASE Unanswered
  <2>1. UNCHANGED <<sb, acked, dropped>> /\ at = "answer"
    BY <1>6 DEF Unanswered
  <2>2. PICK P \in SUBSET Partition : Logged(P)
    BY <1>2, <1>6 DEF Unanswered
  <2>3. \A p \in Partition : Range(log[p]) \subseteq Range(log'[p])
    BY <2>2, LoggedFacts
  <2>4. 1 .. Past' = 1 .. Past
    BY <1>1, <2>1 DEF Choose
  <2>5. Messages(Partition)' = Messages(Partition)
    BY <2>1 DEF Messages
  <2>6. ASSUME NEW m \in acked' PROVE \E p \in Partition : m \in Range(log'[p])
    <3>1. PICK p \in Partition : m \in Range(log[p])
      BY <1>1, <2>1, <2>6 DEF Placed
    <3> QED BY <2>3, <3>1
  <2> QED BY <1>1, <2>1, <2>4, <2>5, <2>6, SMTT(40) DEF Placed
<1>7. CASE ~ (Choose \/ Answered \/ GiveUp \/ Unanswered)
  <2>1. UNCHANGED <<sb, acked, dropped, log>>
    BY <1>7 DEF Next, Flush, vars, flushVars, Send, ConfFetched, Idle, Start, PopOne,
       FetchEnds, Drained, Aggregate, AggregateAsks, RefetchEnds, SendOne, AllSent, Retry,
       RefreshEnds
  <2>2. 1 .. Past' = 1 .. Past
    BY <1>1, <1>7
  <2>3. Messages(Partition)' = Messages(Partition)
    BY <2>1 DEF Messages
  <2>4. acked' = acked /\ dropped' = dropped /\ sb' = sb /\ log' = log
    BY <2>1
  <2> QED BY <1>1, <2>2, <2>3, <2>4, ZenonT(40) DEF Placed
<1> QED BY <1>3, <1>4, <1>5, <1>6, <1>7

-----------------------------------------------------------------------------
\* A step that takes brokers the buffers of P, perhaps of none, and clears
\* those of C, perhaps none, between rounds only where none is left.
LEMMA SendsOrdered ==
    ASSUME RoundInv, QInv, NEW P \in SUBSET Partition, NEW C \in SUBSET Partition,
           log' = log \/ (Logged(P) /\ at \notin Gathering),
           \A p \in Partition : IF p \in C THEN Range(sb'[p]) = {} /\ Sorted(sb'[p]) ELSE sb'[p] = sb[p],
           Past' = Past,
           \/ at' \notin Gathering
           \/ at \in Gathering /\ log' = log
           \/ \A p \in Partition : Range(sb'[p]) = {}
    PROVE  Ordered'
<1>1. Ordered
  BY DEF QInv
<1>2. /\ log' \in [Partition -> Seq(Entry)]
      /\ \A p \in Partition :
           /\ Sorted(log'[p]) /\ Range(log'[p]) \subseteq 1 .. Past
           /\ log'[p] = log[p] \/ (Range(sb[p]) \subseteq Range(log'[p]) /\ at \notin Gathering)
  <2>1. CASE log' = log
    BY <1>1, <2>1 DEF Ordered
  <2>2. CASE Logged(P) /\ at \notin Gathering
    <3>1. /\ log' \in [Partition -> Seq(Entry)]
          /\ \A p \in Partition :
               /\ Sorted(log'[p]) /\ Range(log'[p]) \subseteq 1 .. Past
               /\ p \in P => Range(sb[p]) \subseteq Range(log'[p])
               /\ p \notin P => log'[p] = log[p]
      BY <2>2, LoggedFacts
    <3> QED BY <2>2, <3>1
  <2> QED BY <2>1, <2>2
<1>3. 1 .. Past' = 1 .. Past
  OBVIOUS
<1>4. ASSUME NEW p \in Partition
      PROVE  /\ Sorted(sb'[p])
             /\ \/ \A x \in Range(log'[p]), y \in Range(sb'[p]) : x < y
                \/ Range(sb'[p]) \subseteq Range(log'[p]) /\ at' \notin Gathering
  <2>1. CASE p \in C \/ Range(sb'[p]) = {}
    BY <1>1, <2>1 DEF Ordered
  <2>2. CASE p \notin C /\ Range(sb'[p]) # {}
    <3>1. sb'[p] = sb[p]
      BY <2>2
    <3>2. at' \notin Gathering \/ (at \in Gathering /\ log' = log)
      BY <2>2
    <3>3. /\ Sorted(sb[p])
          /\ \/ \A x \in Range(log[p]), y \in Range(sb[p]) : x < y
             \/ Range(sb[p]) \subseteq Range(log[p]) /\ at \notin Gathering
      BY <1>1 DEF Ordered
    <3> QED BY <1>2, <3>1, <3>2, <3>3
  <2> QED BY <2>1, <2>2
<1> QED BY <1>2, <1>3, <1>4 DEF Ordered

LEMMA OrderedStep ==
    ASSUME RoundInv, QInv, [Next]_vars
    PROVE  Ordered'
<1>1. Past \in Nat /\ Past' \in Nat /\ (~ Choose => Past' = Past)
  BY PastMoves DEF QInv
<1>2. req \subseteq Used /\ Used \subseteq Partition /\ {} \in SUBSET Partition
  BY DEF RoundInv, RoundsInv, Used
<1>3. \A p \in Partition : Range(<<>>) = {} /\ Sorted(<<>>)
  BY DEF Range, Sorted
<1>4. CASE Choose
  <2>1. PICK p \in Partition : SbAdd(p, hand)
    BY <1>4, ProducerAssumption DEF Choose
  <2>2. /\ hand = Past + 1 /\ Past' = Past + 1 /\ hand \in Entry
        /\ sb \in [Partition -> Seq(Entry)] /\ Entry \subseteq Nat
    BY <1>4, PastMoves, PastEntry DEF QInv, Shaped
  <2>3. sb' = [sb EXCEPT ![p] = Append(sb[p], hand)]
    BY <2>1 DEF SbAdd
  <2>4. log' = log /\ at = "choose" /\ Ordered
    BY <1>4 DEF Choose, QInv
  <2>5. ASSUME NEW q \in Partition
        PROVE  /\ Sorted(sb'[q])
               /\ \A x \in Range(log[q]), y \in Range(sb'[q]) : x < y
    <3>1. /\ \A x \in Range(log[q]), y \in Range(sb[q]) : x < y
          /\ Sorted(sb[q]) /\ Range(log[q]) \subseteq 1 .. Past
      BY <2>4 DEF Ordered, Gathering
    <3>2. Range(sb[q]) \subseteq 1 .. Past /\ sb[q] \in Seq(Entry)
      BY BufferPast DEF QInv
    <3>3. CASE q # p
      BY <2>2, <2>3, <3>1, <3>3
    <3>4. CASE q = p
      <4>1. sb'[q] = Append(sb[q], hand)
        BY <2>2, <2>3, <3>4
      <4>2. Range(Append(sb[q], hand)) = Range(sb[q]) \cup {hand}
        BY <2>2, <3>2, AppendRange
      <4>3. \A x \in 1 .. Past : x < hand
        BY <1>1, <2>2
      <4>4. Sorted(Append(sb[q], hand))
        BY <2>2, <3>1, <3>2, <4>3, AppendSorted
      <4> QED BY <3>1, <4>1, <4>2, <4>3, <4>4
    <3> QED BY <3>3, <3>4
  <2>6. 1 .. Past \subseteq 1 .. Past'
    BY <1>1, <2>2
  <2> QED BY <2>4, <2>5, <2>6 DEF Ordered
<1>5. CASE Answered
  <2>1. PICK got, ok, done \in SUBSET req :
             Logged(got) /\ SbClear(done) /\ at = "answer" /\ at' \in {"send", "dead"}
    BY <1>5, Answer
  <2>2. got \in SUBSET Partition /\ done \in SUBSET Partition
    BY <1>2, <2>1
  <2>3. \A p \in Partition : IF p \in done THEN Range(sb'[p]) = {} /\ Sorted(sb'[p])
                             ELSE sb'[p] = sb[p]
    BY <1>3, <2>1, <2>2, Cleared
  <2>4. Past' = Past /\ at \notin Gathering /\ at' \notin Gathering
    BY <1>1, <2>1 DEF Choose, Gathering
  <2> QED BY <2>1, <2>2, <2>3, <2>4, SendsOrdered
<1>6. CASE GiveUp
  <2>1. SbClear(Used) /\ log' = log /\ at = "send"
    BY <1>6 DEF GiveUp
  <2>2. /\ \A p \in Used : Range(sb'[p]) = {} /\ Sorted(sb'[p])
        /\ \A p \in Partition \ Used : sb'[p] = sb[p] /\ sb[p] = <<>>
    BY <1>2, <1>3, <2>1, Cleared DEF Used
  <2>3. \A p \in Partition : Range(sb'[p]) = {}
    BY <1>3, <2>2
  <2>4. Past' = Past
    BY <1>1, <2>1 DEF Choose
  <2> QED BY <1>2, <2>1, <2>2, <2>3, <2>4, SendsOrdered
<1>7. CASE Unanswered
  <2>1. PICK P \in SUBSET Partition : Logged(P)
    BY <1>2, <1>7 DEF Unanswered
  <2>2. sb' = sb /\ at = "answer" /\ at' = "send"
    BY <1>7 DEF Unanswered
  <2>3. Past' = Past /\ at \notin Gathering /\ at' \notin Gathering
    BY <1>1, <2>2 DEF Choose, Gathering
  <2> QED BY <1>2, <2>1, <2>2, <2>3, SendsOrdered
<1>8. CASE AllSent
  <2>1. sb' = sb /\ log' = log /\ at = "send" /\ Cardinality(Used) = 0
    BY <1>8 DEF AllSent, RoundInv, DoneIsDone
  <2>2. Used = {}
    BY <2>1, UsedFinite, FS_EmptySet
  <2>3. \A p \in Partition : Range(sb'[p]) = {}
    BY <2>1, <2>2, NoneUsed DEF QInv
  <2>4. Past' = Past
    BY <1>1, <2>1 DEF Choose
  <2> QED BY <1>2, <2>1, <2>3, <2>4, SendsOrdered
<1>9. CASE ~ (Choose \/ Answered \/ GiveUp \/ Unanswered \/ AllSent)
  <2>1. UNCHANGED <<sb, log>> /\ (at' \in Gathering => at \in Gathering)
    BY <1>9 DEF Next, Flush, vars, flushVars, Send, ConfFetched, Idle, Start, PopOne,
       FetchEnds, Drained, Aggregate, AggregateAsks, RefetchEnds, SendOne, Retry,
       RefreshEnds, Gathering
  <2>2. Past' = Past
    BY <1>1, <1>9
  <2> QED BY <1>2, <2>1, <2>2, SendsOrdered
<1> QED BY <1>4, <1>5, <1>6, <1>7, <1>8, <1>9

-----------------------------------------------------------------------------
LEMMA PlacesInit == Init => QInv
<1> SUFFICES ASSUME Init PROVE QInv
  OBVIOUS
<1>1. RingInit /\ num = 0 /\ Queued = 0
  BY DEF Init, RingInit, Queued, s
<1>2. Past = 0 /\ 1 .. Past = {}
  BY <1>1 DEF Past, Init
<1>3. Content = <<>> /\ DOMAIN Content = {}
  BY <1>1 DEF Content, Queued
<1>4. /\ <<>> \in Seq(Entry) /\ Range(<<>>) = {} /\ Len(<<>>) = 0 /\ Sorted(<<>>)
      /\ BatchNum \in Nat \ {0} /\ MaxRetry \in Nat \ {0}
  BY ProducerAssumption DEF Range, Sorted
<1>5. \A p \in Partition : sb[p] = <<>> /\ log[p] = <<>>
  BY DEF Init
<1>6. Shaped
  <2>1. sb \in [Partition -> Seq(Entry)]
    BY <1>4 DEF Init
  <2>2. \A p \in Partition : Len(sb[p]) <= BatchNum /\ Len(sb[p]) < BatchNum
    BY <1>4, <1>5
  <2>3. 0 \in 0 .. MaxRetry
    BY <1>4
  <2> QED BY <2>1, <2>2, <2>3 DEF Init, Shaped
<1>7. Numbered
  BY <1>2, <1>3, EntryNat DEF Init, Numbered
<1>8. Placed
  <2>1. Messages(Partition) = {}
    BY <1>4, <1>5 DEF Messages
  <2> QED BY <1>2, <1>4, <1>5, <2>1 DEF Init, Placed
<1>9. Ordered
  <2>1. log \in [Partition -> Seq(Entry)]
    BY <1>4 DEF Init
  <2> QED BY <1>4, <1>5, <2>1 DEF Ordered
<1> QED BY <1>6, <1>7, <1>8, <1>9 DEF QInv

LEMMA PlacesKept == Spec => [](RoundInv /\ QInv)
<1>1. RoundInv /\ QInv /\ [Next]_vars => QInv'
  BY PastMoves, ShapedStep, PlacedStep, OrderedStep DEF QInv
<1> QED BY <1>1, PlacesInit, RoundKept, PTL DEF Spec

\* A message that was accepted is in one place.
LEMMA HeldThere == RoundInv /\ QInv => Held
<1> SUFFICES ASSUME RoundInv, QInv, NEW m \in 1 .. accepted
             PROVE  /\ (IF InRing(m) THEN 1 ELSE 0) + (IF InHand(m) THEN 1 ELSE 0)
                       + Cardinality(Buffers(m)) + (IF m \in acked THEN 1 ELSE 0)
                       + (IF m \in dropped THEN 1 ELSE 0) = 1
                    /\ m \in acked => \E p \in Partition : m \in Range(log[p])
  BY DEF Held
<1>1. /\ num \div s \in Nat /\ Queued \in Nat /\ DOMAIN Content = 1 .. Queued
  <2>1. RingInv
    BY DEF RoundInv
  <2>2. num \div s \in Nat /\ Content \in Seq(Entry) /\ Len(Content) = num \div s
    BY <2>1, Shape
  <2> QED BY <2>2, LenProperties DEF Queued
<1>2. /\ accepted \in 0 .. Cardinality(Entry) /\ accepted \in Nat /\ Past \in Nat
      /\ \A i \in DOMAIN Content : Content[i] = accepted - Queued + i
      /\ hand # Nil => hand = Past + 1
      /\ Past = accepted - Queued - (IF hand = Nil THEN 0 ELSE 1)
  BY EntryNat DEF QInv, Numbered, Past
<1>3. m \in Entry /\ m \in Nat /\ m # Nil
  BY <1>2, EntryNat, ProducerAssumption
<1>4. InRing(m) <=> m > accepted - Queued
  <2>1. InRing(m) => m > accepted - Queued
    BY <1>1, <1>2 DEF InRing, Range
  <2>2. ASSUME m > accepted - Queued PROVE InRing(m)
    <3>1. m - (accepted - Queued) \in DOMAIN Content
      BY <1>1, <1>2, <1>3, <2>2
    <3>2. Content[m - (accepted - Queued)] = m
      BY <1>1, <1>2, <1>3, <3>1
    <3> QED BY <3>1, <3>2 DEF InRing, Range
  <2> QED BY <2>1, <2>2
<1>5. InHand(m) <=> hand # Nil /\ m = Past + 1
  BY <1>2, <1>3 DEF InHand
<1>6. /\ m \in Messages(Partition) <=> Buffers(m) # {}
      /\ \A p, q \in Buffers(m) : p = q
  BY DEF Messages, Buffers, QInv, Placed
<1>7. /\ Messages(Partition) \cap (acked \cup dropped) = {} /\ acked \cap dropped = {}
      /\ Messages(Partition) \cup acked \cup dropped = 1 .. Past
  BY DEF QInv, Placed
<1>8. Cardinality(Buffers(m)) = IF m \in Messages(Partition) THEN 1 ELSE 0
  <2>1. CASE m \in Messages(Partition)
    <3>1. PICK p : Buffers(m) = {p}
      BY <1>6, <2>1
    <3> QED BY <2>1, <3>1, FS_Singleton
  <2>2. CASE m \notin Messages(Partition)
    BY <1>6, <2>2, FS_EmptySet
  <2> QED BY <2>1, <2>2
<1>9. m \in acked => \E p \in Partition : m \in Range(log[p])
  BY DEF QInv, Placed
<1>10. CASE m \in 1 .. Past
  <2>1. ~ InRing(m) /\ ~ InHand(m)
    BY <1>1, <1>2, <1>4, <1>5, <1>10
  <2>2. \/ m \in Messages(Partition) /\ m \notin acked /\ m \notin dropped
        \/ m \notin Messages(Partition) /\ m \in acked /\ m \notin dropped
        \/ m \notin Messages(Partition) /\ m \notin acked /\ m \in dropped
    BY <1>7, <1>10
  <2> QED BY <1>8, <1>9, <2>1, <2>2
<1>11. CASE m \notin 1 .. Past
  <2>1. m \notin Messages(Partition) /\ m \notin acked /\ m \notin dropped
    BY <1>7, <1>11
  <2>2. \/ InRing(m) /\ ~ InHand(m)
        \/ ~ InRing(m) /\ InHand(m)
    BY <1>1, <1>2, <1>3, <1>4, <1>5, <1>11
  <2> QED BY <1>8, <1>9, <2>1, <2>2
<1> QED BY <1>10, <1>11

LEMMA TypesHold == RoundInv /\ QInv => TypeOK
<1> SUFFICES ASSUME RoundInv, QInv PROVE TypeOK
  OBVIOUS
<1>1. Past \in Nat /\ 1 .. Past \subseteq Entry
  BY PastEntry DEF QInv
<1>2. sb \in [Partition -> BoundedSeq(Entry, BatchNum)]
  <2>1. ASSUME NEW p \in Partition PROVE sb[p] \in BoundedSeq(Entry, BatchNum)
    <3>1. sb[p] \in Seq(Entry) /\ Len(sb[p]) <= BatchNum /\ BatchNum \in Nat
      BY ProducerAssumption DEF QInv, Shaped
    <3>2. Len(sb[p]) \in 0 .. BatchNum /\ sb[p] \in [1 .. Len(sb[p]) -> Entry]
      BY <3>1, LenProperties
    <3> QED BY <3>2 DEF BoundedSeq, SeqOf
  <2> QED BY <2>1 DEF QInv, Shaped
<1>3. queue_num \in 0 .. Cardinality(Partition)
  <2>1. Used \in SUBSET Partition
    BY DEF Used
  <2>2. Cardinality(Used) <= Cardinality(Partition) /\ Cardinality(Partition) \in Nat
    BY <2>1, ProducerAssumption, FS_Subset, FS_CardinalityType
  <2> QED BY <2>2, UsedFinite DEF RoundInv, DoneIsDone
<1>4. acked \subseteq Entry /\ dropped \subseteq Entry
  BY <1>1 DEF QInv, Placed
<1>5. \A p \in Partition : Range(log[p]) \subseteq Entry
  BY <1>1 DEF QInv, Ordered
<1>6. RingTypeOK /\ hand \in Entry \cup {Nil} /\ req \subseteq Partition
  BY DEF RoundInv, RingInv, RoundsInv, Used
<1>7. accepted \in 0 .. Cardinality(Entry)
  BY DEF QInv, Numbered
<1> QED BY <1>2, <1>3, <1>4, <1>5, <1>6, <1>7 DEF TypeOK, QInv, Shaped

\* Between send and an answer the producer neither loses nor doubles a message,
\* whatever brokers answer and however often a round is repeated (producer.lua,
\* _flush, _batch_send, _send; sendbuffer.lua).  The count that ends the rounds
\* is right (sb:done), so that a round leaves no buffer behind, and
\* producer:flush never wakes flush_co from a wait for a broker.
THEOREM ProducerKept == Spec => []ProducerInv
<1>1. RoundInv /\ QInv => ProducerInv
  BY HeldThere, TypesHold DEF ProducerInv, RoundInv
<1> QED BY <1>1, PlacesKept, PTL

\* A partition's log keeps the order the APP sent its messages in: a buffer is
\* sent whole, again and again until it is cleared, and grows only when no
\* round is on (producer.lua, _flush, _batch_send).
THEOREM SentInOrder == Spec => []InOrder
<1>1. QInv => InOrder
  BY DEF QInv, Ordered, Sorted, InOrder
<1> QED BY <1>1, PlacesKept, PTL
=============================================================================
