---------------------------- MODULE ModbusProofs ----------------------------
(***************************************************************************)
(* What the Modbus APP keeps, for any polls, configurations, transaction   *)
(* ids and bound of the channel: late and lost answers harm no request     *)
(* but their own, answers matched by id are taken for no other request,    *)
(* and a configuration finds nothing of the former one (Modbus).           *)
(***************************************************************************)
EXTENDS Modbus, SequencesExt, SequenceTheorems, FiniteSetTheorems, TLAPS

-----------------------------------------------------------------------------
(* Facts about the operators on sequences.                                  *)

\* RemoveAt leaves every element but one, each once.
LEMMA RemoveAtFacts ==
    ASSUME NEW S, NEW s \in Seq(S), NEW k \in DOMAIN s
    PROVE  LET q == RemoveAt(s, k) IN
           /\ q \in Seq(S) /\ Len(q) = Len(s) - 1
           /\ \A j \in DOMAIN q : \E i \in DOMAIN s \ {k} : q[j] = s[i]
           /\ \A i \in DOMAIN s \ {k} : \E j \in DOMAIN q : q[j] = s[i]
           /\ \A i, j \in DOMAIN q : i # j =>
                \E l, m \in DOMAIN s \ {k} : l # m /\ q[i] = s[l] /\ q[j] = s[m]
<1> DEFINE a == SubSeq(s, 1, k - 1)
           b == SubSeq(s, k + 1, Len(s))
           q == a \o b
           At(j) == IF j < k THEN j ELSE j + 1
<1>1. Len(s) \in Nat /\ k \in 1 .. Len(s) /\ DOMAIN s = 1 .. Len(s)
  BY LenProperties
<1>2. \A i \in 1 .. Len(s) : s[i] \in S
  BY ElementOfSeq
<1>3. /\ a \in Seq(S) /\ Len(a) = k - 1
      /\ \A i \in 1 .. k - 1 : a[i] = s[i]
  <2>1. \A i \in 1 .. k - 1 : s[i] \in S
    BY <1>1, <1>2
  <2> QED BY <1>1, <2>1, SubSeqProperties
<1>4. /\ b \in Seq(S) /\ Len(b) = Len(s) - k
      /\ \A i \in 1 .. Len(s) - k : b[i] = s[k + i]
  <2>1. \A i \in k + 1 .. Len(s) : s[i] \in S
    BY <1>1, <1>2
  <2>2. /\ SubSeq(s, k + 1, Len(s)) \in Seq(S)
        /\ Len(SubSeq(s, k + 1, Len(s))) = IF k + 1 <= Len(s) THEN Len(s) - (k + 1) + 1 ELSE 0
        /\ \A i \in 1 .. Len(s) - (k + 1) + 1 : SubSeq(s, k + 1, Len(s))[i] = s[k + 1 + i - 1]
    BY <1>1, <2>1, SubSeqProperties
  <2> QED BY <1>1, <2>2
<1> HIDE DEF a, b
<1>5. /\ q \in Seq(S) /\ Len(q) = Len(s) - 1
      /\ \A j \in 1 .. Len(s) - 1 : q[j] = s[At(j)]
  <2>1. /\ q \in Seq(S) /\ Len(q) = Len(a) + Len(b)
        /\ \A i \in 1 .. Len(a) + Len(b) : q[i] = IF i <= Len(a) THEN a[i] ELSE b[i - Len(a)]
    BY <1>3, <1>4, ConcatProperties
  <2>2. Len(a) + Len(b) = Len(s) - 1
    BY <1>1, <1>3, <1>4
  <2>3. ASSUME NEW j \in 1 .. Len(s) - 1 PROVE q[j] = s[At(j)]
    <3>1. CASE j < k
      BY <1>1, <1>3, <2>1, <2>2, <3>1
    <3>2. CASE ~ (j < k)
      <4>1. q[j] = b[j - (k - 1)]
        BY <1>1, <1>3, <2>1, <2>2, <3>2
      <4>2. j - (k - 1) \in 1 .. Len(s) - k /\ k + (j - (k - 1)) = j + 1
        BY <1>1, <3>2
      <4> QED BY <1>4, <3>2, <4>1, <4>2
    <3> QED BY <3>1, <3>2
  <2> QED BY <2>1, <2>2, <2>3
<1>6. q = RemoveAt(s, k)
  BY DEF RemoveAt, a, b
<1> HIDE DEF q
<1>7. DOMAIN q = 1 .. Len(s) - 1
  BY <1>1, <1>5, LenProperties
<1>8. ASSUME NEW i \in DOMAIN s \ {k} PROVE \E j \in DOMAIN q : q[j] = s[i]
  <2>1. CASE i < k
    <3>1. i \in DOMAIN q /\ q[i] = s[i]
      BY <1>1, <1>5, <1>7, <2>1
    <3> QED BY <3>1
  <2>2. CASE ~ (i < k)
    <3>1. i - 1 \in DOMAIN q /\ ~ (i - 1 < k) /\ i - 1 + 1 = i
      BY <1>1, <1>7, <2>2
    <3>2. q[i - 1] = s[i]
      BY <1>5, <1>7, <3>1
    <3> QED BY <3>1, <3>2
  <2> QED BY <2>1, <2>2
<1>9. \A j \in DOMAIN q : At(j) \in DOMAIN s \ {k}
  BY <1>1, <1>7
<1>10. \A i, j \in DOMAIN q : i # j => At(i) # At(j)
  BY <1>1, <1>7
<1>11. \A j \in DOMAIN q : \E i \in DOMAIN s \ {k} : q[j] = s[i]
  BY <1>5, <1>7, <1>9
<1>12. \A i, j \in DOMAIN q : i # j =>
           \E l, m \in DOMAIN s \ {k} : l # m /\ q[i] = s[l] /\ q[j] = s[m]
  <2> HIDE DEF At
  <2> QED BY <1>5, <1>7, <1>9, <1>10
<1> QED BY <1>5, <1>6, <1>8, <1>11, <1>12

\* Append adds one element at the end.
LEMMA AppendFacts ==
    ASSUME NEW S, NEW s \in Seq(S), NEW e \in S
    PROVE  /\ Append(s, e) \in Seq(S) /\ Len(Append(s, e)) = Len(s) + 1
           /\ DOMAIN Append(s, e) = DOMAIN s \cup {Len(s) + 1}
           /\ Len(s) + 1 \notin DOMAIN s
           /\ \A i \in DOMAIN s : Append(s, e)[i] = s[i]
           /\ Append(s, e)[Len(s) + 1] = e
<1>1. Len(s) \in Nat /\ DOMAIN s = 1 .. Len(s)
  BY LenProperties
<1>2. Append(s, e) \in Seq(S) /\ Len(Append(s, e)) = Len(s) + 1
  OBVIOUS
<1>3. DOMAIN Append(s, e) = 1 .. Len(s) + 1
  BY <1>2, LenProperties
<1> QED BY <1>1, <1>2, <1>3

\* A function on 1 .. n is a sequence of length n.
LEMMA FunctionSeq ==
    ASSUME NEW S, NEW n \in Nat, NEW f \in [1 .. n -> S]
    PROVE  f \in Seq(S) /\ Len(f) = n /\ DOMAIN f = 1 .. n
<1>1. f \in Seq(S)
  BY SeqDef
<1>2. DOMAIN f = 1 .. n /\ DOMAIN f = 1 .. Len(f) /\ Len(f) \in Nat
  BY <1>1, LenProperties
<1>3. Len(f) = n
  BY <1>2
<1> QED BY <1>1, <1>2, <1>3

\* A caller has at most one request it still awaits, and one while it asks.
Awaited ==
    /\ \A i, j \in DOMAIN pend :
          ~ pend[i].drop /\ ~ pend[j].drop /\ pend[i].who = pend[j].who => i = j
    /\ \A i \in DOMAIN pend : \A w \in Caller : ~ pend[i].drop /\ pend[i].who = w => Asking(w)
    /\ \A w \in Caller : Asking(w) => \E i \in DOMAIN pend : ~ pend[i].drop /\ pend[i].who = w

\* Answers to come have a request in the channel: by id it is their own, by
\* order there is one.
Matched ==
    /\ mode = "rtu" => pend = <<>>
    /\ mode = "rtu_tcp" => Len(wire) <= Len(pend)
    /\ mode = "tcp" =>
        /\ \A i, j \in DOMAIN pend : pend[i].tid = pend[j].tid => i = j
        /\ \A m, n \in DOMAIN wire : wire[m].tid = wire[n].tid => m = n
        /\ \A n \in DOMAIN wire : \E i \in DOMAIN pend :
              /\ pend[i].tid = wire[n].tid /\ pend[i].who = wire[n].who
              /\ pend[i].drop = wire[n].old

\* The polls of a configuration run one after the other at first: none after
\* the one that start has come to is under way.
Starting(g) ==
    /\ starter[g].at # "none" =>
        /\ starter[g].poll \in 1 .. Polls
        /\ \A q \in 1 .. Polls : q > starter[g].poll => chain[<<g, q>>] = "off"
    /\ starter[g].at = "sleep" => chain[<<g, starter[g].poll>>] = "off"
    /\ starter[g].at = "run" => chain[<<g, starter[g].poll>>] = "asking"

InTurn ==
    /\ \A g \in Conf : Starting(g)
    /\ \A g \in Conf : g > gen => starter[g].at = "none"
    /\ \A c \in Chain : c[1] > gen => chain[c] = "off"
    /\ stopping \in {"start", "fail"} => gen < MaxConf

\* Where configurations are left to start, what runs is of the last one; of
\* the former one timers are left at most, which stop waits for.
Waited ==
    /\ stopping # "no" => ~ running
    /\ stopping \in {"start", "fail", "exit"} => ~ open
    /\ \A c \in Chain : chain[c] # "off" =>
          \/ running /\ c[1] = gen
          \/ stopping \in {"start", "fail", "exit"} /\ chain[c] = "due" /\ c \in waits
    /\ \A g \in Conf : starter[g].at # "none" => running /\ g = gen
    /\ registered \subseteq (IF running THEN {gen} ELSE {})
    /\ registered \subseteq {devlist}

IInv == TypeOK /\ Awaited /\ Matched /\ InTurn /\ OwnAnswer /\ (Patient => Waited)

-----------------------------------------------------------------------------
(* The channel.                                                             *)

LEMMA NextTidType ==
    ASSUME tid \in 0 .. Tids - 1
    PROVE  NextTid \in 0 .. Tids - 1
<1>1. Tids \in Nat \ {0}
  BY ModbusAssumption
<1>2. \A n \in Nat : n % Tids \in 0 .. Tids - 1
  BY <1>1
<1> QED BY <1>2 DEF NextTid

LEMMA ReaderNoChain == Reader \notin Chain /\ Reader \in Caller
BY DEF Reader, Chain, Conf, Caller

\* A request takes at most the place of one that nobody awaits.
LEMMA OthersFacts ==
    ASSUME TypeOK, Matched, NEW t, mode # "tcp" \/ \A i \in DOMAIN pend : pend[i].tid = t => pend[i].drop
    PROVE  /\ Others(t) \in Seq(Request) /\ Len(Others(t)) <= Len(pend)
           /\ mode # "tcp" => Others(t) = pend
           /\ \A j \in DOMAIN Others(t) : \E i \in DOMAIN pend :
                Others(t)[j] = pend[i] /\ (mode = "tcp" => pend[i].tid # t)
           /\ \A i \in DOMAIN pend : (pend[i].tid # t \/ ~ pend[i].drop) =>
                \E j \in DOMAIN Others(t) : Others(t)[j] = pend[i]
           /\ \A i, j \in DOMAIN Others(t) : i # j =>
                \E m, n \in DOMAIN pend : m # n /\ Others(t)[i] = pend[m] /\ Others(t)[j] = pend[n]
<1>1. CASE mode = "tcp" /\ \E i \in DOMAIN pend : pend[i].tid = t
  <2> DEFINE k == CHOOSE i \in DOMAIN pend : pend[i].tid = t
  <2>1. k \in DOMAIN pend /\ pend[k].tid = t
    BY <1>1
  <2>2. Others(t) = RemoveAt(pend, k)
    BY <1>1 DEF Others
  <2>3. \A i \in DOMAIN pend \ {k} : pend[i].tid # t
    BY <1>1, <2>1 DEF Matched
  <2>4. pend \in Seq(Request)
    BY DEF TypeOK
  <2> HIDE DEF k
  <2> DEFINE q == RemoveAt(pend, k)
  <2>5. /\ q \in Seq(Request) /\ Len(q) = Len(pend) - 1
        /\ \A j \in DOMAIN q : \E i \in DOMAIN pend \ {k} : q[j] = pend[i]
        /\ \A i \in DOMAIN pend \ {k} : \E j \in DOMAIN q : q[j] = pend[i]
        /\ \A i, j \in DOMAIN q : i # j =>
             \E m, n \in DOMAIN pend \ {k} : m # n /\ q[i] = pend[m] /\ q[j] = pend[n]
    BY <2>1, <2>4, RemoveAtFacts
  <2>6. Len(q) <= Len(pend)
    <3>1. Len(pend) \in Nat
      BY <2>4, LenProperties
    <3> QED BY <2>5, <3>1
  <2>7. q = Others(t)
    BY <2>2
  <2> HIDE DEF q
  <2>8. \A i \in DOMAIN pend : (pend[i].tid # t \/ ~ pend[i].drop) => i # k
    BY <1>1, <2>1
  <2> QED BY <1>1, <2>3, <2>5, <2>6, <2>7, <2>8
<1>2. CASE ~ (mode = "tcp" /\ \E i \in DOMAIN pend : pend[i].tid = t)
  <2>1. Others(t) = pend
    BY <1>2 DEF Others
  <2>2. pend \in Seq(Request) /\ Len(pend) \in Nat
    BY LenProperties DEF TypeOK
  <2> QED BY <1>2, <2>1, <2>2
<1> QED BY <1>1, <1>2

\* A request by a caller that awaits none yet.
LEMMA AsksKeeps ==
    ASSUME TypeOK, Awaited, Matched, mode # "rtu", mode' = mode,
           NEW w \in Caller, ~ Asking(w), Asks(w),
           \A v \in Caller : Asking(v)' <=> (v = w \/ Asking(v))
    PROVE  /\ pend' \in Seq(Request) /\ Len(pend') <= MaxPend
           /\ wire' \in Seq(Answer) /\ tid' \in 0 .. Tids - 1
           /\ Awaited' /\ Matched'
<1> DEFINE t == NextTid
           r == [who |-> w, tid |-> t, drop |-> FALSE]
           a == [who |-> w, tid |-> t, old |-> FALSE]
           o == Others(t)
<1>1. t \in 0 .. Tids - 1 /\ r \in Request /\ a \in Answer
  BY NextTidType DEF TypeOK, Request, Answer
<1>2. pend \in Seq(Request) /\ wire \in Seq(Answer) /\ Len(pend) \in Nat /\ Len(wire) \in Nat
  BY LenProperties DEF TypeOK
<1>3. mode = "tcp" => TidFree
  BY DEF Asks
<1>4. /\ o \in Seq(Request) /\ Len(o) <= Len(pend)
      /\ mode # "tcp" => o = pend
      /\ \A j \in DOMAIN o : \E i \in DOMAIN pend :
           o[j] = pend[i] /\ (mode = "tcp" => pend[i].tid # t)
      /\ \A i \in DOMAIN pend : (pend[i].tid # t \/ ~ pend[i].drop) =>
           \E j \in DOMAIN o : o[j] = pend[i]
      /\ \A i, j \in DOMAIN o : i # j =>
           \E m, n \in DOMAIN pend : m # n /\ o[i] = pend[m] /\ o[j] = pend[n]
  BY <1>3, OthersFacts DEF TidFree
<1> DEFINE e == Len(o) + 1
<1>5. pend' = Append(o, r)
  BY DEF Asks
<1>6. tid' = t
  BY DEF Asks
<1>7. wire' = Append(wire, a) \/ wire' = wire
  BY DEF Asks
<1>8. Len(pend) < MaxPend /\ MaxPend \in Nat
  BY ModbusAssumption DEF Asks
<1>9. r.who = w /\ r.tid = t /\ r.drop = FALSE /\ a.who = w /\ a.tid = t /\ a.old = FALSE
  OBVIOUS
<1>10. mode = "tcp" => \A i \in DOMAIN wire : wire[i].tid # t
  BY <1>3 DEF TidFree
<1> HIDE DEF t, r, a, o
<1>11. /\ pend' \in Seq(Request) /\ Len(pend') = Len(o) + 1
       /\ DOMAIN pend' = DOMAIN o \cup {e} /\ e \notin DOMAIN o
       /\ \A i \in DOMAIN o : pend'[i] = o[i]
       /\ pend'[e] = r
  BY <1>1, <1>4, <1>5, AppendFacts
<1>12. Len(o) \in Nat
  BY <1>4, LenProperties
<1> HIDE DEF e
<1>13. Len(pend') <= MaxPend
  BY <1>2, <1>4, <1>8, <1>11, <1>12
<1>14. wire' \in Seq(Answer)
  <2>1. Append(wire, a) \in Seq(Answer)
    BY <1>1, <1>2, AppendFacts
  <2> QED BY <1>2, <1>7, <2>1
<1>15. Awaited'
  <2>1. /\ \A i, j \in DOMAIN pend :
              ~ pend[i].drop /\ ~ pend[j].drop /\ pend[i].who = pend[j].who => i = j
        /\ \A i \in DOMAIN pend : \A v \in Caller : ~ pend[i].drop /\ pend[i].who = v => Asking(v)
    BY DEF Awaited
  <2>2. ASSUME NEW i \in DOMAIN o, NEW j \in DOMAIN o,
               ~ o[i].drop, ~ o[j].drop, o[i].who = o[j].who, i # j
        PROVE  FALSE
    <3>1. PICK m \in DOMAIN pend, n \in DOMAIN pend : m # n /\ o[i] = pend[m] /\ o[j] = pend[n]
      BY <1>4, <2>2
    <3> QED BY <2>1, <2>2, <3>1
  <2>3. ASSUME NEW i \in DOMAIN o, NEW v \in Caller, ~ o[i].drop, o[i].who = v
        PROVE  v # w /\ Asking(v)
    <3>1. PICK m \in DOMAIN pend : o[i] = pend[m]
      BY <1>4
    <3> QED BY <2>1, <2>3, <3>1
  <2>4. \A i \in DOMAIN o : o[i].who \in Caller
    <3>1. \A i \in DOMAIN o : o[i] \in Request
      BY <1>4, ElementOfSeq, LenProperties
    <3> QED BY <3>1 DEF Request
  <2>5. \A i, j \in DOMAIN pend' :
           ~ pend'[i].drop /\ ~ pend'[j].drop /\ pend'[i].who = pend'[j].who => i = j
    BY <1>9, <1>11, <2>2, <2>3
  <2>6. \A i \in DOMAIN pend' : \A v \in Caller : ~ pend'[i].drop /\ pend'[i].who = v => Asking(v)'
    BY <1>9, <1>11, <2>3
  <2>7. ASSUME NEW v \in Caller, Asking(v)'
        PROVE  \E i \in DOMAIN pend' : ~ pend'[i].drop /\ pend'[i].who = v
    <3>1. CASE v = w
      BY <1>9, <1>11, <3>1
    <3>2. CASE Asking(v)
      <4>1. PICK i \in DOMAIN pend : ~ pend[i].drop /\ pend[i].who = v
        BY <3>2 DEF Awaited
      <4>2. PICK j \in DOMAIN o : o[j] = pend[i]
        BY <1>4, <4>1
      <4> QED BY <1>11, <4>1, <4>2
    <3> QED BY <2>7, <3>1, <3>2
  <2> QED BY <2>5, <2>6, <2>7 DEF Awaited
<1>16. Matched'
  <2>1. CASE mode = "rtu_tcp"
    <3>1. Len(wire) <= Len(pend) /\ o = pend
      BY <1>4, <2>1 DEF Matched
    <3>2. Len(wire') <= Len(wire) + 1
      BY <1>1, <1>2, <1>7, AppendFacts
    <3>3. Len(wire') \in Nat
      BY <1>14, LenProperties
    <3>4. Len(wire') <= Len(pend')
      BY <1>2, <1>11, <3>1, <3>2, <3>3
    <3> QED BY <2>1, <3>4 DEF Matched
  <2>2. CASE mode = "tcp"
    <3>1. \A i \in DOMAIN o : o[i].tid # t
      BY <1>4, <2>2
    <3>2. ASSUME NEW i \in DOMAIN o, NEW j \in DOMAIN o, o[i].tid = o[j].tid, i # j
          PROVE  FALSE
      <4>1. PICK m \in DOMAIN pend, n \in DOMAIN pend : m # n /\ o[i] = pend[m] /\ o[j] = pend[n]
        BY <1>4, <3>2
      <4> QED BY <2>2, <3>2, <4>1 DEF Matched
    <3>3. \A i, j \in DOMAIN pend' : pend'[i].tid = pend'[j].tid => i = j
      BY <1>9, <1>11, <3>1, <3>2
    <3>4. \A n \in DOMAIN wire : \E i \in DOMAIN pend' :
             /\ pend'[i].tid = wire[n].tid /\ pend'[i].who = wire[n].who
             /\ pend'[i].drop = wire[n].old
      <4>1. TAKE n \in DOMAIN wire
      <4>2. PICK i \in DOMAIN pend : /\ pend[i].tid = wire[n].tid /\ pend[i].who = wire[n].who
                                     /\ pend[i].drop = wire[n].old
        BY <2>2 DEF Matched
      <4>3. PICK j \in DOMAIN o : o[j] = pend[i]
        BY <1>4, <1>10, <2>2, <4>2
      <4> QED BY <1>11, <4>2, <4>3
    <3>5. \A m, n \in DOMAIN wire : wire[m].tid = wire[n].tid => m = n
      BY <2>2 DEF Matched
    <3>6. CASE wire' = wire
      BY <2>2, <3>3, <3>4, <3>5, <3>6 DEF Matched
    <3>7. CASE wire' = Append(wire, a)
      <4> DEFINE l == Len(wire) + 1
      <4>1. /\ DOMAIN wire' = DOMAIN wire \cup {l} /\ l \notin DOMAIN wire
            /\ \A i \in DOMAIN wire : wire'[i] = wire[i]
            /\ wire'[l] = a
        BY <1>1, <1>2, <3>7, AppendFacts
      <4> HIDE DEF l
      <4>2. \A m, n \in DOMAIN wire' : wire'[m].tid = wire'[n].tid => m = n
        BY <1>9, <1>10, <2>2, <3>5, <4>1, SMTT(40)
      <4>3. \A n \in DOMAIN wire' : \E i \in DOMAIN pend' :
             /\ pend'[i].tid = wire'[n].tid /\ pend'[i].who = wire'[n].who
             /\ pend'[i].drop = wire'[n].old
        BY ZenonT(40), <1>9, <1>11, <3>4, <4>1
      <4> QED BY <2>2, <3>3, <4>2, <4>3 DEF Matched
    <3> QED BY <1>7, <3>6, <3>7
  <2>3. CASE mode \notin {"tcp", "rtu_tcp"}
    BY <2>3 DEF Matched
  <2> QED BY <2>1, <2>2, <2>3
<1> QED BY <1>1, <1>6, <1>11, <1>13, <1>14, <1>15, <1>16

\* An answer has a request in the channel, its own if it is matched by id.
LEMMA ForFacts ==
    ASSUME TypeOK, Matched, NEW n \in 1 .. Len(wire), mode = "tcp" \/ (mode = "rtu_tcp" /\ n = 1)
    PROVE  /\ For(wire[n]) \in DOMAIN pend
           /\ pend[For(wire[n])] \in Request /\ wire[n] \in Answer
           /\ mode # "rtu_tcp" => /\ mode = "tcp"
                                  /\ pend[For(wire[n])].tid = wire[n].tid
                                  /\ pend[For(wire[n])].who = wire[n].who
                                  /\ pend[For(wire[n])].drop = wire[n].old
<1>1. /\ pend \in Seq(Request) /\ wire \in Seq(Answer) /\ Len(pend) \in Nat /\ Len(wire) \in Nat
      /\ DOMAIN pend = 1 .. Len(pend) /\ DOMAIN wire = 1 .. Len(wire)
      /\ mode \in {"tcp", "rtu_tcp", "rtu"}
  BY LenProperties, ModbusAssumption DEF TypeOK
<1>2. wire[n] \in Answer
  BY <1>1, ElementOfSeq
<1>3. mode # "rtu"
  OBVIOUS
<1>4. CASE mode = "tcp"
  <2> DEFINE a == wire[n]
  <2>1. PICK i \in DOMAIN pend : pend[i].tid = a.tid /\ pend[i].who = a.who /\ pend[i].drop = a.old
    BY <1>1, <1>4 DEF Matched
  <2>2. \A j \in DOMAIN pend : pend[j].tid = a.tid => j = i
    BY <1>4, <2>1 DEF Matched
  <2>3. For(a) = i
    BY <1>4, <2>1, <2>2 DEF For
  <2>4. pend[i] \in Request
    BY <1>1, ElementOfSeq
  <2> QED BY <1>2, <1>4, <2>1, <2>3, <2>4
<1>5. CASE mode = "rtu_tcp"
  <2>1. 1 \in DOMAIN pend
    BY <1>1, <1>5 DEF Matched
  <2>2. pend[1] \in Request
    BY <1>1, <2>1, ElementOfSeq
  <2>3. For(wire[n]) = 1
    BY <1>5 DEF For
  <2> QED BY <1>2, <1>5, <2>1, <2>2, <2>3
<1> QED BY <1>1, <1>3, <1>4, <1>5

\* An answer leaves, with its request.
Taken(k, n) == pend' = RemoveAt(pend, k) /\ wire' = RemoveAt(wire, n)

LEMMA DeliverKeeps ==
    ASSUME TypeOK, Awaited, Matched, mode' = mode,
           NEW n \in DOMAIN wire, mode = "tcp" \/ (mode = "rtu_tcp" /\ n = 1),
           NEW k \in DOMAIN pend, Taken(k, n),
           mode # "rtu_tcp" => mode = "tcp" /\ pend[k].tid = wire[n].tid,
           \A v \in Caller : Asking(v)' <=> (Asking(v) /\ (pend[k].drop \/ v # pend[k].who))
    PROVE  /\ pend' \in Seq(Request) /\ Len(pend') <= MaxPend /\ wire' \in Seq(Answer)
           /\ Awaited' /\ Matched'
<1>1. /\ pend \in Seq(Request) /\ wire \in Seq(Answer) /\ Len(pend) \in Nat /\ Len(wire) \in Nat
      /\ DOMAIN wire = 1 .. Len(wire)
      /\ Len(pend) <= MaxPend /\ MaxPend \in Nat /\ mode \in {"tcp", "rtu_tcp", "rtu"}
  BY LenProperties, ModbusAssumption DEF TypeOK
<1>2. /\ k \in DOMAIN pend /\ pend[k].who \in Caller
      /\ mode # "rtu_tcp" => mode = "tcp" /\ pend[k].tid = wire[n].tid
  <2>1. pend[k] \in Request
    BY <1>1, ElementOfSeq, LenProperties
  <2> QED BY <2>1 DEF Request
<1>3. /\ pend' \in Seq(Request) /\ Len(pend') = Len(pend) - 1
      /\ \A j \in DOMAIN pend' : \E i \in DOMAIN pend \ {k} : pend'[j] = pend[i]
      /\ \A i \in DOMAIN pend \ {k} : \E j \in DOMAIN pend' : pend'[j] = pend[i]
      /\ \A i, j \in DOMAIN pend' : i # j =>
            \E l, m \in DOMAIN pend \ {k} : l # m /\ pend'[i] = pend[l] /\ pend'[j] = pend[m]
  <2> DEFINE q == RemoveAt(pend, k)
  <2>1. /\ q \in Seq(Request) /\ Len(q) = Len(pend) - 1
        /\ \A j \in DOMAIN q : \E i \in DOMAIN pend \ {k} : q[j] = pend[i]
        /\ \A i \in DOMAIN pend \ {k} : \E j \in DOMAIN q : q[j] = pend[i]
        /\ \A i, j \in DOMAIN q : i # j =>
              \E l, m \in DOMAIN pend \ {k} : l # m /\ q[i] = pend[l] /\ q[j] = pend[m]
    <3>1. pend \in Seq(Request) /\ k \in DOMAIN pend
      BY <1>1, <1>2
    <3> QED BY <3>1, RemoveAtFacts
  <2>2. pend' = q
    BY DEF Taken
  <2> HIDE DEF q
  <2> QED BY <2>1, <2>2
<1>4. /\ wire' \in Seq(Answer) /\ Len(wire') = Len(wire) - 1
      /\ \A j \in DOMAIN wire' : \E i \in DOMAIN wire \ {n} : wire'[j] = wire[i]
      /\ \A i, j \in DOMAIN wire' : i # j =>
            \E l, m \in DOMAIN wire \ {n} : l # m /\ wire'[i] = wire[l] /\ wire'[j] = wire[m]
  <2> DEFINE q == RemoveAt(wire, n)
  <2>1. /\ q \in Seq(Answer) /\ Len(q) = Len(wire) - 1
        /\ \A j \in DOMAIN q : \E i \in DOMAIN wire \ {n} : q[j] = wire[i]
        /\ \A i \in DOMAIN wire \ {n} : \E j \in DOMAIN q : q[j] = wire[i]
        /\ \A i, j \in DOMAIN q : i # j =>
              \E l, m \in DOMAIN wire \ {n} : l # m /\ q[i] = wire[l] /\ q[j] = wire[m]
    <3>1. wire \in Seq(Answer) /\ n \in DOMAIN wire
      BY <1>1
    <3> QED BY <3>1, RemoveAtFacts
  <2>2. wire' = q
    BY DEF Taken
  <2> HIDE DEF q
  <2> QED BY <2>1, <2>2
<1>5. Awaited'
  <2>1. /\ \A i, j \in DOMAIN pend :
              ~ pend[i].drop /\ ~ pend[j].drop /\ pend[i].who = pend[j].who => i = j
        /\ \A i \in DOMAIN pend : \A v \in Caller : ~ pend[i].drop /\ pend[i].who = v => Asking(v)
        /\ \A v \in Caller : Asking(v) => \E i \in DOMAIN pend : ~ pend[i].drop /\ pend[i].who = v
    BY DEF Awaited
  <2>2. ASSUME NEW i \in DOMAIN pend', NEW j \in DOMAIN pend',
               ~ pend'[i].drop, ~ pend'[j].drop, pend'[i].who = pend'[j].who, i # j
        PROVE  FALSE
    <3>1. PICK l \in DOMAIN pend, m \in DOMAIN pend : l # m /\ pend'[i] = pend[l] /\ pend'[j] = pend[m]
      BY <1>3, <2>2
    <3> QED BY <2>1, <2>2, <3>1
  <2>3. ASSUME NEW i \in DOMAIN pend', NEW v \in Caller, ~ pend'[i].drop, pend'[i].who = v
        PROVE  Asking(v)'
    <3>1. PICK l \in DOMAIN pend \ {k} : pend'[i] = pend[l]
      BY <1>3
    <3>2. Asking(v)
      BY <2>1, <2>3, <3>1
    <3>3. pend[k].drop \/ v # pend[k].who
      BY <1>2, <2>1, <2>3, <3>1
    <3> QED BY <3>2, <3>3
  <2>4. ASSUME NEW v \in Caller, Asking(v)'
        PROVE  \E i \in DOMAIN pend' : ~ pend'[i].drop /\ pend'[i].who = v
    <3>1. Asking(v) /\ (pend[k].drop \/ v # pend[k].who)
      BY <2>4
    <3>2. PICK l \in DOMAIN pend : ~ pend[l].drop /\ pend[l].who = v
      BY <2>1, <3>1
    <3>3. l # k
      BY <3>1, <3>2
    <3>4. PICK j \in DOMAIN pend' : pend'[j] = pend[l]
      BY <1>3, <3>3
    <3> QED BY <3>2, <3>4
  <2> QED BY <2>2, <2>3, <2>4 DEF Awaited
<1>6. Matched'
  <2>1. CASE mode = "rtu_tcp"
    <3>1. Len(wire') <= Len(pend')
      BY <1>1, <1>3, <1>4, <2>1 DEF Matched
    <3> QED BY <2>1, <3>1 DEF Matched
  <2>2. CASE mode = "tcp"
    <3>1. /\ \A i, j \in DOMAIN pend : pend[i].tid = pend[j].tid => i = j
          /\ \A i, j \in DOMAIN wire : wire[i].tid = wire[j].tid => i = j
          /\ \A i \in DOMAIN wire : \E j \in DOMAIN pend :
               /\ pend[j].tid = wire[i].tid /\ pend[j].who = wire[i].who
               /\ pend[j].drop = wire[i].old
      BY <2>2 DEF Matched
    <3>2. ASSUME NEW i \in DOMAIN pend', NEW j \in DOMAIN pend', i # j
          PROVE  pend'[i].tid # pend'[j].tid
      <4>1. PICK l \in DOMAIN pend, m \in DOMAIN pend : l # m /\ pend'[i] = pend[l] /\ pend'[j] = pend[m]
        BY <1>3, <3>2
      <4> QED BY <3>1, <4>1
    <3>3. ASSUME NEW i \in DOMAIN wire', NEW j \in DOMAIN wire', i # j
          PROVE  wire'[i].tid # wire'[j].tid
      <4>1. PICK l \in DOMAIN wire, m \in DOMAIN wire : l # m /\ wire'[i] = wire[l] /\ wire'[j] = wire[m]
        BY <1>4, <3>3
      <4> QED BY <3>1, <4>1
    <3>4. ASSUME NEW m \in DOMAIN wire'
          PROVE  \E j \in DOMAIN pend' : /\ pend'[j].tid = wire'[m].tid /\ pend'[j].who = wire'[m].who
                                         /\ pend'[j].drop = wire'[m].old
      <4>1. PICK i \in DOMAIN wire \ {n} : wire'[m] = wire[i]
        BY <1>4
      <4>2. PICK j \in DOMAIN pend : /\ pend[j].tid = wire[i].tid /\ pend[j].who = wire[i].who
                                     /\ pend[j].drop = wire[i].old
        BY <3>1, <4>1
      <4>3. wire[i].tid # wire[n].tid
        BY <1>1, <3>1, <4>1
      <4>4. j # k
        BY <1>2, <2>2, <4>2, <4>3
      <4>5. PICK q \in DOMAIN pend' : pend'[q] = pend[j]
        BY <1>3, <4>4
      <4> QED BY <4>1, <4>2, <4>5
    <3> QED BY <2>2, <3>2, <3>3, <3>4 DEF Matched
  <2> QED BY <1>2, <2>1, <2>2
<1>7. Len(pend') <= MaxPend
  BY <1>1, <1>3
<1> QED BY <1>3, <1>4, <1>5, <1>6, <1>7

\* A caller gives up: its request and the answer to it are marked.
LEMMA DropKeeps ==
    ASSUME TypeOK, Awaited, Matched, mode' = mode, NEW w \in Caller, Drop(w), wire' = Late(w, wire),
           \A v \in Caller : Asking(v)' <=> (Asking(v) /\ v # w)
    PROVE  /\ pend' \in Seq(Request) /\ Len(pend') <= MaxPend /\ wire' \in Seq(Answer)
           /\ Awaited' /\ Matched'
<1> DEFINE p(i) == IF pend[i].who = w THEN [pend[i] EXCEPT !.drop = TRUE] ELSE pend[i]
           a(i) == IF wire[i].who = w THEN [wire[i] EXCEPT !.old = TRUE] ELSE wire[i]
<1>1. /\ pend \in Seq(Request) /\ wire \in Seq(Answer) /\ Len(pend) \in Nat /\ Len(wire) \in Nat
      /\ DOMAIN wire = 1 .. Len(wire) /\ DOMAIN pend = 1 .. Len(pend)
      /\ Len(pend) <= MaxPend
  BY LenProperties DEF TypeOK
<1>2. /\ \A i \in DOMAIN pend : pend[i] \in Request
      /\ \A i \in DOMAIN wire : wire[i] \in Answer
  BY <1>1, ElementOfSeq
<1>3. /\ \A i \in DOMAIN pend : /\ p(i) \in Request
                                /\ p(i).who = pend[i].who /\ p(i).tid = pend[i].tid
                                /\ p(i).drop = (pend[i].drop \/ pend[i].who = w)
      /\ \A i \in DOMAIN wire : /\ a(i) \in Answer
                                /\ a(i).who = wire[i].who /\ a(i).tid = wire[i].tid
                                /\ a(i).old = (wire[i].old \/ wire[i].who = w)
  BY <1>2 DEF Request, Answer
<1>4. /\ pend' = [i \in 1 .. Len(pend) |-> p(i)]
      /\ wire' = [i \in 1 .. Len(wire) |-> a(i)]
  BY <1>1 DEF Drop, Late
<1> HIDE DEF p, a
<1>5. /\ pend' \in Seq(Request) /\ wire' \in Seq(Answer)
      /\ Len(pend') = Len(pend) /\ Len(wire') = Len(wire)
      /\ DOMAIN pend' = DOMAIN pend /\ DOMAIN wire' = DOMAIN wire
  <2>1. pend' \in [1 .. Len(pend) -> Request]
    BY <1>1, <1>3, <1>4
  <2>2. wire' \in [1 .. Len(wire) -> Answer]
    BY <1>1, <1>3, <1>4
  <2> QED BY <1>1, <2>1, <2>2, FunctionSeq
<1>6. /\ \A i \in DOMAIN pend : /\ pend'[i].who = pend[i].who /\ pend'[i].tid = pend[i].tid
                                /\ pend'[i].drop = (pend[i].drop \/ pend[i].who = w)
      /\ \A i \in DOMAIN wire : /\ wire'[i].who = wire[i].who /\ wire'[i].tid = wire[i].tid
                                /\ wire'[i].old = (wire[i].old \/ wire[i].who = w)
  BY <1>1, <1>3, <1>4
<1>7. Awaited'
  <2>1. /\ \A i, j \in DOMAIN pend :
              ~ pend[i].drop /\ ~ pend[j].drop /\ pend[i].who = pend[j].who => i = j
        /\ \A i \in DOMAIN pend : \A v \in Caller : ~ pend[i].drop /\ pend[i].who = v => Asking(v)
        /\ \A v \in Caller : Asking(v) => \E i \in DOMAIN pend : ~ pend[i].drop /\ pend[i].who = v
    BY DEF Awaited
  <2>2. \A i, j \in DOMAIN pend' :
            ~ pend'[i].drop /\ ~ pend'[j].drop /\ pend'[i].who = pend'[j].who => i = j
    BY <1>5, <1>6, <2>1
  <2>3. ASSUME NEW i \in DOMAIN pend', NEW v \in Caller, ~ pend'[i].drop, pend'[i].who = v
        PROVE  Asking(v)'
    <3>1. ~ pend[i].drop /\ pend[i].who = v /\ v # w
      BY <1>5, <1>6, <2>3
    <3> QED BY <1>5, <2>1, <3>1
  <2>4. ASSUME NEW v \in Caller, Asking(v)'
        PROVE  \E i \in DOMAIN pend' : ~ pend'[i].drop /\ pend'[i].who = v
    <3>1. PICK i \in DOMAIN pend : ~ pend[i].drop /\ pend[i].who = v
      BY <2>1, <2>4
    <3>2. v # w
      BY <2>4
    <3>3. ~ pend'[i].drop /\ pend'[i].who = v
      BY <1>6, <3>1, <3>2
    <3> QED BY <1>5, <3>1, <3>3
  <2> QED BY <2>2, <2>3, <2>4 DEF Awaited
<1>8. Matched'
  <2>1. CASE mode = "rtu"
    BY <1>1, <1>5, <2>1, EmptySeq DEF Matched
  <2>2. CASE mode = "rtu_tcp"
    BY <1>5, <2>2 DEF Matched
  <2>3. CASE mode = "tcp"
    <3>1. \A i \in DOMAIN wire : \E j \in DOMAIN pend :
             /\ pend[j].tid = wire[i].tid /\ pend[j].who = wire[i].who
             /\ pend[j].drop = wire[i].old
      BY <2>3 DEF Matched
    <3>2. ASSUME NEW i \in DOMAIN wire'
          PROVE  \E j \in DOMAIN pend' : /\ pend'[j].tid = wire'[i].tid /\ pend'[j].who = wire'[i].who
                                         /\ pend'[j].drop = wire'[i].old
      <4>1. PICK j \in DOMAIN pend : /\ pend[j].tid = wire[i].tid /\ pend[j].who = wire[i].who
                                     /\ pend[j].drop = wire[i].old
        BY <1>5, <3>1
      <4>2. i \in DOMAIN wire /\ pend'[j].tid = wire'[i].tid /\ pend'[j].who = wire'[i].who
        BY <1>5, <1>6, <4>1
      <4>3. pend'[j].drop = wire'[i].old
        BY <1>6, <4>1, <4>2
      <4> QED BY <1>5, <4>2, <4>3
    <3>3. /\ \A i, j \in DOMAIN pend' : pend'[i].tid = pend'[j].tid => i = j
          /\ \A i, j \in DOMAIN wire' : wire'[i].tid = wire'[j].tid => i = j
      BY <1>5, <1>6, <2>3 DEF Matched
    <3> QED BY <2>3, <3>2, <3>3 DEF Matched
  <2>4. CASE mode \notin {"tcp", "rtu_tcp", "rtu"}
    BY <2>4 DEF Matched
  <2> QED BY <2>1, <2>2, <2>3, <2>4
<1> QED BY <1>1, <1>5, <1>7, <1>8

LEMMA LateType ==
    ASSUME NEW w \in Caller, NEW s \in Seq(Answer)
    PROVE  Late(w, s) \in Seq(Answer)
<1> DEFINE a(i) == IF s[i].who = w THEN [s[i] EXCEPT !.old = TRUE] ELSE s[i]
<1>1. Len(s) \in Nat /\ DOMAIN s = 1 .. Len(s)
  BY LenProperties
<1>2. \A i \in 1 .. Len(s) : s[i] \in Answer
  BY <1>1, ElementOfSeq
<1>3. \A i \in 1 .. Len(s) : a(i) \in Answer
  BY <1>2 DEF Answer
<1>4. Late(w, s) = [i \in 1 .. Len(s) |-> a(i)]
  BY <1>1 DEF Late
<1> HIDE DEF a
<1>5. Late(w, s) \in [1 .. Len(s) -> Answer]
  BY <1>3, <1>4
<1> QED BY <1>1, <1>5, FunctionSeq

\* A serial request leaves answers on the line, and takes one at most.
LEMMA SerialKeeps ==
    ASSUME TypeOK, NEW w \in Caller, NEW ok \in BOOLEAN, Serial(w, ok)
    PROVE  wire' \in Seq(Answer) /\ mixed' \in BOOLEAN /\ UNCHANGED <<tid, pend>>
<1>1. wire \in Seq(Answer) /\ mixed \in BOOLEAN /\ tid \in 0 .. Tids - 1
  BY DEF TypeOK
<1> DEFINE mine == [who |-> w, tid |-> tid, old |-> FALSE]
<1>2. PICK own \in {<<>>, <<mine>>} :
        /\ UNCHANGED <<tid, pend>>
        /\ \/ wire' = Late(w, wire \o own) /\ mixed' = mixed
           \/ /\ wire \o own # <<>>
              /\ wire' = Late(w, Tail(wire \o own))
              /\ mixed' = (mixed \/ (ok /\ (Head(wire \o own).who # w \/ Head(wire \o own).old)))
  BY DEF Serial
<1>3. mine \in Answer
  BY <1>1 DEF Answer
<1> HIDE DEF mine
<1> DEFINE line == wire \o own
<1>4. line \in Seq(Answer)
  <2>1. own \in Seq(Answer)
    <3>1. CASE own = <<>>
      BY <3>1
    <3>2. CASE own = <<mine>>
      BY <1>3, <3>2
    <3> QED BY <3>1, <3>2
  <2> QED BY <1>1, <2>1, ConcatProperties
<1>5. line # <<>> => Tail(line) \in Seq(Answer) /\ Head(line) \in Answer
  BY <1>4
<1>6. wire' \in Seq(Answer)
  <2> HIDE DEF line
  <2>1. Late(w, line) \in Seq(Answer)
    BY <1>4, LateType
  <2>2. line # <<>> => Late(w, Tail(line)) \in Seq(Answer)
    BY <1>5, LateType
  <2> QED BY <1>2, <2>1, <2>2 DEF line
<1>7. mixed' \in BOOLEAN
  <2>1. line # <<>> => Head(line).old \in BOOLEAN
    BY <1>5 DEF Answer
  <2>2. CASE mixed' = mixed
    BY <1>1, <2>2
  <2>3. CASE /\ line # <<>>
             /\ mixed' = (mixed \/ (ok /\ (Head(line).who # w \/ Head(line).old)))
    BY <1>1, <2>1, <2>3
  <2> QED BY <1>2, <2>2, <2>3
<1> QED BY <1>2, <1>6, <1>7

\* Nothing is left of a channel that failed.
LEMMA EmptyChannel ==
    ASSUME pend' = <<>>, wire' \in Seq(Answer), mode' # "rtu" => wire' = <<>>,
           \A w \in Caller : ~ Asking(w)'
    PROVE  /\ pend' \in Seq(Request) /\ Len(pend') <= MaxPend /\ wire' \in Seq(Answer)
           /\ Awaited' /\ Matched'
<1>1. /\ pend' \in Seq(Request) /\ Len(pend') = 0 /\ DOMAIN pend' = {}
      /\ mode' # "rtu" => Len(wire') = 0 /\ DOMAIN wire' = {}
  OBVIOUS
<1>2. Len(pend') <= MaxPend
  BY <1>1, ModbusAssumption
<1>3. Awaited'
  BY <1>1 DEF Awaited
<1>4. Matched'
  BY <1>1 DEF Matched
<1> QED BY <1>1, <1>2, <1>3, <1>4

\* The callers that wait are those whose request is awaited.
LEMMA AwaitingFacts ==
    ASSUME TypeOK, Awaited, NEW w \in Caller
    PROVE  w \in Awaiting <=> Asking(w)
<1>1. /\ \A i \in DOMAIN pend : \A v \in Caller : ~ pend[i].drop /\ pend[i].who = v => Asking(v)
      /\ \A v \in Caller : Asking(v) => \E i \in DOMAIN pend : ~ pend[i].drop /\ pend[i].who = v
  BY DEF Awaited
<1>2. Range(pend) = {pend[i] : i \in DOMAIN pend}
  BY DEF Range
<1>3. ASSUME w \in Awaiting PROVE Asking(w)
  <2>1. PICK q \in Range(pend) : ~ q.drop /\ q.who = w
    BY <1>3 DEF Awaiting
  <2>2. PICK i \in DOMAIN pend : pend[i] = q
    BY <1>2
  <2> QED BY <1>1, <2>1, <2>2
<1>4. ASSUME Asking(w) PROVE w \in Awaiting
  <2>1. PICK i \in DOMAIN pend : ~ pend[i].drop /\ pend[i].who = w
    BY <1>1, <1>4
  <2>2. pend[i] \in Range(pend)
    BY <1>2
  <2> QED BY <2>1, <2>2 DEF Awaiting
<1> QED BY <1>3, <1>4

-----------------------------------------------------------------------------
(* start, and the polls after it.                                           *)

Starters == [at : {"none", "sleep", "run"}, poll : 0 .. Polls]

\* Where start goes from st[g].
After(s) == IF s.poll < Polls THEN [at |-> "sleep", poll |-> s.poll + 1] ELSE NoStarter

LEMMA MovedFacts ==
    ASSUME NEW st \in [Conf -> Starters], NEW C
    PROVE  /\ Moved(st, C) \in [Conf -> Starters]
           /\ \A g \in Conf : Moved(st, C)[g] =
                IF st[g].at = "run" /\ <<g, st[g].poll>> \in C THEN After(st[g]) ELSE st[g]
<1>1. \A g \in Conf : Moved(st, C)[g] =
                IF st[g].at = "run" /\ <<g, st[g].poll>> \in C THEN After(st[g]) ELSE st[g]
  BY DEF Moved, After
<1>2. \A s \in Starters : After(s) \in Starters
  BY ModbusAssumption DEF Starters, After, NoStarter
<1>3. Moved(st, C) = [g \in Conf |-> Moved(st, C)[g]]
  BY DEF Moved
<1> HIDE DEF Moved
<1>4. \A g \in Conf : Moved(st, C)[g] \in Starters
  BY <1>1, <1>2
<1> QED BY <1>1, <1>3, <1>4

MovesOn(st, C) == starter' = Moved(st, C)

\* A poll that is due or asked ends, or the one that start has come to runs and
\* ends: start goes on if it waited for it.
LEMMA TurnEnds ==
    ASSUME TypeOK, NEW st \in [Conf -> Starters], NEW c \in Chain, NEW v \in {"off", "due"},
           \A g \in Conf : g # c[1] => st[g] = starter[g],
           \A g \in Conf : Starting(g),
           \/ /\ st = starter
              /\ chain[c] # "off"
           \/ /\ starter[c[1]].at = "sleep" /\ starter[c[1]].poll = c[2]
              /\ st[c[1]] = [starter[c[1]] EXCEPT !.at = "run"],
           chain' = [chain EXCEPT ![c] = v], MovesOn(st, {c})
    PROVE  /\ chain' \in [Chain -> {"off", "due", "asking"}]
           /\ starter' \in [Conf -> Starters]
           /\ \A g \in Conf : starter'[g].at # "none" => starter[g].at # "none"
           /\ \A g \in Conf : Starting(g)'
<1>1. /\ chain \in [Chain -> {"off", "due", "asking"}]
      /\ starter \in [Conf -> Starters] /\ Polls \in Nat \ {0}
  BY ModbusAssumption DEF TypeOK, Starters
<1>2. chain' \in [Chain -> {"off", "due", "asking"}]
  BY <1>1
<1>3. /\ starter' \in [Conf -> Starters]
      /\ \A g \in Conf : starter'[g] =
           IF st[g].at = "run" /\ <<g, st[g].poll>> \in {c} THEN After(st[g]) ELSE st[g]
  <2> DEFINE C == {c}
  <2> HIDE DEF C
  <2>1. /\ Moved(st, C) \in [Conf -> Starters]
        /\ \A g \in Conf : Moved(st, C)[g] =
             IF st[g].at = "run" /\ <<g, st[g].poll>> \in C THEN After(st[g]) ELSE st[g]
    BY MovedFacts
  <2>2. starter' = Moved(st, C)
    BY DEF MovesOn, C
  <2> HIDE DEF Moved
  <2>3. /\ starter' \in [Conf -> Starters]
        /\ \A g \in Conf : starter'[g] =
             IF st[g].at = "run" /\ <<g, st[g].poll>> \in C THEN After(st[g]) ELSE st[g]
    BY <2>1, <2>2
  <2> QED BY <2>3 DEF C
<1>4. \A g \in Conf : After(st[g]).at # "run"
  BY DEF After, NoStarter
<1>5. c = <<c[1], c[2]>> /\ c[1] \in Conf /\ c[2] \in 1 .. Polls
  BY DEF Chain
<1>6. ASSUME NEW g \in Conf
      PROVE  Starting(g)' /\ (starter'[g].at # "none" => starter[g].at # "none")
  <2> DEFINE s == starter[g]
  <2>1. /\ s.at # "none" =>
            /\ s.poll \in 1 .. Polls
            /\ \A q \in 1 .. Polls : q > s.poll => chain[<<g, q>>] = "off"
        /\ s.at = "sleep" => chain[<<g, s.poll>>] = "off"
        /\ s.at = "run" => chain[<<g, s.poll>>] = "asking"
        /\ s.at \in {"none", "sleep", "run"} /\ s.poll \in 0 .. Polls
    BY <1>1 DEF Starting, Starters
  <2>2. \A q \in 1 .. Polls : <<g, q>> \in Chain /\ (<<g, q>> # c => chain'[<<g, q>>] = chain[<<g, q>>])
    BY <1>1 DEF Chain
  <2>3. CASE st[g] = s /\ (s.at = "run" => <<g, s.poll>> # c) /\ (g = c[1] => chain[c] # "off")
    <3>1. starter'[g] = s
      BY <1>3, <2>3
    <3>2. \A q \in 1 .. Polls : s.at # "none" /\ q > s.poll => <<g, q>> # c
      BY <1>5, <2>1, <2>3
    <3>3. s.at = "sleep" => <<g, s.poll>> # c
      BY <1>5, <2>1, <2>3
    <3> HIDE DEF s
    <3> QED BY <2>1, <2>2, <2>3, <3>1, <3>2, <3>3 DEF Starting
  <2>4. CASE st[g].at = "run" /\ <<g, st[g].poll>> = c /\ s.at # "none" /\ s.poll = st[g].poll
    <3>1. starter'[g] = After(st[g])
      BY <1>3, <2>4
    <3>2. \A q \in 1 .. Polls : q > s.poll => chain'[<<g, q>>] = "off"
      BY <1>5, <2>1, <2>2, <2>4
    <3> HIDE DEF s
    <3>3. CASE s.poll < Polls
      <4>1. starter'[g].at = "sleep" /\ starter'[g].poll = s.poll + 1
        BY <2>4, <3>1, <3>3 DEF After
      <4>2. s.poll + 1 \in 1 .. Polls /\ s.poll + 1 > s.poll
            /\ \A q \in 1 .. Polls : q > s.poll + 1 => q > s.poll
        BY <1>1, <2>1, <2>4, <3>3
      <4>3. chain'[<<g, s.poll + 1>>] = "off"
        BY <3>2, <4>2
      <4>4. \A q \in 1 .. Polls : q > s.poll + 1 => chain'[<<g, q>>] = "off"
        BY <3>2, <4>2
      <4>5. Starting(g)'
        BY <4>1, <4>2, <4>3, <4>4 DEF Starting
      <4> QED BY <2>4, <4>5
    <3>4. CASE ~ (s.poll < Polls)
      <4>1. starter'[g].at = "none"
        BY <2>4, <3>1, <3>4 DEF After, NoStarter
      <4> QED BY <4>1 DEF Starting
    <3> QED BY <3>3, <3>4
  <2>5. CASE g = c[1] /\ ~ (st = starter /\ chain[c] # "off")
    <3>1. /\ s.at = "sleep" /\ s.poll = c[2] /\ st[g] = [s EXCEPT !.at = "run"]
      BY <2>5
    <3>2. st[g].at = "run" /\ st[g].poll = s.poll
      BY <1>1, <3>1 DEF Starters
    <3>3. <<g, st[g].poll>> = c
      BY <1>5, <2>5, <3>1, <3>2
    <3> QED BY <2>4, <3>1, <3>2, <3>3
  <2>6. CASE g # c[1]
    BY <1>5, <2>3, <2>6
  <2>7. CASE g = c[1] /\ st = starter /\ chain[c] # "off"
    BY <2>3, <2>4, <2>7
  <2> QED BY <2>5, <2>6, <2>7
<1> QED BY <1>2, <1>3, <1>6

LEMMA SameChannel ==
    ASSUME Awaited, Matched, UNCHANGED <<mode, pend>>, mode = "rtu" \/ wire' = wire,
           \A v \in Caller : Asking(v)' <=> Asking(v)
    PROVE  Awaited' /\ Matched'
<1>1. Awaited'
  <2>1. /\ \A i, j \in DOMAIN pend :
              ~ pend[i].drop /\ ~ pend[j].drop /\ pend[i].who = pend[j].who => i = j
        /\ \A i \in DOMAIN pend : \A v \in Caller : ~ pend[i].drop /\ pend[i].who = v => Asking(v)
        /\ \A v \in Caller : Asking(v) => \E i \in DOMAIN pend : ~ pend[i].drop /\ pend[i].who = v
    BY DEF Awaited
  <2> QED BY <2>1 DEF Awaited
<1>2. Matched'
  BY DEF Matched
<1> QED BY <1>1, <1>2

LEMMA AskingFacts ==
    /\ Asking(Reader) <=> reading
    /\ \A d \in Chain : d \in Caller /\ d # Reader /\ (Asking(d) <=> chain[d] = "asking")
    /\ \A w \in Caller : w = Reader \/ w \in Chain
BY ReaderNoChain DEF Asking, Caller

\* A poll that is under way by neither start nor the channel runs.
LEMMA PollStartsKeeps ==
    ASSUME TypeOK, Awaited, Matched, UNCHANGED <<mode, reading>>,
           NEW st \in [Conf -> Starters], NEW c \in Chain, chain[c] # "asking",
           \A g \in Conf : g # c[1] => st[g] = starter[g],
           \A g \in Conf : Starting(g),
           \/ /\ st = starter
              /\ chain[c] # "off"
           \/ /\ starter[c[1]].at = "sleep" /\ starter[c[1]].poll = c[2]
              /\ st[c[1]] = [starter[c[1]] EXCEPT !.at = "run"],
           PollStarts(c, st)
    PROVE  /\ chain' \in [Chain -> {"off", "due", "asking"}]
           /\ starter' \in [Conf -> Starters]
           /\ pend' \in Seq(Request) /\ Len(pend') <= MaxPend
           /\ wire' \in Seq(Answer) /\ tid' \in 0 .. Tids - 1
           /\ Awaited' /\ Matched'
           /\ \A g \in Conf : starter'[g].at # "none" => starter[g].at # "none"
           /\ \A g \in Conf : Starting(g)'
           /\ \A d \in Chain \ {c} : chain'[d] = chain[d]
           /\ chain'[c] # "off" => running \/ open
           /\ mixed' \in BOOLEAN /\ (mode # "rtu" => mixed' = mixed)
<1>1. /\ chain \in [Chain -> {"off", "due", "asking"}]
      /\ pend \in Seq(Request) /\ Len(pend) <= MaxPend
      /\ wire \in Seq(Answer) /\ tid \in 0 .. Tids - 1
  BY DEF TypeOK
<1>2. ASSUME NEW v \in {"off", "due"}, chain' = [chain EXCEPT ![c] = v], MovesOn(st, {c}),
             UNCHANGED <<tid, pend>>, wire' \in Seq(Answer), mode = "rtu" \/ wire' = wire,
             v = "due" => running
      PROVE  /\ chain' \in [Chain -> {"off", "due", "asking"}]
             /\ starter' \in [Conf -> Starters]
             /\ pend' \in Seq(Request) /\ Len(pend') <= MaxPend
             /\ wire' \in Seq(Answer) /\ tid' \in 0 .. Tids - 1
             /\ Awaited' /\ Matched'
             /\ \A g \in Conf : starter'[g].at # "none" => starter[g].at # "none"
             /\ \A g \in Conf : Starting(g)'
             /\ \A d \in Chain \ {c} : chain'[d] = chain[d]
             /\ chain'[c] # "off" => running \/ open
  <2>1. /\ chain' \in [Chain -> {"off", "due", "asking"}]
        /\ starter' \in [Conf -> Starters]
        /\ \A g \in Conf : starter'[g].at # "none" => starter[g].at # "none"
        /\ \A g \in Conf : Starting(g)'
    BY <1>2, TurnEnds
  <2>2. chain'[c] = v /\ \A d \in Chain \ {c} : chain'[d] = chain[d]
    BY <1>1, <1>2
  <2>3. \A d \in Chain : chain'[d] = "asking" <=> chain[d] = "asking"
    BY <2>2
  <2>4. \A w \in Caller : Asking(w)' <=> Asking(w)
    BY <2>3, ReaderNoChain DEF Asking, Caller
  <2>5. UNCHANGED <<mode, pend, tid>> /\ wire' \in Seq(Answer) /\ (mode = "rtu" \/ wire' = wire)
    BY <1>2
  <2>6. Awaited' /\ Matched'
    BY <2>4, <2>5, SameChannel
  <2> QED BY <1>1, <1>2, <2>1, <2>2, <2>5, <2>6
<1>3. CASE mode = "rtu"
  <2>1. PICK ok \in BOOLEAN : Serial(c, ok) /\ PollEnds(c, ok)
    BY <1>3 DEF PollStarts
  <2>2. MovesOn(st, {c})
    BY <1>3 DEF PollStarts, MovesOn
  <2>3. PICK v \in {"off", "due"} : chain' = [chain EXCEPT ![c] = v] /\ (v = "due" => running)
    BY <2>1 DEF PollEnds
  <2>4. wire' \in Seq(Answer) /\ mixed' \in BOOLEAN /\ UNCHANGED <<tid, pend>>
    BY <2>1, AskingFacts, SerialKeeps
  <2> QED BY <1>2, <1>3, <2>2, <2>3, <2>4
<1>4. CASE mode # "rtu" /\ ~ open
  <2>1. /\ chain' = [chain EXCEPT ![c] = "off"] /\ MovesOn(st, {c})
        /\ UNCHANGED <<tid, pend, wire, mixed>>
    BY <1>4 DEF PollStarts, MovesOn, chanVars
  <2>2. mixed \in BOOLEAN
    BY DEF TypeOK
  <2> QED BY <1>1, <1>2, <2>1, <2>2
<1>5. CASE mode # "rtu" /\ open
  <2>1. Asks(c) /\ chain' = [chain EXCEPT ![c] = "asking"] /\ starter' = st /\ mixed' = mixed
    BY <1>5 DEF PollStarts
  <2>2. chain'[c] = "asking" /\ \A d \in Chain \ {c} : chain'[d] = chain[d]
    BY <1>1, <2>1
  <2>3. c \in Caller /\ ~ Asking(c)
    BY AskingFacts
  <2>4. \A w \in Caller : Asking(w)' <=> (w = c \/ Asking(w))
    BY <2>2, ReaderNoChain DEF Asking, Caller
  <2>5. /\ pend' \in Seq(Request) /\ Len(pend') <= MaxPend
        /\ wire' \in Seq(Answer) /\ tid' \in 0 .. Tids - 1
        /\ Awaited' /\ Matched'
    BY <1>5, <2>1, <2>3, <2>4, AsksKeeps
  <2>6. ASSUME NEW g \in Conf
        PROVE  Starting(g)' /\ (starter'[g].at # "none" => starter[g].at # "none")
    <3>1. \A q \in 1 .. Polls : <<g, q>> \in Chain /\ (<<g, q>> # c => chain'[<<g, q>>] = chain[<<g, q>>])
      BY <2>2 DEF Chain
    <3>2. /\ starter[g].at # "none" =>
              /\ starter[g].poll \in 1 .. Polls
              /\ \A q \in 1 .. Polls : q > starter[g].poll => chain[<<g, q>>] = "off"
          /\ starter[g].at = "sleep" => chain[<<g, starter[g].poll>>] = "off"
          /\ starter[g].at = "run" => chain[<<g, starter[g].poll>>] = "asking"
      BY DEF Starting
    <3>3. c = <<c[1], c[2]>> /\ c[1] \in Conf /\ c[2] \in 1 .. Polls
      BY DEF Chain
    <3>4. CASE st[g] = starter[g] /\ (g = c[1] => chain[c] # "off")
      <4>1. starter'[g] = starter[g]
        BY <2>1, <3>4
      <4>2. \A q \in 1 .. Polls : starter[g].at # "none" /\ q > starter[g].poll => <<g, q>> # c
        BY <3>2, <3>3, <3>4
      <4>3. starter[g].at \in {"none", "sleep", "run"}
        BY DEF TypeOK
      <4>4. starter[g].at # "none" => <<g, starter[g].poll>> # c
        BY <3>2, <3>3, <3>4, <4>3
      <4> QED BY <3>1, <3>2, <4>1, <4>2, <4>4 DEF Starting
    <3>5. CASE g = c[1] /\ ~ (st = starter /\ chain[c] # "off")
      <4>1. /\ starter[g].at = "sleep" /\ starter[g].poll = c[2]
            /\ starter'[g] = [starter[g] EXCEPT !.at = "run"]
        BY <2>1, <3>5
      <4>2. starter[g] \in Starters
        BY DEF TypeOK, Starters
      <4>3. starter'[g].at = "run" /\ starter'[g].poll = c[2]
        BY <4>1, <4>2 DEF Starters
      <4>4. chain'[<<g, c[2]>>] = "asking"
        BY <2>2, <3>3, <3>5
      <4>5. \A q \in 1 .. Polls : q > c[2] => chain'[<<g, q>>] = "off"
        BY <3>1, <3>2, <3>3, <4>1
      <4> QED BY <3>3, <4>1, <4>3, <4>4, <4>5 DEF Starting
    <3> QED BY <3>3, <3>4, <3>5
  <2>7. /\ chain' \in [Chain -> {"off", "due", "asking"}] /\ starter' \in [Conf -> Starters]
        /\ mixed' \in BOOLEAN
    BY <1>1, <2>1 DEF TypeOK
  <2> QED BY <1>5, <2>1, <2>2, <2>5, <2>6, <2>7
<1> QED BY <1>3, <1>4, <1>5

\* A channel fails: every request in it ends, and start goes on from those it
\* ran.  st may have a new configuration's start in it.
LEMMA FailsKeeps ==
    ASSUME TypeOK, Awaited, NEW st \in [Conf -> Starters], ChannelFails(st), mode' = mode,
           \A g \in Conf : Starting(g),
           \A g \in Conf : st[g] = starter[g]
              \/ (st[g] = [at |-> "sleep", poll |-> 1] /\ \A q \in 1 .. Polls : chain[<<g, q>>] = "off")
    PROVE  /\ chain' \in [Chain -> {"off", "due", "asking"}]
           /\ starter' \in [Conf -> Starters]
           /\ pend' \in Seq(Request) /\ Len(pend') <= MaxPend /\ wire' \in Seq(Answer)
           /\ reading' \in BOOLEAN
           /\ Awaited' /\ Matched'
           /\ \A g \in Conf : starter'[g].at # "none" => st[g].at # "none"
           /\ \A g \in Conf : Starting(g)'
           /\ \A d \in Chain : chain'[d] = IF chain[d] = "asking" THEN "off" ELSE chain[d]
<1>1. /\ chain \in [Chain -> {"off", "due", "asking"}]
      /\ starter \in [Conf -> Starters] /\ reading \in BOOLEAN /\ Polls \in Nat \ {0}
  BY ModbusAssumption DEF TypeOK, Starters
<1>2. /\ pend' = <<>> /\ wire' = (IF mode = "rtu" THEN wire ELSE <<>>)
      /\ chain' = [c \in Chain |-> IF c \in Awaiting THEN "off" ELSE chain[c]]
      /\ MovesOn(st, Awaiting)
      /\ reading' = (reading /\ Reader \notin Awaiting)
  BY DEF ChannelFails, MovesOn
<1>3. /\ \A d \in Chain : d \in Awaiting <=> chain[d] = "asking"
      /\ Reader \in Awaiting <=> reading
  BY AwaitingFacts, AskingFacts, ReaderNoChain
<1>4. \A d \in Chain : chain'[d] = IF chain[d] = "asking" THEN "off" ELSE chain[d]
  BY <1>2, <1>3
<1>5. chain' \in [Chain -> {"off", "due", "asking"}]
  BY <1>1, <1>2
<1>6. reading' = FALSE
  BY <1>2, <1>3
<1>7. \A w \in Caller : ~ Asking(w)'
  BY <1>4, <1>6, ReaderNoChain DEF Asking, Caller
<1>8. /\ pend' \in Seq(Request) /\ Len(pend') <= MaxPend /\ wire' \in Seq(Answer)
      /\ Awaited' /\ Matched'
  <2>1. wire' \in Seq(Answer) /\ (mode' # "rtu" => wire' = <<>>)
    BY <1>2 DEF TypeOK
  <2> QED BY <1>2, <1>7, <2>1, EmptyChannel
<1>9. /\ starter' \in [Conf -> Starters]
      /\ \A g \in Conf : starter'[g] =
           IF st[g].at = "run" /\ <<g, st[g].poll>> \in Awaiting THEN After(st[g]) ELSE st[g]
  <2> HIDE DEF Awaiting
  <2>1. /\ Moved(st, Awaiting) \in [Conf -> Starters]
        /\ \A g \in Conf : Moved(st, Awaiting)[g] =
             IF st[g].at = "run" /\ <<g, st[g].poll>> \in Awaiting THEN After(st[g]) ELSE st[g]
    BY MovedFacts
  <2>2. starter' = Moved(st, Awaiting)
    BY <1>2 DEF MovesOn
  <2> HIDE DEF Moved
  <2> QED BY <2>1, <2>2
<1>10. ASSUME NEW g \in Conf
       PROVE  Starting(g)' /\ (starter'[g].at # "none" => st[g].at # "none")
  <2>1. \A q \in 1 .. Polls : <<g, q>> \in Chain /\ (chain[<<g, q>>] = "off" => chain'[<<g, q>>] = "off")
    BY <1>4 DEF Chain
  <2>2. /\ starter[g].at # "none" =>
            /\ starter[g].poll \in 1 .. Polls
            /\ \A q \in 1 .. Polls : q > starter[g].poll => chain[<<g, q>>] = "off"
        /\ starter[g].at = "sleep" => chain[<<g, starter[g].poll>>] = "off"
        /\ starter[g].at = "run" => chain[<<g, starter[g].poll>>] = "asking"
    BY DEF Starting
  <2> DEFINE s == st[g]
  <2>3. /\ s.at # "none" =>
            /\ s.poll \in 1 .. Polls
            /\ \A q \in 1 .. Polls : q > s.poll => chain[<<g, q>>] = "off"
        /\ s.at = "sleep" => chain[<<g, s.poll>>] = "off"
        /\ s.at = "run" => chain[<<g, s.poll>>] = "asking"
    <3>1. CASE s = starter[g]
      BY <2>2, <3>1
    <3>2. CASE s = [at |-> "sleep", poll |-> 1] /\ \A q \in 1 .. Polls : chain[<<g, q>>] = "off"
      <4>1. s.at = "sleep" /\ s.poll = 1 /\ 1 \in 1 .. Polls
        BY <1>1, <3>2
      <4> QED BY <3>2, <4>1
    <3> QED BY <3>1, <3>2
  <2>4. starter'[g] = IF s.at = "run" /\ <<g, s.poll>> \in Awaiting THEN After(s) ELSE s
    BY <1>9
  <2>5. s.at \in {"none", "sleep", "run"}
    BY DEF Starters
  <2> HIDE DEF s
  <2>6. CASE s.at = "run"
    <3>1. starter'[g] = After(s) /\ s.poll \in 1 .. Polls
      BY <1>3, <2>1, <2>3, <2>4, <2>6
    <3>2. \A q \in 1 .. Polls : q > s.poll => chain'[<<g, q>>] = "off"
      BY <2>1, <2>3, <2>6
    <3>3. CASE s.poll < Polls
      <4>1. starter'[g].at = "sleep" /\ starter'[g].poll = s.poll + 1
        BY <3>1, <3>3 DEF After
      <4>2. s.poll + 1 \in 1 .. Polls /\ s.poll + 1 > s.poll
            /\ \A q \in 1 .. Polls : q > s.poll + 1 => q > s.poll
        BY <1>1, <3>1, <3>3
      <4>3. chain'[<<g, s.poll + 1>>] = "off"
        BY <3>2, <4>2
      <4>4. \A q \in 1 .. Polls : q > s.poll + 1 => chain'[<<g, q>>] = "off"
        BY <3>2, <4>2
      <4>5. Starting(g)'
        BY <4>1, <4>2, <4>3, <4>4 DEF Starting
      <4> QED BY <2>6, <4>5 DEF s
    <3>4. CASE ~ (s.poll < Polls)
      <4>1. starter'[g].at = "none"
        BY <3>1, <3>4 DEF After, NoStarter
      <4> QED BY <4>1 DEF Starting
    <3> QED BY <3>3, <3>4
  <2>7. CASE s.at # "run"
    <3>1. starter'[g] = s
      BY <2>4, <2>7
    <3>2. Starting(g)'
      BY <2>1, <2>3, <2>7, <3>1 DEF Starting
    <3> QED BY <3>1, <3>2 DEF s
  <2> QED BY <2>6, <2>7
<1> QED BY <1>4, <1>5, <1>6, <1>8, <1>9, <1>10

-----------------------------------------------------------------------------
(* One lemma per action: what it leaves of the invariant.                   *)

LEMMA StartersType == TypeOK => starter \in [Conf -> Starters]
BY DEF TypeOK, Starters

LEMMA StartStepKeeps ==
    ASSUME IInv, NEW g \in Conf, StartStep(g)
    PROVE  IInv'
<1> DEFINE p == starter[g].poll
           c == <<g, p>>
           st == [starter EXCEPT ![g].at = "run"]
<1>1. TypeOK /\ Awaited /\ Matched /\ InTurn /\ OwnAnswer /\ (Patient => Waited)
  BY DEF IInv
<1>2. /\ starter[g].at = "sleep" /\ PollStarts(c, st)
      /\ devlist' = IF p = 1 THEN g ELSE devlist
      /\ registered' = IF p = 1 THEN registered \cup {g} ELSE registered
      /\ UNCHANGED <<confVars, running, reading>>
  BY DEF StartStep
<1>3. UNCHANGED <<mode, gen, client, open, stopping, waits, running, reading>>
  BY <1>2 DEF confVars
<1>4. \A h \in Conf : Starting(h)
  BY <1>1 DEF InTurn
<1>5. p \in 1 .. Polls /\ chain[c] = "off"
  BY <1>2, <1>4 DEF Starting
<1>6. c \in Chain /\ c[1] = g /\ c[2] = p
  BY <1>5 DEF Chain
<1>7. st \in [Conf -> Starters] /\ st[g] = [starter[g] EXCEPT !.at = "run"]
      /\ \A h \in Conf : h # g => st[h] = starter[h]
  BY <1>1, StartersType DEF Starters
<1> HIDE DEF c, st
<1>8. /\ chain' \in [Chain -> {"off", "due", "asking"}]
      /\ starter' \in [Conf -> Starters]
      /\ pend' \in Seq(Request) /\ Len(pend') <= MaxPend
      /\ wire' \in Seq(Answer) /\ tid' \in 0 .. Tids - 1
      /\ Awaited' /\ Matched'
      /\ \A h \in Conf : starter'[h].at # "none" => starter[h].at # "none"
      /\ \A h \in Conf : Starting(h)'
      /\ \A d \in Chain \ {c} : chain'[d] = chain[d]
      /\ chain'[c] # "off" => running \/ open
      /\ mixed' \in BOOLEAN /\ (mode # "rtu" => mixed' = mixed)
  <2>1. UNCHANGED <<mode, reading>>
    BY <1>3
  <2>2. \A h \in Conf : h # c[1] => st[h] = starter[h]
    BY <1>6, <1>7
  <2>3. /\ starter[c[1]].at = "sleep" /\ starter[c[1]].poll = c[2]
        /\ st[c[1]] = [starter[c[1]] EXCEPT !.at = "run"]
    BY <1>2, <1>6, <1>7
  <2>4. chain[c] # "asking" /\ PollStarts(c, st)
    BY <1>2, <1>5
  <2>5. st \in [Conf -> Starters]
    BY <1>7
  <2> QED BY <1>1, <1>4, <1>6, <2>1, <2>2, <2>3, <2>4, <2>5, PollStartsKeeps
<1>9. g <= gen /\ gen \in 0 .. MaxConf /\ MaxConf \in Nat
  BY <1>1, <1>2, ModbusAssumption DEF InTurn, TypeOK, Conf
<1>10. TypeOK'
  <2>1. devlist' \in 0 .. gen /\ registered' \subseteq Conf
    BY <1>1, <1>2, <1>9 DEF TypeOK, Conf
  <2> QED BY <1>1, <1>3, <1>8, <2>1 DEF TypeOK, Starters
<1>11. InTurn'
  <2>1. \A h \in Conf : h > gen => starter'[h].at = "none"
    BY <1>1, <1>8 DEF InTurn
  <2>2. \A d \in Chain : d[1] > gen => chain'[d] = "off"
    <3>1. ~ (c[1] > gen)
      BY <1>6, <1>9 DEF Conf
    <3> QED BY <1>1, <1>8, <3>1 DEF InTurn
  <2>3. stopping' \in {"start", "fail"} => gen' < MaxConf
    BY <1>1, <1>3 DEF InTurn
  <2> QED BY <1>3, <1>8, <2>1, <2>2, <2>3 DEF InTurn
<1>12. OwnAnswer'
  BY <1>1, <1>3, <1>8 DEF OwnAnswer
<1>13. ASSUME Patient PROVE Waited'
  <2>1. Waited
    BY <1>1, <1>13
  <2>2. running /\ g = gen
    BY <1>2, <2>1 DEF Waited
  <2>3. \A d \in Chain : chain'[d] # "off" => d[1] = gen
    <3>1. \A d \in Chain \ {c} : chain[d] # "off" => d[1] = gen
      BY <2>1, <2>2 DEF Waited
    <3> QED BY <1>6, <1>8, <2>2, <3>1
  <2>4. \A h \in Conf : starter'[h].at # "none" => h = gen
    BY <1>8, <2>1 DEF Waited
  <2>5. registered' \subseteq {gen} /\ registered' \subseteq {devlist'}
    BY <1>2, <2>1, <2>2 DEF Waited
  <2> QED BY <1>3, <2>1, <2>2, <2>3, <2>4, <2>5 DEF Waited
<1> QED BY <1>8, <1>10, <1>11, <1>12, <1>13 DEF IInv

LEMMA TimerFiresKeeps ==
    ASSUME IInv, NEW c \in Chain, TimerFires(c)
    PROVE  IInv'
<1>1. TypeOK /\ Awaited /\ Matched /\ InTurn /\ OwnAnswer /\ (Patient => Waited)
  BY DEF IInv
<1>2. /\ chain[c] = "due" /\ PollStarts(c, starter)
      /\ waits' = waits \ {c}
      /\ UNCHANGED <<mode, gen, client, open, stopping, running, reading,
                     devlist, registered>>
  BY DEF TimerFires
<1>3. \A h \in Conf : Starting(h)
  BY <1>1 DEF InTurn
<1>4. /\ chain' \in [Chain -> {"off", "due", "asking"}]
      /\ starter' \in [Conf -> Starters]
      /\ pend' \in Seq(Request) /\ Len(pend') <= MaxPend
      /\ wire' \in Seq(Answer) /\ tid' \in 0 .. Tids - 1
      /\ Awaited' /\ Matched'
      /\ \A h \in Conf : starter'[h].at # "none" => starter[h].at # "none"
      /\ \A h \in Conf : Starting(h)'
      /\ \A d \in Chain \ {c} : chain'[d] = chain[d]
      /\ chain'[c] # "off" => running \/ open
      /\ mixed' \in BOOLEAN /\ (mode # "rtu" => mixed' = mixed)
  <2>1. UNCHANGED <<mode, reading>> /\ chain[c] # "off" /\ chain[c] # "asking"
    BY <1>2
  <2>2. starter \in [Conf -> Starters]
    BY <1>1, StartersType
  <2> QED BY <1>1, <1>2, <1>3, <2>1, <2>2, PollStartsKeeps
<1>5. TypeOK'
  BY <1>1, <1>2, <1>4 DEF TypeOK, Starters
<1>6. InTurn'
  <2>1. \A h \in Conf : h > gen => starter'[h].at = "none"
    BY <1>1, <1>4 DEF InTurn
  <2>2. \A d \in Chain : d[1] > gen => chain'[d] = "off"
    <3>1. ~ (c[1] > gen)
      BY <1>1, <1>2 DEF InTurn
    <3> QED BY <1>1, <1>4, <3>1 DEF InTurn
  <2>3. stopping' \in {"start", "fail"} => gen' < MaxConf
    BY <1>1, <1>2 DEF InTurn
  <2> QED BY <1>2, <1>4, <2>1, <2>2, <2>3 DEF InTurn
<1>7. OwnAnswer'
  BY <1>1, <1>2, <1>4 DEF OwnAnswer
<1>8. ASSUME Patient PROVE Waited'
  <2>1. Waited
    BY <1>1, <1>8
  <2>2. (running /\ c[1] = gen) \/ (~ running /\ ~ open)
    BY <1>2, <2>1 DEF Waited
  <2>3. \A d \in Chain : chain'[d] # "off" =>
          \/ running /\ d[1] = gen
          \/ stopping \in {"start", "fail", "exit"} /\ chain'[d] = "due" /\ d \in waits'
    <3>1. ASSUME NEW d \in Chain \ {c}, chain'[d] # "off"
          PROVE  \/ running /\ d[1] = gen
                 \/ stopping \in {"start", "fail", "exit"} /\ chain'[d] = "due" /\ d \in waits'
      BY <1>2, <1>4, <2>1, <3>1 DEF Waited
    <3>2. chain'[c] # "off" => running /\ c[1] = gen
      BY <1>4, <2>2
    <3> QED BY <3>1, <3>2
  <2>4. \A h \in Conf : starter'[h].at # "none" => running /\ h = gen
    BY <1>4, <2>1 DEF Waited
  <2> QED BY <1>2, <2>1, <2>3, <2>4 DEF Waited
<1> QED BY <1>4, <1>5, <1>6, <1>7, <1>8 DEF IInv

LEMMA ReadKeeps ==
    ASSUME IInv, Read
    PROVE  IInv'
<1>1. TypeOK /\ Awaited /\ Matched /\ InTurn /\ OwnAnswer /\ (Patient => Waited)
  BY DEF IInv
<1>2. UNCHANGED <<mode, gen, client, open, stopping, waits, running, starter, chain,
                  devlist, registered>>
  BY DEF Read, confVars
<1>3. ASSUME mode # "rtu", ~ reading, Asks(Reader), reading' = TRUE, mixed' = mixed
      PROVE  TypeOK' /\ OwnAnswer' /\ Awaited' /\ Matched'
  <2>1. Reader \in Caller /\ ~ Asking(Reader)
    BY <1>3, ReaderNoChain, AskingFacts
  <2>2. \A w \in Caller : Asking(w)' <=> (w = Reader \/ Asking(w))
    BY <1>2, <1>3 DEF Asking
  <2>3. mode' = mode /\ mode # "rtu" /\ Asks(Reader)
    BY <1>2, <1>3
  <2>4. /\ pend' \in Seq(Request) /\ Len(pend') <= MaxPend
        /\ wire' \in Seq(Answer) /\ tid' \in 0 .. Tids - 1
        /\ Awaited' /\ Matched'
    BY <1>1, <2>1, <2>2, <2>3, AsksKeeps
  <2>5. TypeOK' /\ OwnAnswer'
    BY <1>1, <1>2, <1>3, <2>4 DEF TypeOK, OwnAnswer
  <2> QED BY <2>4, <2>5
<1>4. ASSUME mode = "rtu", reading' = reading, NEW ok \in BOOLEAN, Serial(Reader, ok)
      PROVE  TypeOK' /\ OwnAnswer' /\ Awaited' /\ Matched'
  <2>1. wire' \in Seq(Answer) /\ mixed' \in BOOLEAN /\ UNCHANGED <<tid, pend>>
    BY <1>1, <1>4, ReaderNoChain, SerialKeeps
  <2>2. \A w \in Caller : Asking(w)' <=> Asking(w)
    BY <1>2, <1>4 DEF Asking
  <2>3. Awaited' /\ Matched'
    BY <1>1, <1>2, <1>4, <2>1, <2>2, SameChannel
  <2>4. TypeOK' /\ OwnAnswer'
    BY <1>1, <1>2, <1>4, <2>1 DEF TypeOK, OwnAnswer
  <2> QED BY <2>3, <2>4
<1>5. TypeOK' /\ OwnAnswer' /\ Awaited' /\ Matched'
  BY <1>3, <1>4 DEF Read
<1>6. InTurn'
  BY <1>1, <1>2 DEF InTurn, Starting
<1>7. Patient => Waited'
  BY <1>1, <1>2 DEF Waited
<1> QED BY <1>5, <1>6, <1>7 DEF IInv

LEMMA SerialLostKeeps ==
    ASSUME IInv, NEW n \in 1 .. Len(wire), SerialLost(n)
    PROVE  IInv'
<1>1. TypeOK /\ Awaited /\ Matched /\ InTurn /\ OwnAnswer /\ (Patient => Waited)
  BY DEF IInv
<1>2. /\ mode = "rtu" /\ wire' = RemoveAt(wire, n)
      /\ UNCHANGED <<mode, gen, client, open, stopping, waits, running, starter, chain, reading,
                     tid, pend, devlist, registered, mixed>>
  BY DEF SerialLost, confVars
<1>3. wire' \in Seq(Answer)
  <2>1. wire \in Seq(Answer) /\ n \in DOMAIN wire
    BY <1>1, LenProperties DEF TypeOK
  <2>2. RemoveAt(wire, n) \in Seq(Answer)
    BY <2>1, RemoveAtFacts
  <2> QED BY <1>2, <2>2
<1>4. \A w \in Caller : Asking(w)' <=> Asking(w)
  BY <1>2 DEF Asking
<1>5. Awaited' /\ Matched'
  BY <1>1, <1>2, <1>4, SameChannel
<1>6. TypeOK' /\ InTurn' /\ OwnAnswer' /\ (Patient => Waited')
  BY <1>1, <1>2, <1>3 DEF TypeOK, InTurn, Starting, OwnAnswer, Waited
<1> QED BY <1>5, <1>6 DEF IInv

\* A request returns to a caller that waits for it.
LEMMA ReturnsKeeps ==
    ASSUME TypeOK, NEW w \in Caller, Asking(w), NEW ok \in BOOLEAN, Returns(w, ok),
           \A g \in Conf : Starting(g)
    PROVE  /\ chain' \in [Chain -> {"off", "due", "asking"}]
           /\ starter' \in [Conf -> Starters] /\ reading' \in BOOLEAN
           /\ \A v \in Caller : Asking(v)' <=> (Asking(v) /\ v # w)
           /\ \A g \in Conf : starter'[g].at # "none" => starter[g].at # "none"
           /\ \A g \in Conf : Starting(g)'
           /\ \A d \in Chain : chain'[d] = chain[d] \/ chain[d] = "asking"
<1>1. /\ chain \in [Chain -> {"off", "due", "asking"}]
      /\ starter \in [Conf -> Starters] /\ reading \in BOOLEAN
  BY StartersType DEF TypeOK
<1>2. CASE w = Reader
  <2>1. reading' = FALSE /\ UNCHANGED <<chain, starter>>
    BY <1>2 DEF Returns
  <2>2. \A v \in Caller : Asking(v)' <=> (Asking(v) /\ v # w)
    BY <1>2, <2>1 DEF Asking
  <2> QED BY <1>1, <2>1, <2>2 DEF Starting
<1>3. CASE w # Reader
  <2>1. PollEnds(w, ok) /\ MovesOn(starter, {w}) /\ reading' = reading
    BY <1>3 DEF Returns, MovesOn
  <2>2. w \in Chain /\ chain[w] = "asking"
    BY <1>3, AskingFacts
  <2>3. PICK v \in {"off", "due"} : chain' = [chain EXCEPT ![w] = v]
    BY <2>1 DEF PollEnds
  <2>4. /\ chain' \in [Chain -> {"off", "due", "asking"}]
        /\ starter' \in [Conf -> Starters]
        /\ \A g \in Conf : starter'[g].at # "none" => starter[g].at # "none"
        /\ \A g \in Conf : Starting(g)'
    <3>1. chain[w] # "off"
      BY <2>2
    <3> QED BY <1>1, <2>1, <2>2, <2>3, <3>1, TurnEnds
  <2>5. chain'[w] = v /\ \A d \in Chain \ {w} : chain'[d] = chain[d]
    BY <1>1, <2>2, <2>3
  <2>6. \A u \in Caller : Asking(u)' <=> (Asking(u) /\ u # w)
    BY <2>1, <2>2, <2>5, ReaderNoChain DEF Asking, Caller
  <2> QED BY <1>1, <2>1, <2>2, <2>4, <2>5, <2>6
<1> QED BY <1>2, <1>3

\* What Waited and InTurn say of polls stays true when some that asked end.
LEMMA PollsEnd ==
    ASSUME InTurn, UNCHANGED <<gen, open, running, stopping, waits, devlist, registered>>,
           \A g \in Conf : starter'[g].at # "none" => starter[g].at # "none",
           \A g \in Conf : Starting(g)',
           \A d \in Chain : chain'[d] = chain[d] \/ chain[d] = "asking"
    PROVE  InTurn' /\ (Waited => Waited')
<1>1. InTurn'
  <2>1. \A h \in Conf : h > gen => starter'[h].at = "none"
    BY DEF InTurn
  <2>2. \A d \in Chain : d[1] > gen => chain'[d] = "off"
    BY DEF InTurn
  <2>3. stopping' \in {"start", "fail"} => gen' < MaxConf
    BY DEF InTurn
  <2> QED BY <2>1, <2>2, <2>3 DEF InTurn
<1>2. ASSUME Waited PROVE Waited'
  <2>1. ASSUME NEW d \in Chain, chain'[d] # "off"
        PROVE  \/ running /\ d[1] = gen
               \/ stopping \in {"start", "fail", "exit"} /\ chain'[d] = "due" /\ d \in waits
    <3>1. CASE chain[d] = "asking"
      BY <1>2, <3>1 DEF Waited
    <3>2. CASE chain'[d] = chain[d]
      BY <1>2, <2>1, <3>2 DEF Waited
    <3> QED BY <3>1, <3>2
  <2>2. \A g \in Conf : starter'[g].at # "none" => running /\ g = gen
    BY <1>2 DEF Waited
  <2> QED BY <1>2, <2>1, <2>2 DEF Waited
<1> QED BY <1>1, <1>2

LEMMA DeliverKeepsAll ==
    ASSUME IInv, NEW n \in 1 .. Len(wire), Deliver(n)
    PROVE  IInv'
<1> DEFINE k == For(wire[n])
           a == wire[n]
           r == pend[k]
           ok == KindOf(a.who) = KindOf(r.who)
<1>1. TypeOK /\ Awaited /\ Matched /\ InTurn /\ OwnAnswer /\ (Patient => Waited)
  BY DEF IInv
<1>2. mode = "tcp" \/ (mode = "rtu_tcp" /\ n = 1)
  BY DEF Deliver
<1>3. Taken(k, n)
  BY DEF Deliver, Taken
<1>4. \/ r.drop /\ UNCHANGED <<starter, chain, reading, mixed>>
      \/ /\ ~ r.drop /\ Returns(r.who, ok)
         /\ mixed' = (mixed \/ (ok /\ (a.who # r.who \/ a.old)))
  BY DEF Deliver
<1>5. UNCHANGED <<mode, gen, client, open, stopping, waits, running, tid, devlist, registered>>
  BY DEF Deliver, confVars
<1>6. ok \in BOOLEAN
  OBVIOUS
<1>7. /\ k \in DOMAIN pend /\ r \in Request /\ a \in Answer
      /\ mode # "rtu_tcp" => /\ mode = "tcp" /\ r.tid = a.tid
                             /\ r.who = a.who /\ r.drop = a.old
  BY <1>1, <1>2, ForFacts
<1>8. n \in DOMAIN wire
  BY <1>1, LenProperties DEF TypeOK
<1>9. r.who \in Caller /\ r.drop \in BOOLEAN /\ a.old \in BOOLEAN
  BY <1>7 DEF Request, Answer
<1> HIDE DEF k, a, ok
<1>10. ~ r.drop => Asking(r.who)
  BY <1>1, <1>7, <1>9 DEF Awaited
<1>11. \A g \in Conf : Starting(g)
  BY <1>1 DEF InTurn
<1>12. /\ chain' \in [Chain -> {"off", "due", "asking"}]
       /\ starter' \in [Conf -> Starters] /\ reading' \in BOOLEAN
       /\ \A v \in Caller : Asking(v)' <=> (Asking(v) /\ (r.drop \/ v # r.who))
       /\ \A g \in Conf : starter'[g].at # "none" => starter[g].at # "none"
       /\ \A g \in Conf : Starting(g)'
       /\ \A d \in Chain : chain'[d] = chain[d] \/ chain[d] = "asking"
  <2>1. CASE r.drop /\ UNCHANGED <<starter, chain, reading, mixed>>
    <3>1. \A v \in Caller : Asking(v)' <=> Asking(v)
      BY <2>1 DEF Asking
    <3>2. \A g \in Conf : Starting(g)'
      BY <1>11, <2>1 DEF Starting
    <3>3. /\ chain \in [Chain -> {"off", "due", "asking"}]
          /\ starter \in [Conf -> Starters] /\ reading \in BOOLEAN
      BY <1>1, StartersType DEF TypeOK
    <3> QED BY <2>1, <3>1, <3>2, <3>3
  <2>2. CASE ~ r.drop /\ Returns(r.who, ok)
    <3> DEFINE w == r.who
    <3>1. w \in Caller /\ Asking(w) /\ Returns(w, ok)
      BY <1>9, <1>10, <2>2
    <3> HIDE DEF w
    <3>2. /\ chain' \in [Chain -> {"off", "due", "asking"}]
          /\ starter' \in [Conf -> Starters] /\ reading' \in BOOLEAN
          /\ \A v \in Caller : Asking(v)' <=> (Asking(v) /\ v # w)
          /\ \A g \in Conf : starter'[g].at # "none" => starter[g].at # "none"
          /\ \A g \in Conf : Starting(g)'
          /\ \A d \in Chain : chain'[d] = chain[d] \/ chain[d] = "asking"
      BY <1>1, <1>6, <1>11, <3>1, ReturnsKeeps
    <3> QED BY <2>2, <3>2 DEF w
  <2> QED BY <1>4, <2>1, <2>2
<1>13. /\ pend' \in Seq(Request) /\ Len(pend') <= MaxPend /\ wire' \in Seq(Answer)
       /\ Awaited' /\ Matched'
  <2>1. mode' = mode
    BY <1>5
  <2>2. mode # "rtu_tcp" => mode = "tcp" /\ pend[k].tid = wire[n].tid
    BY <1>7 DEF a
  <2>3. \A v \in Caller : Asking(v)' <=> (Asking(v) /\ (pend[k].drop \/ v # pend[k].who))
    BY <1>12
  <2> QED BY <1>1, <1>2, <1>3, <1>7, <1>8, <2>1, <2>2, <2>3, DeliverKeeps
<1>14. mixed' \in BOOLEAN /\ OwnAnswer'
  <2>1. mixed \in BOOLEAN
    BY <1>1 DEF TypeOK
  <2>2. mixed' \in BOOLEAN
    BY <1>4, <2>1
  <2>3. ASSUME mode = "tcp" PROVE ~ mixed'
    <3>1. ~ mixed /\ a.who = r.who /\ r.drop = a.old
      BY <1>1, <1>7, <2>3 DEF OwnAnswer
    <3> QED BY <1>4, <1>9, <3>1
  <2> QED BY <1>5, <2>2, <2>3 DEF OwnAnswer
<1>15. TypeOK'
  BY <1>1, <1>5, <1>12, <1>13, <1>14 DEF TypeOK, Starters
<1>16. InTurn' /\ (Waited => Waited')
  BY <1>1, <1>5, <1>12, PollsEnd
<1> QED BY <1>1, <1>5, <1>13, <1>14, <1>15, <1>16 DEF IInv, Waited

LEMMA TimesOutKeeps ==
    ASSUME IInv, NEW w \in Caller, TimesOut(w)
    PROVE  IInv'
<1>1. TypeOK /\ Awaited /\ Matched /\ InTurn /\ OwnAnswer /\ (Patient => Waited)
  BY DEF IInv
<1>2. /\ Asking(w) /\ Drop(w) /\ wire' = Late(w, wire) /\ Returns(w, FALSE)
      /\ UNCHANGED <<mode, gen, client, open, stopping, waits, running, tid,
                     devlist, registered, mixed>>
  BY DEF TimesOut, Timeout, confVars
<1>3. /\ chain' \in [Chain -> {"off", "due", "asking"}]
      /\ starter' \in [Conf -> Starters] /\ reading' \in BOOLEAN
      /\ \A v \in Caller : Asking(v)' <=> (Asking(v) /\ v # w)
      /\ \A g \in Conf : starter'[g].at # "none" => starter[g].at # "none"
      /\ \A g \in Conf : Starting(g)'
      /\ \A d \in Chain : chain'[d] = chain[d] \/ chain[d] = "asking"
  <2>1. \A g \in Conf : Starting(g)
    BY <1>1 DEF InTurn
  <2> QED BY <1>1, <1>2, <2>1, ReturnsKeeps
<1>4. /\ pend' \in Seq(Request) /\ Len(pend') <= MaxPend /\ wire' \in Seq(Answer)
      /\ Awaited' /\ Matched'
  <2>1. mode' = mode
    BY <1>2
  <2> QED BY <1>1, <1>2, <1>3, <2>1, DropKeeps
<1>5. TypeOK'
  BY <1>1, <1>2, <1>3, <1>4 DEF TypeOK, Starters
<1>6. InTurn' /\ (Waited => Waited')
  BY <1>1, <1>2, <1>3, PollsEnd
<1>7. OwnAnswer'
  BY <1>1, <1>2 DEF OwnAnswer
<1> QED BY <1>1, <1>4, <1>5, <1>6, <1>7 DEF IInv

LEMMA BreaksKeeps ==
    ASSUME IInv, Breaks
    PROVE  IInv'
<1>1. TypeOK /\ Awaited /\ Matched /\ InTurn /\ OwnAnswer /\ (Patient => Waited)
  BY DEF IInv
<1>2. /\ ChannelFails(starter)
      /\ UNCHANGED <<mode, gen, client, open, stopping, waits, running, tid,
                     devlist, registered, mixed>>
  BY DEF Breaks, confVars
<1>3. /\ chain' \in [Chain -> {"off", "due", "asking"}]
      /\ starter' \in [Conf -> Starters]
      /\ pend' \in Seq(Request) /\ Len(pend') <= MaxPend /\ wire' \in Seq(Answer)
      /\ reading' \in BOOLEAN
      /\ Awaited' /\ Matched'
      /\ \A g \in Conf : starter'[g].at # "none" => starter[g].at # "none"
      /\ \A g \in Conf : Starting(g)'
      /\ \A d \in Chain : chain'[d] = IF chain[d] = "asking" THEN "off" ELSE chain[d]
  <2>1. \A g \in Conf : Starting(g)
    BY <1>1 DEF InTurn
  <2> QED BY <1>1, <1>2, <2>1, StartersType, FailsKeeps
<1>4. TypeOK'
  BY <1>1, <1>2, <1>3 DEF TypeOK, Starters
<1>5. InTurn' /\ (Waited => Waited')
  <2>1. \A d \in Chain : chain'[d] = chain[d] \/ chain[d] = "asking"
    BY <1>3
  <2> QED BY <1>1, <1>2, <1>3, <2>1, PollsEnd
<1>6. OwnAnswer'
  BY <1>1, <1>2 DEF OwnAnswer
<1> QED BY <1>1, <1>3, <1>4, <1>5, <1>6 DEF IInv

LEMMA StopKeeps ==
    ASSUME IInv, NEW next \in {"start", "fail", "exit"}, Stop(next)
    PROVE  IInv'
<1>1. TypeOK /\ Awaited /\ Matched /\ InTurn /\ OwnAnswer /\ (Patient => Waited)
  BY DEF IInv
<1>2. /\ next # "exit" => gen < MaxConf
      /\ Patient => \A g \in Conf : starter[g].at = "none"
      /\ running' = FALSE /\ open' = FALSE
      /\ devlist' = 0 /\ registered' = registered \ {devlist}
      /\ ChannelFails(starter)
      /\ stopping' = next
      /\ waits' = {c \in Chain : chain[c] = "due"}
      /\ UNCHANGED <<mode, gen, client, tid, mixed>>
  BY DEF Stop, UnregDev
<1>3. /\ chain' \in [Chain -> {"off", "due", "asking"}]
      /\ starter' \in [Conf -> Starters]
      /\ pend' \in Seq(Request) /\ Len(pend') <= MaxPend /\ wire' \in Seq(Answer)
      /\ reading' \in BOOLEAN
      /\ Awaited' /\ Matched'
      /\ \A g \in Conf : starter'[g].at # "none" => starter[g].at # "none"
      /\ \A g \in Conf : Starting(g)'
      /\ \A d \in Chain : chain'[d] = IF chain[d] = "asking" THEN "off" ELSE chain[d]
  <2>1. \A g \in Conf : Starting(g)
    BY <1>1 DEF InTurn
  <2> QED BY <1>1, <1>2, <2>1, StartersType, FailsKeeps
<1>4. TypeOK'
  <2>1. devlist' \in 0 .. gen' /\ registered' \subseteq Conf /\ waits' \subseteq Chain
    BY <1>1, <1>2 DEF TypeOK
  <2> QED BY <1>1, <1>2, <1>3, <2>1 DEF TypeOK, Starters
<1>5. InTurn'
  <2>1. \A h \in Conf : h > gen' => starter'[h].at = "none"
    BY <1>1, <1>2, <1>3 DEF InTurn
  <2>2. \A d \in Chain : d[1] > gen' => chain'[d] = "off"
    BY <1>1, <1>2, <1>3 DEF InTurn
  <2>3. stopping' \in {"start", "fail"} => gen' < MaxConf
    BY <1>2
  <2> QED BY <1>3, <2>1, <2>2, <2>3 DEF InTurn
<1>6. OwnAnswer'
  BY <1>1, <1>2 DEF OwnAnswer
<1>7. ASSUME Patient PROVE Waited'
  <2>1. Waited
    BY <1>1, <1>7
  <2>2. \A d \in Chain : chain'[d] # "off" => chain'[d] = "due" /\ d \in waits'
    BY <1>1, <1>2, <1>3 DEF TypeOK
  <2>3. \A g \in Conf : starter'[g].at = "none"
    BY <1>2, <1>3, <1>7
  <2>4. registered' = {}
    BY <1>2, <2>1 DEF Waited
  <2> QED BY <1>2, <2>2, <2>3, <2>4 DEF Waited
<1> QED BY <1>3, <1>4, <1>5, <1>6, <1>7 DEF IInv

\* What follows a stop, at once or after its sleep: nothing of the former
\* configuration is left if it was left to start.
LEMMA ContinueKeeps ==
    ASSUME IInv, NEW next \in {"start", "fail", "exit"}, Continue(next),
           next # "exit" => gen < MaxConf, waits' = {}, UNCHANGED <<mode, mixed>>,
           ~ running \/ ~ Patient, Patient => \A c \in Chain : chain[c] # "due"
    PROVE  IInv'
<1>1. TypeOK /\ Awaited /\ Matched /\ InTurn /\ OwnAnswer /\ (Patient => Waited)
  BY DEF IInv
<1>2. \A g \in Conf : Starting(g)
  BY <1>1 DEF InTurn
<1>3. OwnAnswer'
  BY <1>1 DEF OwnAnswer
<1>4. gen \in 0 .. MaxConf /\ MaxConf \in Nat \ {0} /\ Polls \in Nat \ {0} /\ Tids \in Nat \ {0}
  BY <1>1, ModbusAssumption DEF TypeOK
<1>5. \A c \in Chain : Patient => chain[c] = "off"
  BY <1>1 DEF Waited
<1>6. \A g \in Conf : Patient => starter[g].at = "none"
  BY <1>1 DEF Waited
<1>7. CASE next = "exit"
  <2>1. /\ stopping' = "gone" /\ registered' = {}
        /\ starter' = [g \in Conf |-> NoStarter]
        /\ chain' = [c \in Chain |-> "off"]
        /\ reading' = FALSE /\ pend' = <<>> /\ wire' = <<>>
        /\ UNCHANGED <<gen, client, open, running, tid, devlist>>
    BY <1>7 DEF Continue, Gone
  <2>2. \A w \in Caller : ~ Asking(w)'
    BY <2>1, ReaderNoChain DEF Asking, Caller
  <2>3. /\ pend' \in Seq(Request) /\ Len(pend') <= MaxPend /\ wire' \in Seq(Answer)
        /\ Awaited' /\ Matched'
    <3>1. wire' \in Seq(Answer)
      BY <2>1
    <3> QED BY <2>1, <2>2, <3>1, EmptyChannel
  <2>4. \A g \in Conf : starter'[g].at = "none"
    BY <2>1 DEF NoStarter
  <2>5. starter' \in [Conf -> Starters]
    BY <1>4, <2>1 DEF NoStarter, Starters
  <2>6. chain' \in [Chain -> {"off", "due", "asking"}] /\ \A d \in Chain : chain'[d] = "off"
    BY <2>1
  <2>7. TypeOK'
    BY <1>1, <2>1, <2>3, <2>5, <2>6 DEF TypeOK, Starters
  <2>8. InTurn'
    BY <2>1, <2>4, <2>6 DEF InTurn, Starting
  <2>9. ASSUME Patient PROVE Waited'
    <3>1. ~ running
      BY <2>9
    <3> QED BY <2>1, <2>4, <2>6, <3>1 DEF Waited
  <2> QED BY <1>3, <2>3, <2>7, <2>8, <2>9 DEF IInv
<1>8. CASE next # "exit"
  <2> DEFINE new == gen + 1
             st == IF next = "start"
                   THEN [starter EXCEPT ![new] = [at |-> "sleep", poll |-> 1]] ELSE starter
  <2>1. NewClient(next)
    BY <1>8 DEF Continue
  <2>2. /\ gen' = new /\ client' = new /\ open' = TRUE /\ tid' = 0
        /\ running' = (next = "start")
        /\ ChannelFails(st)
        /\ stopping' = "no"
        /\ UNCHANGED <<devlist, registered>>
    BY <2>1 DEF NewClient
  <2>3. new \in Conf /\ new > gen /\ new \in 1 .. MaxConf
    BY <1>4, <1>8 DEF Conf
  <2>4. \A q \in 1 .. Polls : chain[<<new, q>>] = "off"
    <3>1. \A q \in 1 .. Polls : <<new, q>> \in Chain
      BY <2>3 DEF Chain
    <3> HIDE DEF new
    <3> QED BY <1>1, <2>3, <3>1 DEF InTurn
  <2>5. starter \in [Conf -> Starters] /\ [at |-> "sleep", poll |-> 1] \in Starters
    BY <1>1, <1>4, StartersType DEF Starters
  <2>6. st \in [Conf -> Starters]
    BY <2>3, <2>5
  <2>7. \A g \in Conf : st[g] = starter[g] \/ (g = new /\ next = "start" /\ st[g] = [at |-> "sleep", poll |-> 1])
    BY <2>3, <2>5
  <2> HIDE DEF st, new
  <2>8. \A g \in Conf : st[g] = starter[g]
           \/ (st[g] = [at |-> "sleep", poll |-> 1] /\ \A q \in 1 .. Polls : chain[<<g, q>>] = "off")
    BY <2>4, <2>7
  <2>9. /\ chain' \in [Chain -> {"off", "due", "asking"}]
        /\ starter' \in [Conf -> Starters]
        /\ pend' \in Seq(Request) /\ Len(pend') <= MaxPend /\ wire' \in Seq(Answer)
        /\ reading' \in BOOLEAN
        /\ Awaited' /\ Matched'
        /\ \A g \in Conf : starter'[g].at # "none" => st[g].at # "none"
        /\ \A g \in Conf : Starting(g)'
        /\ \A d \in Chain : chain'[d] = IF chain[d] = "asking" THEN "off" ELSE chain[d]
    BY <1>1, <1>2, <2>2, <2>6, <2>8, FailsKeeps
  <2>10. TypeOK'
    <3>1. /\ gen' \in 0 .. MaxConf /\ client' \in 0 .. gen' /\ devlist' \in 0 .. gen'
          /\ tid' \in 0 .. Tids - 1
      BY <1>1, <1>4, <2>2, <2>3 DEF TypeOK, new
    <3>2. waits' \subseteq Chain /\ registered' \subseteq Conf
      BY <1>1, <2>2 DEF TypeOK
    <3> QED BY <1>1, <2>2, <2>9, <3>1, <3>2 DEF TypeOK, Starters
  <2>11. InTurn'
    <3>1. ASSUME NEW h \in Conf, h > new PROVE h > gen /\ h # new
      BY <1>4, <2>3, <3>1 DEF Conf
    <3>2. \A h \in Conf : h > gen' => starter'[h].at = "none"
      <4>1. ASSUME NEW h \in Conf, h > gen' PROVE starter'[h].at = "none"
        <5>1. h > gen /\ h # new
          BY <2>2, <3>1, <4>1
        <5>2. st[h] = starter[h] /\ starter[h].at = "none"
          BY <1>1, <2>7, <5>1 DEF InTurn
        <5> QED BY <2>9, <5>2
      <4> QED BY <4>1
    <3>3. \A d \in Chain : d[1] > gen' => chain'[d] = "off"
      <4>1. ASSUME NEW d \in Chain, d[1] > gen' PROVE chain'[d] = "off"
        <5>1. d[1] > gen
          BY <2>2, <3>1, <4>1 DEF Chain
        <5>2. chain[d] = "off"
          BY <1>1, <5>1 DEF InTurn
        <5> QED BY <2>9, <5>2
      <4> QED BY <4>1
    <3> QED BY <2>2, <2>9, <3>2, <3>3 DEF InTurn
  <2>12. ASSUME Patient PROVE Waited'
    <3>1. Waited /\ ~ running
      BY <1>1, <2>12
    <3>2. \A d \in Chain : chain'[d] = "off"
      BY <1>5, <2>9, <2>12
    <3>3. ASSUME NEW h \in Conf, starter'[h].at # "none"
          PROVE  running' /\ h = gen'
      <4>1. st[h].at # "none" /\ starter[h].at = "none"
        BY <1>6, <2>9, <2>12, <3>3
      <4> QED BY <2>2, <2>7, <4>1
    <3>4. registered = {}
      BY <3>1 DEF Waited
    <3> QED BY <2>2, <3>2, <3>3, <3>4 DEF Waited
  <2> QED BY <1>3, <2>9, <2>10, <2>11, <2>12 DEF IInv
<1> QED BY <1>7, <1>8

LEMMA StopIdleKeeps ==
    ASSUME IInv, NEW next \in {"start", "fail", "exit"}, StopIdle(next)
    PROVE  IInv'
<1>1. /\ stopping = "no" /\ ~ running /\ Continue(next)
      /\ next # "exit" => gen < MaxConf
      /\ waits' = {} /\ UNCHANGED <<mode, mixed>>
  BY DEF StopIdle
<1>2. ASSUME Patient PROVE \A c \in Chain : chain[c] # "due"
  <2>1. Waited
    BY <1>2 DEF IInv
  <2> QED BY <1>1, <2>1 DEF Waited
<1> QED BY <1>1, <1>2, ContinueKeeps

LEMMA StopEndsKeeps ==
    ASSUME IInv, StopEnds
    PROVE  IInv'
<1>1. /\ stopping \in {"start", "fail", "exit"} /\ Slept /\ Continue(stopping)
      /\ waits' = {} /\ UNCHANGED <<mode, mixed>>
  BY DEF StopEnds
<1>2. stopping # "exit" => gen < MaxConf
  BY <1>1 DEF IInv, InTurn
<1>3. ASSUME Patient PROVE ~ running /\ \A c \in Chain : chain[c] # "due"
  <2>1. Waited
    BY <1>3 DEF IInv
  <2> QED BY <1>1, <2>1 DEF Waited, Slept
<1> DEFINE next == stopping
<1>4. next \in {"start", "fail", "exit"} /\ Continue(next) /\ (next # "exit" => gen < MaxConf)
  BY <1>1, <1>2
<1> HIDE DEF next
<1> QED BY <1>1, <1>3, <1>4, ContinueKeeps

-----------------------------------------------------------------------------
LEMMA InitIInv == Init => IInv
<1> SUFFICES ASSUME Init PROVE IInv
  OBVIOUS
<1>1. /\ Polls \in Nat \ {0} /\ MaxConf \in Nat \ {0} /\ MaxPend \in Nat \ {0}
      /\ Tids \in Nat \ {0}
  BY ModbusAssumption
<1>2. TypeOK
  <2>1. starter \in [Conf -> [at : {"none", "sleep", "run"}, poll : 0 .. Polls]]
    BY <1>1 DEF Init, NoStarter
  <2>2. chain \in [Chain -> {"off", "due", "asking"}]
    BY DEF Init
  <2>3. pend \in Seq(Request) /\ Len(pend) <= MaxPend /\ wire \in Seq(Answer)
    BY <1>1 DEF Init
  <2>4. tid \in 0 .. Tids - 1 /\ gen \in 0 .. MaxConf /\ client \in 0 .. gen /\ devlist \in 0 .. gen
    BY <1>1 DEF Init
  <2> QED BY <2>1, <2>2, <2>3, <2>4 DEF Init, TypeOK
<1>3. \A w \in Caller : ~ Asking(w)
  BY ReaderNoChain DEF Init, Asking, Caller
<1>4. pend = <<>> /\ wire = <<>> /\ DOMAIN pend = {} /\ DOMAIN wire = {}
  BY DEF Init
<1>5. Awaited
  BY <1>3, <1>4 DEF Awaited
<1>6. Matched
  BY <1>4 DEF Matched
<1>7. InTurn
  BY DEF Init, InTurn, Starting, NoStarter
<1>8. OwnAnswer /\ Waited
  BY DEF Init, OwnAnswer, Waited, NoStarter
<1> QED BY <1>2, <1>5, <1>6, <1>7, <1>8 DEF IInv

LEMMA StepIInv == IInv /\ [Next]_vars => IInv'
<1> SUFFICES ASSUME IInv, [Next]_vars PROVE IInv'
  OBVIOUS
<1>1. CASE \E g \in Conf : StartStep(g)
  BY <1>1, StartStepKeeps
<1>2. CASE \E c \in Chain : TimerFires(c)
  BY <1>2, TimerFiresKeeps
<1>3. CASE \E w \in Caller : TimesOut(w)
  BY <1>3, TimesOutKeeps
<1>4. CASE \E n \in 1 .. Len(wire) : Deliver(n) \/ SerialLost(n)
  BY <1>4, DeliverKeepsAll, SerialLostKeeps
<1>5. CASE Read \/ Breaks \/ StopEnds
  BY <1>5, ReadKeeps, BreaksKeeps, StopEndsKeeps
<1>6. CASE \E next \in {"start", "fail", "exit"} : Stop(next) \/ StopIdle(next)
  BY <1>6, StopKeeps, StopIdleKeeps
<1>7. CASE UNCHANGED vars
  <2>1. UNCHANGED <<mode, gen, client, open, stopping, waits, running, starter, chain, reading,
                    tid, pend, wire, devlist, registered, mixed>>
    BY <1>7 DEF vars, confVars, chanVars
  <2>2. \A w \in Caller : Asking(w)' <=> Asking(w)
    BY <2>1 DEF Asking
  <2>3. Awaited' /\ Matched'
    BY <2>1, <2>2, SameChannel DEF IInv
  <2>4. TypeOK' /\ InTurn' /\ OwnAnswer' /\ (Patient => Waited')
    BY <2>1 DEF IInv, TypeOK, InTurn, Starting, OwnAnswer, Waited
  <2> QED BY <2>3, <2>4 DEF IInv
<1> QED BY <1>1, <1>2, <1>3, <1>4, <1>5, <1>6, <1>7 DEF Next

LEMMA SpecIInv == Spec => []IInv
BY InitIInv, StepIInv, PTL DEF Spec

\* A coroutine that waits in the channel wakes its caller only from the sleep
\* of that request, for any number of requests, polls and configurations.
THEOREM LateHarmless == Spec => []RequestsInv
<1>1. IInv => RequestsInv
  <2> SUFFICES ASSUME IInv PROVE RequestsInv
    OBVIOUS
  <2>1. TypeOK /\ Awaited
    BY DEF IInv
  <2>2. ASSUME NEW i \in DOMAIN pend PROVE pend[i].drop \/ Asking(pend[i].who)
    <3> DEFINE w == pend[i].who
    <3>1. pend[i] \in Request
      BY <2>1, ElementOfSeq, LenProperties DEF TypeOK
    <3>2. w \in Caller
      BY <3>1 DEF Request
    <3>3. pend[i].drop \/ Asking(w)
      BY <2>1, <3>2 DEF Awaited
    <3> QED BY <3>3
  <2> QED BY <2>1, <2>2 DEF RequestsInv, AwaitedOrDropped
<1> QED BY <1>1, SpecIInv, PTL

\* With answers matched by transaction id no answer is taken for that of another
\* request, however late it comes; by order, or on a serial line, this fails.
THEOREM AnswersOwn == Spec => []OwnAnswer
<1>1. IInv => OwnAnswer
  BY DEF IInv
<1> QED BY <1>1, SpecIInv, PTL

\* A configuration left to start finds no poll of a former one, and the gateway
\* knows the devices of one configuration at most.
THEOREM FormerGone == Spec => []Settled
<1>1. IInv => Settled
  <2> SUFFICES ASSUME IInv, Patient PROVE Settled
    BY DEF Settled
  <2>1. Waited
    BY DEF IInv
  <2>2. \A c \in Chain : chain[c] # "off" /\ running => c[1] = gen
    BY <2>1 DEF Waited
  <2>3. Cardinality(registered) <= 1
    <3>1. registered \subseteq {gen}
      BY <2>1 DEF Waited
    <3>2. registered = {} \/ registered = {gen}
      BY <3>1
    <3>3. Cardinality({gen}) = 1 /\ Cardinality({}) = 0
      BY FS_EmptySet, FS_Singleton
    <3> QED BY <3>2, <3>3
  <2> QED BY <2>2, <2>3 DEF Settled
<1> QED BY <1>1, SpecIInv, PTL
=============================================================================
