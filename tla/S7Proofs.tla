------------------------------ MODULE S7Proofs ------------------------------
(***************************************************************************)
(* What a call moves is what it was asked to, for every set of calls, every *)
(* PDU length and any overhead (S7).                                       *)
(***************************************************************************)
EXTENDS S7, TLAPS

-----------------------------------------------------------------------------
(* Arithmetic of slices.                                                    *)

\* Sizes are small, so that products with them are linear.
LEMMA SizeProducts ==
    ASSUME NEW s \in {1, 2, 4}, NEW a \in Nat, NEW b \in Nat
    PROVE  /\ a * s \in Nat
           /\ (a + b) * s = a * s + b * s
           /\ (a > 0) => (a * s > 0)
           /\ (a <= b) => (a * s <= b * s /\ b - a \in Nat /\ (b - a) * s = b * s - a * s)
<1>1. CASE s = 1
  BY <1>1
<1>2. CASE s = 2
  BY <1>2
<1>3. CASE s = 4
  BY <1>3
<1> QED BY <1>1, <1>2, <1>3

\* The remainder is no more than the number.
LEMMA Remainder ==
    ASSUME NEW n \in Nat, NEW d \in Nat \ {0}
    PROVE  n % d \in Nat /\ n % d <= n /\ n % d < d /\ (n < d => n % d = n)
OBVIOUS

LEMMA Quotient ==
    ASSUME NEW s \in {1, 2, 4}, NEW n \in Nat
    PROVE  n \div s \in Nat
<1>1. CASE s = 1
  BY <1>1
<1>2. CASE s = 2
  BY <1>2
<1>3. CASE s = 4
  BY <1>3
<1> QED BY <1>1, <1>2, <1>3

\* A slice after the bytes before it.
LEMMA SliceJoins ==
    ASSUME NEW b \in Nat, NEW o \in Nat, NEW l \in Nat
    PROVE  Slice(b, 0, o) \cup Slice(b + o, o, l) = Slice(b, 0, o + l)
<1>1. ASSUME NEW x \in Slice(b, 0, o + l)
      PROVE  x \in Slice(b, 0, o) \cup Slice(b + o, o, l)
  <2>1. PICK i \in 1 .. o + l : x = <<b + i - 1, 0 + i>>
    BY DEF Slice
  <2>2. CASE i <= o
    BY <2>1, <2>2 DEF Slice
  <2>3. CASE i > o
    <3>1. i - o \in 1 .. l /\ x = <<b + o + (i - o) - 1, o + (i - o)>>
      BY <2>1, <2>3
    <3> QED BY <3>1 DEF Slice
  <2> QED BY <2>1, <2>2, <2>3
<1>2. ASSUME NEW x \in Slice(b, 0, o)
      PROVE  x \in Slice(b, 0, o + l)
  BY DEF Slice
<1>3. ASSUME NEW x \in Slice(b + o, o, l)
      PROVE  x \in Slice(b, 0, o + l)
  <2>1. PICK i \in 1 .. l : x = <<b + o + i - 1, o + i>>
    BY DEF Slice
  <2>2. o + i \in 1 .. o + l /\ x = <<b + (o + i) - 1, 0 + (o + i)>>
    BY <2>1
  <2> QED BY <2>2 DEF Slice
<1> QED BY <1>1, <1>2, <1>3

LEMMA SlicePairs ==
    ASSUME NEW b \in Nat, NEW o \in Nat, NEW l \in Nat
    PROVE  Slice(b, o, l) \subseteq Nat \X Nat
BY DEF Slice

LEMMA SliceEmpty ==
    ASSUME NEW b \in Nat
    PROVE  Slice(b, 0, 0) = {}
BY DEF Slice

\* A part is not the whole.
LEMMA SliceGrows ==
    ASSUME NEW b \in Nat, NEW o \in Nat, NEW t \in Nat, o < t
    PROVE  Slice(b, 0, o) # Slice(b, 0, t)
<1>1. <<b + t - 1, 0 + t>> \in Slice(b, 0, t)
  BY DEF Slice
<1>2. <<b + t - 1, 0 + t>> \notin Slice(b, 0, o)
  BY DEF Slice
<1> QED BY <1>1, <1>2

-----------------------------------------------------------------------------
(* Types.  A slice is never longer than what is left.                       *)

Fits == at \in {"sent", "wait"} => num <= left

Typed == TypeOK /\ Fits

LEMMA JobFields ==
    ASSUME TypeOK
    PROVE  /\ job \in Job /\ job.op \in Op /\ job.size \in {1, 2, 4}
           /\ job.bit \in BOOLEAN /\ job.counted \in BOOLEAN
           /\ job.start \in Int /\ job.amount \in Int
<1>1. job \in Job
  BY S7Assumption DEF TypeOK
<1> QED BY <1>1 DEF Job

LEMMA NumTyped ==
    ASSUME TypeOK
    PROVE  NumElements \in Nat /\ NumElements <= left
<1>1. left % WordSpace \in Nat /\ left % WordSpace <= left
  BY Remainder, S7Assumption DEF TypeOK
<1>2. pdu - Overhead[job.op] \in Nat
  <2>1. /\ pdu \in Nat /\ Overhead[job.op] \in Nat
        /\ pdu >= Overhead[job.op]
    BY JobFields, S7Assumption DEF TypeOK
  <2> QED BY <2>1
<1>3. MaxElements \in Nat
  BY <1>2, Quotient, JobFields DEF MaxElements
<1> QED BY <1>1, <1>3 DEF NumElements, TypeOK

LEMMA BaseTyped ==
    ASSUME TypeOK, NEW p \in Nat
    PROVE  Base(p) \in Nat
<1>1. p * job.size \in Nat
  BY JobFields, SizeProducts
<1> QED BY <1>1, Remainder, S7Assumption DEF Base

LEMMA InitTyped == Init => Typed
<1> SUFFICES ASSUME Init PROVE Typed
  OBVIOUS
<1>1. reqs \in Seq(Request) /\ answers \in Seq(Reply)
  BY DEF Init
<1> QED BY <1>1 DEF Init, Typed, TypeOK, Fits, Results

\* A call that begins, whatever it does to the connection.
LEMMA BeginTyped ==
    ASSUME NEW j \in Jobs, Begin(j), left \in Nat, pos \in Nat, off \in Nat, num \in Nat, first \in BOOLEAN
    PROVE  /\ job' \in Jobs /\ moved' = {} /\ at' \in {"idle", "send"} /\ result' \in {"none", "invalid"}
           /\ left' \in Nat /\ pos' \in Nat /\ off' \in Nat /\ num' \in Nat /\ first' \in BOOLEAN
<1>1. j.start \in Int /\ j.amount \in Int
  BY S7Assumption DEF Job
<1>2. CASE Valid(j)
  <2>1. j.start \in Nat /\ j.amount \in Nat
    BY <1>1, <1>2 DEF Valid
  <2> QED BY <1>2, <2>1 DEF Begin
<1>3. CASE ~Valid(j)
  BY <1>3 DEF Begin, Ended, sliceVars
<1> QED BY <1>2, <1>3

LEMMA NextSliceTyped ==
    ASSUME Typed, at = "wait", NextSlice
    PROVE  /\ left' \in Nat /\ pos' \in Nat /\ off' \in Nat /\ num' \in Nat /\ first' \in BOOLEAN
           /\ at' \in {"idle", "send"} /\ result' \in {result, "ok"}
<1>1. num * job.size \in Nat
  BY JobFields, SizeProducts DEF Typed, TypeOK
<1>2. left - num \in Nat
  BY DEF Typed, TypeOK, Fits
<1>3. first' \in BOOLEAN /\ at' \in {"idle", "send"} /\ result' \in {result, "ok"}
  <2>1. CASE left - num > 0
    BY <2>1 DEF NextSlice, NotFirst
  <2>2. CASE ~(left - num > 0)
    BY <2>2 DEF NextSlice, NotFirst, Ended
  <2> QED BY <2>1, <2>2
<1>4. left' = left - num /\ pos' = pos + num * job.size /\ off' = off + num * job.size /\ num' = num
  BY DEF NextSlice, Step
<1>5. left' \in Nat /\ pos' \in Nat /\ off' \in Nat /\ num' \in Nat
  <2> HIDE DEF NextSlice
  <2>1. pos \in Nat /\ off \in Nat /\ num \in Nat
    BY DEF Typed, TypeOK
  <2> QED BY <1>1, <1>2, <1>4, <2>1
<1> QED BY <1>3, <1>5

LEMMA StepTyped == Typed /\ [Next]_vars => Typed'
<1> SUFFICES ASSUME Typed, [Next]_vars PROVE Typed'
  OBVIOUS
<1> USE DEF Typed, Results
<1>1. ASSUME NEW j \in Jobs, Call(j) PROVE Typed'
  BY <1>1, BeginTyped DEF TypeOK, Fits, Call, netVars
<1>2. ASSUME NEW j \in Jobs, CallConnects(j) PROVE Typed'
  BY <1>2, BeginTyped DEF TypeOK, Fits, CallConnects
<1>3. ASSUME NEW j \in Jobs, CallRefused(j) PROVE Typed'
  BY <1>3 DEF TypeOK, Fits, CallRefused, Ended, netVars, sliceVars
<1>4. CASE Send
  <2>1. /\ num' = NumElements /\ num' \in Nat /\ num' <= left
        /\ num' * job.size \in Nat /\ Base(pos) \in Nat
    BY <1>4, NumTyped, BaseTyped, JobFields, SizeProducts DEF Send, TypeOK
  <2>2. reqs' \in Seq(Request)
    <3>1. [op |-> job.op, base |-> Base(pos), off |-> off, len |-> num' * job.size] \in Request
      BY <2>1, JobFields DEF Request, TypeOK
    <3> QED BY <3>1, <1>4 DEF Send, TypeOK
  <2> QED BY <1>4, <2>1, <2>2 DEF Send, TypeOK, Fits
<1>5. CASE FindsReset
  <2>1. /\ connected' = FALSE /\ link' = "none" /\ reqs' = <<>> /\ answers' = <<>>
        /\ at' = "idle" /\ result' = "lost"
        /\ UNCHANGED <<pdu, clean, job, left, pos, off, num, first, moved>>
    BY <1>5 DEF FindsReset, Ended, sliceVars
  <2>2. reqs' \in Seq(Request) /\ answers' \in Seq(Reply)
    BY <2>1
  <2> QED BY <2>1, <2>2 DEF TypeOK, Fits
<1>6. CASE SendFails
  BY <1>6 DEF SendFails, TypeOK, Fits, Ended, netVars, sliceVars
<1>7. CASE GetData
  <2>1. Head(answers) \in Reply /\ Tail(answers) \in Seq(Reply)
    BY <1>7 DEF GetData, TypeOK
  <2>2. Slice(Head(answers).base, off, Head(answers).len) \subseteq Nat \X Nat
    BY <2>1, SlicePairs DEF TypeOK, Reply
  <2>3. CASE NextSlice
    BY <1>7, <2>1, <2>2, <2>3, NextSliceTyped DEF GetData, TypeOK, Fits, Ended, sliceVars
  <2>4. CASE ~NextSlice
    BY <1>7, <2>1, <2>4 DEF GetData, TypeOK, Fits, Ended, sliceVars
  <2> QED BY <2>3, <2>4
<1>8. CASE GetWritten
  <2>1. Tail(answers) \in Seq(Reply)
    BY <1>8 DEF GetWritten, TypeOK
  <2>2. CASE NextSlice
    BY <1>8, <2>1, <2>2, NextSliceTyped DEF GetWritten, TypeOK, Fits, Ended, sliceVars
  <2>3. CASE ~NextSlice
    BY <1>8, <2>1, <2>3 DEF GetWritten, TypeOK, Fits, Ended, sliceVars
  <2> QED BY <2>2, <2>3
<1>9. CASE Timeout
  BY <1>9 DEF Timeout, TypeOK, Fits, Ended, sliceVars
<1>10. CASE PlcAnswers
  <2>1. Head(reqs) \in Request /\ Tail(reqs) \in Seq(Request)
    BY <1>10 DEF PlcAnswers, TypeOK
  <2>2. PICK kind \in {"ok", "item", "header"} :
          /\ answers' = Append(answers, [kind |-> kind, op |-> Head(reqs).op, base |-> Head(reqs).base, len |-> Head(reqs).len])
          /\ moved' = IF kind = "ok" /\ Head(reqs).op = "write"
                      THEN moved \cup Slice(Head(reqs).base, Head(reqs).off, Head(reqs).len) ELSE moved
    BY <1>10 DEF PlcAnswers
  <2>3. [kind |-> kind, op |-> Head(reqs).op, base |-> Head(reqs).base, len |-> Head(reqs).len] \in Reply
    BY <2>1 DEF Reply, Request
  <2>4. answers' \in Seq(Reply)
    BY <2>2, <2>3 DEF TypeOK
  <2>5. Slice(Head(reqs).base, Head(reqs).off, Head(reqs).len) \subseteq Nat \X Nat
    BY <2>1, SlicePairs DEF Request
  <2>6. moved' \subseteq Nat \X Nat
    BY <2>2, <2>5 DEF TypeOK
  <2> QED BY <1>10, <2>1, <2>4, <2>6 DEF PlcAnswers, TypeOK, Fits, sliceVars
<1>11. CASE PlcCloses
  BY <1>11 DEF PlcCloses, TypeOK, Fits, sliceVars
<1>12. CASE LinkFails
  BY <1>12 DEF LinkFails, TypeOK, Fits, sliceVars
<1>13. CASE Await
  BY <1>13 DEF Await, TypeOK, Fits, netVars, sliceVars
<1>14. CASE UNCHANGED vars
  BY <1>14 DEF vars, netVars, sliceVars, TypeOK, Fits
<1> QED BY <1>1, <1>2, <1>3, <1>4, <1>5, <1>6, <1>7, <1>8, <1>9, <1>10, <1>11, <1>12, <1>13, <1>14 DEF Next

\* The model is typed: no slice is longer than what is left, no count negative
\* (opReadArea, opWriteArea).
THEOREM TypeCorrect == Spec => []TypeOK
<1>1. Spec => []Typed
  BY InitTyped, StepTyped, PTL DEF Spec
<1> QED BY <1>1, PTL DEF Typed

-----------------------------------------------------------------------------
(* The invariant.                                                           *)

\* What the bytes up to Offset amount to.
Part == Slice(job.start, 0, off)

\* The same with the slice under way.
PartAndSlice == Slice(job.start, 0, off + num * job.size)

Whole == Slice(job.start, 0, job.amount * job.size)

\* Where the call is: what is left is what is not done.
Placed ==
    /\ (at # "idle") => /\ Valid(job) /\ result = "none" /\ left > 0
                        /\ off + left * job.size = job.amount * job.size
                        /\ ~job.counted => pos = job.start + off
    /\ result \in {"ok", "cpu", "partial"} => Valid(job)

\* A slice is under way.
UnderWay == at \in {"sent", "wait"}

\* On a clean connection the PLC has at most the request of the slice under
\* way, or the client its answer.
Alone ==
    clean =>
        \/ reqs = <<>> /\ answers = <<>>
        \/ /\ UnderWay /\ answers = <<>>
           /\ reqs = <<[op |-> job.op, base |-> Base(pos), off |-> off, len |-> num * job.size]>>
        \/ /\ UnderWay /\ reqs = <<>>
           /\ \E kind \in {"ok", "item", "header"} :
                /\ answers = <<[kind |-> kind, op |-> job.op, base |-> Base(pos), len |-> num * job.size]>>
                /\ (kind = "ok") => (num * job.size > 0)

\* What was moved, at each point of a call; the PLC writes before it answers.
Moved ==
    /\ (at # "idle") => (first <=> (off = 0))
    /\ (at = "send" \/ (UnderWay /\ job.op = "read")) => moved = Part
    /\ (UnderWay /\ job.op = "write") =>
            /\ moved \in {Part, PartAndSlice}
            /\ reqs # <<>> => moved = Part
            /\ answers # <<>> => moved = IF Head(answers).kind = "ok" THEN PartAndSlice ELSE Part
    /\ (result = "ok") => moved = Whole
    /\ (result = "cpu" /\ job.op = "write" /\ first) => moved = {}
    /\ (result = "partial" \/ (result = "cpu" /\ job.op = "write" /\ ~first)) => moved \notin {{}, Whole}
    /\ (at = "idle" /\ job.op = "write" /\ result # "none") => FirstBytes

Data == (clean /\ InReach) => Moved

Inv == Typed /\ Placed /\ Alone /\ Data

LEMMA InitInv == Init => Inv
<1> SUFFICES ASSUME Init PROVE Inv
  OBVIOUS
<1>1. Typed
  BY InitTyped
<1>2. Placed /\ Alone /\ Data
  BY DEF Init, Placed, Alone, Data, Moved, UnderWay
<1> QED BY <1>1, <1>2 DEF Inv

-----------------------------------------------------------------------------
(* Placed is kept.                                                          *)

LEMMA BeginPlaced ==
    ASSUME NEW j \in Jobs, Begin(j)
    PROVE  Placed'
<1>1. j.start \in Int /\ j.amount \in Int /\ j.size \in {1, 2, 4}
  BY S7Assumption DEF Job
<1>2. CASE Valid(j)
  <2>1. /\ job' = j /\ at' = "send" /\ result' = "none"
        /\ left' = j.amount /\ pos' = j.start /\ off' = 0
    BY <1>2 DEF Begin
  <2>2. j.amount \in Nat /\ j.amount > 0 /\ j.amount * j.size \in Nat
    BY <1>1, <1>2, SizeProducts DEF Valid
  <2>3. Valid(job)'
    BY <1>2, <2>1 DEF Valid
  <2>4. (left > 0)' /\ (off + left * job.size = job.amount * job.size)' /\ (pos = job.start + off)'
    BY <1>1, <2>1, <2>2
  <2> QED BY <2>1, <2>3, <2>4 DEF Placed
<1>3. CASE ~Valid(j)
  BY <1>3 DEF Begin, Ended, Placed
<1> QED BY <1>2, <1>3

LEMMA NextSlicePlaced ==
    ASSUME Typed, Placed, at = "wait", NextSlice, UNCHANGED job
    PROVE  Placed'
<1>1. /\ left' = left - num /\ pos' = pos + num * job.size /\ off' = off + num * job.size
      /\ at' = "send" => left - num > 0
      /\ at' = "send" => result' = result
      /\ at' \in {"send", "idle"}
  BY DEF NextSlice, Step, Ended
<1>2. /\ left \in Nat /\ num \in Nat /\ pos \in Nat /\ off \in Nat /\ num <= left
      /\ job.size \in {1, 2, 4} /\ job.start \in Int
  BY JobFields DEF Typed, TypeOK, Fits
<1>3. /\ num * job.size \in Nat /\ left * job.size \in Nat
      /\ (left - num) * job.size = left * job.size - num * job.size
  BY <1>2, SizeProducts
<1>4. /\ Valid(job) /\ result = "none"
      /\ off + left * job.size = job.amount * job.size
      /\ ~job.counted => pos = job.start + off
  BY DEF Placed
<1>5. off' + left' * job.size = job.amount * job.size
  BY <1>1, <1>2, <1>3, <1>4
<1>6. ~job.counted => pos' = job.start + off'
  BY <1>1, <1>2, <1>3, <1>4
<1> QED BY <1>1, <1>4, <1>5, <1>6 DEF Placed, Valid

LEMMA StepPlaced == Typed /\ Placed /\ [Next]_vars => Placed'
<1> SUFFICES ASSUME Typed, Placed, [Next]_vars PROVE Placed'
  OBVIOUS
<1>1. ASSUME NEW j \in Jobs, Call(j) \/ CallConnects(j) PROVE Placed'
  BY <1>1, BeginPlaced DEF Call, CallConnects
<1>2. ASSUME NEW j \in Jobs, CallRefused(j) PROVE Placed'
  BY <1>2 DEF CallRefused, Ended, Placed
<1>3. CASE Send
  BY <1>3 DEF Send, Placed, Valid
<1>4. CASE FindsReset \/ SendFails \/ Timeout
  BY <1>4 DEF FindsReset, SendFails, Timeout, Ended, Placed
<1>5. CASE GetData
  <2>1. CASE NextSlice
    BY <1>5, <2>1, NextSlicePlaced DEF GetData
  <2>2. CASE ~NextSlice
    BY <1>5, <2>2 DEF GetData, Ended, Placed, Valid
  <2> QED BY <2>1, <2>2
<1>6. CASE GetWritten
  <2>1. CASE NextSlice
    BY <1>6, <2>1, NextSlicePlaced DEF GetWritten
  <2>2. CASE ~NextSlice
    BY <1>6, <2>2 DEF GetWritten, Ended, Placed, Valid
  <2> QED BY <2>1, <2>2
<1>7. CASE Await \/ PlcAnswers \/ PlcCloses \/ LinkFails \/ UNCHANGED vars
  BY <1>7 DEF Await, PlcAnswers, PlcCloses, LinkFails, vars, sliceVars, Placed, Valid
<1> QED BY <1>1, <1>2, <1>3, <1>4, <1>5, <1>6, <1>7 DEF Next

-----------------------------------------------------------------------------
(* Alone is kept.                                                           *)

\* Nothing is on the way unless a slice is.
LEMMA QuietUnlessWaiting ==
    ASSUME Alone, clean, ~UnderWay
    PROVE  reqs = <<>> /\ answers = <<>>
BY DEF Alone

\* What is under way while an answer is there, or a request.
LEMMA OneAnswer ==
    ASSUME Alone, clean, answers # <<>>
    PROVE  /\ UnderWay /\ reqs = <<>> /\ Tail(answers) = <<>>
           /\ Head(answers).kind \in {"ok", "item", "header"} /\ Head(answers).op = job.op
           /\ Head(answers).base = Base(pos) /\ Head(answers).len = num * job.size
           /\ Head(answers).kind = "ok" => num * job.size > 0
<1>1. PICK kind \in {"ok", "item", "header"} :
        /\ answers = <<[kind |-> kind, op |-> job.op, base |-> Base(pos), len |-> num * job.size]>>
        /\ (kind = "ok") => (num * job.size > 0)
  BY DEF Alone
<1> QED BY <1>1 DEF Alone

LEMMA OneRequest ==
    ASSUME Alone, clean, reqs # <<>>
    PROVE  /\ UnderWay /\ answers = <<>> /\ Tail(reqs) = <<>>
           /\ Head(reqs).op = job.op /\ Head(reqs).base = Base(pos)
           /\ Head(reqs).off = off /\ Head(reqs).len = num * job.size
<1>1. /\ UnderWay /\ answers = <<>>
      /\ reqs = <<[op |-> job.op, base |-> Base(pos), off |-> off, len |-> num * job.size]>>
  BY DEF Alone
<1> DEFINE r == [op |-> job.op, base |-> Base(pos), off |-> off, len |-> num * job.size]
<1>2. Head(<<r>>) = r /\ Tail(<<r>>) = <<>>
  OBVIOUS
<1>3. r.op = job.op /\ r.base = Base(pos) /\ r.off = off /\ r.len = num * job.size
  OBVIOUS
<1> QED BY <1>1, <1>2, <1>3

LEMMA StepAlone == Typed /\ Alone /\ [Next]_vars => Alone'
<1> SUFFICES ASSUME Typed, Alone, [Next]_vars, clean' PROVE Alone'
  BY DEF Alone
<1>1. ASSUME NEW j \in Jobs, Call(j) \/ CallRefused(j) PROVE Alone'
  <2>1. at = "idle" /\ clean /\ reqs' = reqs /\ answers' = answers
    BY <1>1 DEF Call, CallRefused, netVars
  <2> QED BY <2>1, QuietUnlessWaiting DEF Alone, UnderWay
<1>2. ASSUME NEW j \in Jobs, CallConnects(j) PROVE Alone'
  BY <1>2 DEF CallConnects, Alone
<1>3. CASE Send
  <2>1. clean /\ at = "send" /\ reqs = <<>> /\ answers = <<>>
    BY <1>3, QuietUnlessWaiting DEF Send, UnderWay
  <2>2. /\ at' = "sent" /\ answers' = <<>>
        /\ \/ reqs' = <<>>
           \/ reqs' = Append(<<>>, [op |-> job.op, base |-> Base(pos), off |-> off, len |-> num' * job.size])
        /\ UNCHANGED <<job, pos, off>>
    BY <1>3, <2>1 DEF Send
  <2>3. \/ reqs' = <<>>
        \/ reqs' = <<[op |-> job.op, base |-> Base(pos), off |-> off, len |-> num * job.size]>>'
    BY <2>2 DEF Base
  <2> QED BY <2>2, <2>3 DEF Alone, UnderWay
<1>4. CASE FindsReset
  BY <1>4 DEF FindsReset, Alone
<1>5. CASE SendFails
  <2>1. clean /\ at = "send" /\ reqs' = reqs /\ answers' = answers
    BY <1>5 DEF SendFails, netVars
  <2> QED BY <2>1, QuietUnlessWaiting DEF Alone, UnderWay
<1>6. CASE GetData \/ GetWritten
  <2>1. clean /\ answers # <<>> /\ reqs' = reqs /\ answers' = Tail(answers)
    BY <1>6 DEF GetData, GetWritten
  <2> QED BY <2>1, OneAnswer DEF Alone
<1>7. CASE Timeout
  BY <1>7 DEF Timeout
<1>8. CASE PlcAnswers
  <2>1. clean /\ reqs # <<>> /\ UNCHANGED <<at, job, pos, off, num>>
    BY <1>8 DEF PlcAnswers, sliceVars
  <2>2. /\ UnderWay /\ answers = <<>> /\ Tail(reqs) = <<>>
        /\ Head(reqs).op = job.op /\ Head(reqs).base = Base(pos) /\ Head(reqs).len = num * job.size
    BY <2>1, OneRequest
  <2>3. PICK kind \in {"ok", "item", "header"} :
          /\ (kind = "ok") => (Head(reqs).len > 0)
          /\ answers' = Append(answers, [kind |-> kind, op |-> Head(reqs).op, base |-> Head(reqs).base, len |-> Head(reqs).len])
    BY <1>8 DEF PlcAnswers
  <2>4. answers' = <<[kind |-> kind, op |-> job.op, base |-> Base(pos), len |-> num * job.size]>>
    BY <2>2, <2>3
  <2>5. reqs' = <<>>
    BY <1>8, <2>2 DEF PlcAnswers
  <2>6. (Base(pos))' = Base(pos)
    BY <2>1 DEF Base
  <2> QED BY <2>1, <2>2, <2>3, <2>4, <2>5, <2>6 DEF Alone, UnderWay
<1>9. CASE PlcCloses
  <2>1. clean /\ reqs' = <<>> /\ UNCHANGED <<answers, at, job, pos, off, num>>
    BY <1>9 DEF PlcCloses, sliceVars
  <2>2. (Base(pos))' = Base(pos)
    BY <2>1 DEF Base
  <2> QED BY <2>1, <2>2 DEF Alone, UnderWay
<1>10. CASE LinkFails
  BY <1>10 DEF LinkFails, Alone
<1>11. CASE Await \/ UNCHANGED vars
  <2>1. /\ UNCHANGED <<clean, reqs, answers, job, pos, off, num>>
        /\ at' = at \/ (at = "sent" /\ at' = "wait")
    BY <1>11 DEF Await, vars, netVars, sliceVars
  <2>2. (Base(pos))' = Base(pos)
    BY <2>1 DEF Base
  <2> QED BY <2>1, <2>2 DEF Alone, UnderWay
<1> QED BY <1>1, <1>2, <1>3, <1>4, <1>5, <1>6, <1>7, <1>8, <1>9, <1>10, <1>11 DEF Next

-----------------------------------------------------------------------------
(* Data is kept.                                                            *)

\* A slice within reach is where the caller means it.
LEMMA Located ==
    ASSUME Typed, Placed, InReach, at # "idle"
    PROVE  /\ job.start \in Nat /\ off \in Nat /\ job.amount * job.size \in Nat
           /\ Base(pos) = job.start + off
           /\ off < job.amount * job.size
           /\ num * job.size \in Nat
<1>1. /\ left \in Nat /\ off \in Nat /\ num \in Nat /\ pos \in Nat
      /\ job.size \in {1, 2, 4} /\ job.start \in Int /\ job.amount \in Int
  BY JobFields DEF Typed, TypeOK
<1>2. /\ job.start >= 0 /\ job.amount >= 1 /\ left > 0
      /\ off + left * job.size = job.amount * job.size
      /\ pos = job.start + off
      /\ job.start + job.amount * job.size <= AddrSpace
  BY DEF Placed, Valid, InReach
<1>3. /\ left * job.size \in Nat /\ left * job.size > 0
      /\ job.amount * job.size \in Nat /\ num * job.size \in Nat
  BY <1>1, <1>2, SizeProducts
<1>4. off < job.amount * job.size /\ pos < AddrSpace
  BY <1>1, <1>2, <1>3, S7Assumption
<1>5. Base(pos) = pos
  BY <1>1, <1>4, Remainder, S7Assumption DEF Base, InReach
<1> QED BY <1>1, <1>2, <1>3, <1>4, <1>5

LEMMA SliceMoves ==
    ASSUME Typed, Placed, InReach, at # "idle"
    PROVE  Part \cup Slice(Base(pos), off, num * job.size) = PartAndSlice
BY Located, SliceJoins DEF Part, PartAndSlice

\* A call that ends with none of the results that say what was moved.
LEMMA EndedData ==
    ASSUME at' = "idle", result' \in {"invalid", "disconnected", "lost", "send"},
           (job.op = "write")' => FirstBytes'
    PROVE  Moved'
BY DEF Moved, UnderWay

\* The parts a write is made of are first bytes.
LEMMA PartsAreFirst ==
    ASSUME Typed, Placed, InReach, at # "idle", UNCHANGED job,
           moved' = Part \/ (at # "send" /\ moved' = PartAndSlice)
    PROVE  FirstBytes'
<1>1. /\ left \in Nat /\ off \in Nat /\ num \in Nat /\ job.size \in {1, 2, 4}
      /\ job.amount \in Int /\ job.amount >= 1 /\ Valid(job) /\ left > 0
      /\ off + left * job.size = job.amount * job.size
  BY JobFields DEF Typed, TypeOK, Placed, Valid
<1>2. job.amount \in Nat /\ left <= job.amount /\ off = (job.amount - left) * job.size
  <2>1. CASE job.size = 1
    BY <1>1, <2>1
  <2>2. CASE job.size = 2
    BY <1>1, <2>2
  <2>3. CASE job.size = 4
    BY <1>1, <2>3
  <2> QED BY <1>1, <2>1, <2>2, <2>3
<1>3. CASE moved' = Part
  <2>1. job.amount - left \in 0 .. job.amount
    BY <1>1, <1>2
  <2>2. Valid(job)' /\ job' = job
    BY <1>1 DEF Valid
  <2>3. moved' = Slice(job.start, 0, (job.amount - left) * job.size)
    BY <1>2, <1>3 DEF Part
  <2> QED BY <2>1, <2>2, <2>3 DEF FirstBytes
<1>4. CASE at # "send" /\ moved' = PartAndSlice
  <2>1. num <= left
    BY <1>4 DEF Typed, Fits, TypeOK
  <2>2. job.amount - left + num \in 0 .. job.amount
    BY <1>1, <1>2, <2>1
  <2>3. off + num * job.size = (job.amount - left + num) * job.size
    <3>1. job.amount - left \in Nat
      BY <1>1, <1>2
    <3> QED BY <1>1, <1>2, <3>1, SizeProducts
  <2>4. Valid(job)' /\ job' = job
    BY <1>1 DEF Valid
  <2>5. moved' = Slice(job.start, 0, (job.amount - left + num) * job.size)
    BY <1>4, <2>3 DEF PartAndSlice
  <2> QED BY <2>2, <2>4, <2>5 DEF FirstBytes
<1> QED BY <1>3, <1>4

LEMMA NothingIsFirst ==
    ASSUME moved' = {}, job' \in Jobs
    PROVE  FirstBytes'
<1>1. job' \in Job
  BY S7Assumption
<1>2. job'.amount \in Int /\ job'.size \in {1, 2, 4} /\ job'.start \in Int
  BY <1>1 DEF Job
<1>3. 0 * job'.size = 0 /\ 0 \in 0 .. (IF Valid(job') THEN job'.amount ELSE 0)
  BY <1>2 DEF Valid
<1>4. Slice(job'.start, 0, 0) = {}
  BY DEF Slice
<1> QED BY <1>3, <1>4 DEF FirstBytes

LEMMA BeginData ==
    ASSUME NEW j \in Jobs, Begin(j)
    PROVE  Moved'
<1>1. CASE Valid(j)
  <2>1. /\ at' = "send" /\ result' = "none" /\ off' = 0 /\ first' = TRUE /\ moved' = {} /\ job' = j
    BY <1>1 DEF Begin
  <2>2. j.start \in Nat
    BY <1>1, S7Assumption DEF Valid, Job
  <2>3. Part' = {}
    BY <2>1, <2>2, SliceEmpty DEF Part
  <2> QED BY <2>1, <2>3 DEF Moved, UnderWay
<1>2. CASE ~Valid(j)
  <2>1. at' = "idle" /\ result' = "invalid" /\ moved' = {} /\ job' \in Jobs
    BY <1>2 DEF Begin, Ended
  <2> QED BY <2>1, NothingIsFirst, EndedData
<1> QED BY <1>1, <1>2

\* The slice under way is through and its bytes are moved.
LEMMA NextSliceData ==
    ASSUME Typed, Placed, InReach, at = "wait", NextSlice, UNCHANGED job,
           moved' = PartAndSlice, num * job.size > 0
    PROVE  Moved'
<1>1. /\ off' = off + num * job.size /\ left' = left - num /\ first' = FALSE
      /\ (left - num > 0) => (at' = "send" /\ result' = result)
      /\ ~(left - num > 0) => (at' = "idle" /\ result' = "ok")
  BY DEF NextSlice, NotFirst, Ended
<1>2. /\ off \in Nat /\ num * job.size \in Nat /\ job.amount * job.size \in Nat /\ result = "none"
      /\ off' > 0
  BY <1>1, Located DEF Placed
<1>3. moved' = Part'
  BY <1>1 DEF Part, PartAndSlice
<1>4. CASE left - num > 0
  BY <1>1, <1>2, <1>3, <1>4 DEF Moved, UnderWay
<1>5. CASE ~(left - num > 0)
  <2>1. num = left
    BY <1>5 DEF Typed, TypeOK, Fits
  <2>2. off + num * job.size = job.amount * job.size
    BY <2>1 DEF Placed
  <2>3. moved' = Whole'
    BY <2>2 DEF PartAndSlice, Whole
  <2>4. FirstBytes'
    BY PartsAreFirst
  <2> QED BY <1>1, <1>5, <2>3, <2>4 DEF Moved, UnderWay
<1> QED BY <1>4, <1>5

LEMMA StepData == Typed /\ Placed /\ Alone /\ Data /\ [Next]_vars => Data'
<1> SUFFICES ASSUME Typed, Placed, Alone, Data, [Next]_vars, clean', InReach' PROVE Moved'
  BY DEF Data
<1>1. ASSUME NEW j \in Jobs, Call(j) \/ CallConnects(j) PROVE Moved'
  BY <1>1, BeginData DEF Call, CallConnects
<1>2. ASSUME NEW j \in Jobs, CallRefused(j) PROVE Moved'
  BY <1>2, NothingIsFirst, EndedData DEF CallRefused, Ended
<1>3. CASE FindsReset \/ SendFails \/ Timeout
  <2>1. /\ at' = "idle" /\ result' \in {"lost", "send"} /\ clean
        /\ UNCHANGED <<job, moved>> /\ at \in {"send", "sent"}
    BY <1>3 DEF FindsReset, SendFails, Timeout, Ended, netVars
  <2>2. InReach
    BY <2>1 DEF InReach
  <2>3. job.op = "write" => moved' = Part \/ (at # "send" /\ moved' = PartAndSlice)
    BY <2>1, <2>2 DEF Data, Moved, UnderWay
  <2>4. job.op = "write" => FirstBytes'
    BY <2>1, <2>2, <2>3, PartsAreFirst
  <2> QED BY <2>1, <2>4, EndedData
<1>4. CASE Send
  <2>1. /\ at = "send" /\ at' = "sent" /\ clean /\ InReach /\ answers' = answers
        /\ UNCHANGED <<job, off, first, moved, result>>
    BY <1>4 DEF Send, InReach
  <2>2. answers = <<>> /\ result = "none"
    BY <2>1, QuietUnlessWaiting DEF Placed, UnderWay
  <2>3. moved = Part /\ (first <=> (off = 0))
    BY <2>1 DEF Data, Moved
  <2>4. Part' = Part
    BY <2>1 DEF Part
  <2> QED BY <2>1, <2>2, <2>3, <2>4 DEF Moved, UnderWay
<1>5. CASE GetData
  <2>1. /\ at = "wait" /\ clean /\ answers # <<>> /\ job.op = "read" /\ job' = job
    BY <1>5 DEF GetData
  <2>2. InReach
    BY <2>1 DEF InReach
  <2>3. CASE Head(answers).kind = "ok"
    <3>1. moved' = moved \cup Slice(Head(answers).base, off, Head(answers).len) /\ NextSlice
      BY <1>5, <2>1, <2>3, OneAnswer DEF GetData
    <3>2. moved = Part
      BY <2>1, <2>2 DEF Data, Moved, UnderWay
    <3>3. moved' = PartAndSlice /\ num * job.size > 0
      BY <2>1, <2>2, <2>3, <3>1, <3>2, OneAnswer, SliceMoves
    <3> QED BY <2>1, <2>2, <3>1, <3>3, NextSliceData
  <2>4. CASE Head(answers).kind # "ok"
    BY <1>5, <2>1, <2>4 DEF GetData, Ended, Moved, UnderWay
  <2> QED BY <2>3, <2>4
<1>6. CASE GetWritten
  <2>1. /\ at = "wait" /\ clean /\ answers # <<>> /\ job.op = "write" /\ job' = job /\ moved' = moved
    BY <1>6 DEF GetWritten
  <2>2. InReach
    BY <2>1 DEF InReach
  <2>3. /\ moved = IF Head(answers).kind = "ok" THEN PartAndSlice ELSE Part
        /\ first <=> (off = 0)
    BY <2>1, <2>2 DEF Data, Moved, UnderWay
  <2>4. CASE Head(answers).kind = "ok"
    <3>1. NextSlice
      BY <1>6, <2>4 DEF GetWritten
    <3>2. moved' = PartAndSlice /\ num * job.size > 0
      BY <2>1, <2>3, <2>4, OneAnswer
    <3> QED BY <2>1, <2>2, <3>1, <3>2, NextSliceData
  <2>5. CASE Head(answers).kind \in {"header", "item"}
    <3>1. /\ at' = "idle" /\ first' = first
          /\ result' \in (IF first THEN {"cpu"} ELSE {"cpu", "partial"})
      BY <1>6, <2>5 DEF GetWritten, Ended, sliceVars
    <3>2. moved' = Part
      BY <2>1, <2>3, <2>5
    <3>6. FirstBytes'
      BY <2>1, <2>2, <3>2, PartsAreFirst
    <3>3. /\ job.start \in Nat /\ off \in Nat /\ off < job.amount * job.size
          /\ job.amount * job.size \in Nat
      BY <2>1, <2>2, Located
    <3>4. CASE off = 0
      <4>1. Part = {}
        BY <3>3, <3>4, SliceEmpty DEF Part
      <4> QED BY <2>3, <3>1, <3>2, <3>4, <3>6, <4>1 DEF Moved, UnderWay
    <3>5. CASE off # 0
      <4>1. Part # {}
        <5>1. 0 \in Nat /\ 0 < off
          BY <3>3, <3>5
        <5>2. Slice(job.start, 0, 0) # Slice(job.start, 0, off)
          BY <3>3, <5>1, SliceGrows
        <5>3. Slice(job.start, 0, 0) = {}
          BY <3>3, SliceEmpty
        <5> QED BY <5>2, <5>3 DEF Part
      <4>2. Part # Whole
        BY <3>3, SliceGrows DEF Part, Whole
      <4>3. Whole' = Whole
        BY <2>1 DEF Whole
      <4> QED BY <2>3, <3>1, <3>2, <3>5, <3>6, <4>1, <4>2, <4>3 DEF Moved, UnderWay
    <3> QED BY <3>4, <3>5
  <2> QED BY <2>1, <2>4, <2>5, OneAnswer
<1>7. CASE PlcAnswers
  <2>1. clean /\ reqs # <<>> /\ UNCHANGED <<job, at, left, pos, off, num, first, result>>
    BY <1>7 DEF PlcAnswers, sliceVars
  <2>2. InReach
    BY <2>1 DEF InReach
  <2>3. /\ UnderWay /\ answers = <<>> /\ reqs' = <<>>
        /\ Head(reqs).op = job.op /\ Head(reqs).base = Base(pos)
        /\ Head(reqs).off = off /\ Head(reqs).len = num * job.size
    BY <1>7, <2>1, OneRequest DEF PlcAnswers
  <2>4. PICK kind \in {"ok", "item", "header"} :
          /\ answers' = Append(answers, [kind |-> kind, op |-> Head(reqs).op, base |-> Head(reqs).base, len |-> Head(reqs).len])
          /\ moved' = IF kind = "ok" /\ Head(reqs).op = "write"
                      THEN moved \cup Slice(Head(reqs).base, Head(reqs).off, Head(reqs).len) ELSE moved
    BY <1>7 DEF PlcAnswers
  <2>5. Head(answers').kind = kind
    BY <2>3, <2>4
  <2>6. moved = Part /\ (first <=> (off = 0)) /\ result = "none"
    BY <2>1, <2>2, <2>3, JobFields DEF Data, Moved, Placed, Typed, Op, UnderWay
  <2>7. Part' = Part /\ PartAndSlice' = PartAndSlice
    BY <2>1 DEF Part, PartAndSlice
  <2>8. moved' = IF kind = "ok" /\ job.op = "write" THEN PartAndSlice ELSE Part
    <3>1. moved \cup Slice(Base(pos), off, num * job.size) = PartAndSlice
      BY <2>2, <2>3, <2>6, SliceMoves DEF UnderWay
    <3> QED BY <2>3, <2>4, <2>6, <3>1
  <2> QED BY <2>1, <2>3, <2>5, <2>6, <2>7, <2>8 DEF Moved, UnderWay
<1>8. CASE Await \/ PlcCloses \/ LinkFails \/ UNCHANGED vars
  <2>1. /\ clean /\ UNCHANGED <<job, off, num, first, moved, result>>
        /\ at' = at \/ (at = "sent" /\ at' = "wait")
        /\ reqs' \in {reqs, <<>>} /\ answers' \in {answers, <<>>}
    BY <1>8 DEF Await, PlcCloses, LinkFails, vars, netVars, sliceVars
  <2>2. InReach
    BY <2>1 DEF InReach
  <2>3. Part' = Part /\ PartAndSlice' = PartAndSlice /\ Whole' = Whole
    BY <2>1 DEF Part, PartAndSlice, Whole
  <2>4. FirstBytes' = FirstBytes /\ UnderWay' = UnderWay
    BY <2>1 DEF FirstBytes, Valid, UnderWay
  <2> QED BY <2>1, <2>2, <2>3, <2>4 DEF Data, Moved
<1> QED BY <1>1, <1>2, <1>3, <1>4, <1>5, <1>6, <1>7, <1>8 DEF Next

LEMMA Invariance == Spec => []Inv
<1>1. Inv /\ [Next]_vars => Inv'
  BY StepTyped, StepPlaced, StepAlone, StepData DEF Inv
<1> QED BY <1>1, InitInv, PTL DEF Spec

-----------------------------------------------------------------------------
\* A call that succeeds has moved what it was asked to, for every size, amount
\* and PDU length (opReadArea, opWriteArea).
THEOREM CallsCopy == Spec => []Copied
<1>1. Inv => Copied
  BY DEF Inv, Data, Moved, Copied, Whole
<1> QED BY <1>1, Invariance, PTL

\* A write that ended has written the first bytes of its data and no other: none
\* if it was refused at its first slice, some and not all if later
\* (opWriteArea).
THEOREM WritesStop == Spec => []PartWritten
<1>1. Inv => PartWritten
  BY DEF Inv, Data, Moved, PartWritten, Whole
<1> QED BY <1>1, Invariance, PTL
=============================================================================
