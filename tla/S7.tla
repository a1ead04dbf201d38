--------------------------------- MODULE S7 ---------------------------------
(***************************************************************************)
(* Reading and writing a PLC: app/daq_s7_v_1_0_0 over lualib/s7/client,    *)
(* lualib-src/lua-snap7.cpp and the vendored snap7.                        *)
(*                                                                         *)
(* A call connects once where it finds no connection.  snap7 then moves    *)
(* the data in slices that fit a PDU, one request and answer at a time,    *)
(* and blocks the service meanwhile, so that calls are serial; the PLC and *)
(* the network are not, and the PLC need not answer.  An answer is not     *)
(* compared with its request: one that comes after the receive timeout is  *)
(* taken for that of the next.                                             *)
(*                                                                         *)
(* The data are pairs: which byte of the PLC went with which byte of the   *)
(* caller's buffer.  A byte of a counter or timer area is its element      *)
(* times the element's size.                                               *)
(*                                                                         *)
(* External: the PLC, which refuses a request for no elements, refuses a   *)
(* read at its item, and answers with as many bytes as were asked for.     *)
(* Left out: the command info, and connect with its waiting coroutines,    *)
(* which no APP calls.                                                     *)
(***************************************************************************)
EXTENDS Integers, Sequences, FiniteSets

CONSTANTS
    Jobs,       \* the calls
    Pdus,       \* PDU lengths a PLC agrees to
    Overhead,   \* bytes of a PDU that are not data, per operation
    WordSpace,  \* values of a 16 bit word
    AddrSpace,  \* bytes an address reaches, 2^21 in the code
    MaxLate     \* bound: no call begins with more requests and answers under way

Op == {"read", "write"}

Job == [op : Op, size : {1, 2, 4}, bit : BOOLEAN, counted : BOOLEAN, start : Int, amount : Int]

ASSUME S7Assumption ==
    /\ Jobs \subseteq Job
    /\ Overhead \in [Op -> Nat]
    /\ Pdus \subseteq Nat /\ \A d \in Pdus : \A o \in Op : d >= Overhead[o]
    /\ WordSpace \in Nat \ {0} /\ AddrSpace \in Nat \ {0} /\ MaxLate \in Nat

VARIABLES
    connected,  \* what the client takes for a connection
    link,       \* what it is: "none", "up", "closed" by the PLC, "failed"
    pdu,        \* PDULength
    clean,      \* no request of this connection has timed out
    reqs,       \* requests on their way to the PLC
    answers,    \* answers on their way back
    job,        \* the last call
    at,         \* "idle", "send", "sent" (WaitForData has not looked yet), "wait"
    left,       \* TotElements
    pos,        \* Start of the next slice
    off,        \* Offset into the caller's buffer
    num,        \* NumElements of the slice under way
    first,      \* First
    moved,      \* pairs of PLC byte and buffer byte
    result      \* of the last call

netVars == <<link, pdu, clean, reqs, answers>>
sliceVars == <<left, pos, off, num, first>>
vars == <<connected, netVars, job, at, sliceVars, moved, result>>

Request == [op : Op, base : Nat, off : Nat, len : Nat]
Reply == [kind : {"ok", "item", "header"}, op : Op, base : Nat, len : Nat]
Results == {"none", "ok", "disconnected", "invalid", "cpu", "partial", "timeout", "lost", "send"}

TypeOK ==
    /\ connected \in BOOLEAN
    /\ link \in {"none", "up", "closed", "failed"}
    /\ pdu \in Pdus
    /\ clean \in BOOLEAN
    /\ reqs \in Seq(Request) /\ answers \in Seq(Reply)
    /\ job \in Jobs
    /\ at \in {"idle", "send", "sent", "wait"}
    /\ left \in Nat /\ pos \in Nat /\ off \in Nat /\ num \in Nat
    /\ first \in BOOLEAN
    /\ moved \subseteq Nat \X Nat
    /\ result \in Results
    /\ connected = (link # "none")
    /\ link \in {"none", "failed"} => /\ reqs = <<>>
                                      /\ answers = <<>>

\* client.new connects at once, whatever comes of it.
Init ==
    /\ connected \in BOOLEAN
    /\ link = (IF connected THEN "up" ELSE "none")
    /\ pdu \in Pdus /\ clean = TRUE /\ reqs = <<>> /\ answers = <<>>
    /\ job \in Jobs /\ at = "idle"
    /\ left = 0 /\ pos = 0 /\ off = 0 /\ num = 0 /\ first = TRUE
    /\ moved = {} /\ result = "none"

-----------------------------------------------------------------------------
(* Slices.                                                                  *)

Valid(j) == j.start >= 0 /\ j.amount >= 1 /\ ~(j.bit /\ j.amount > 1)

MaxElements == (pdu - Overhead[job.op]) \div job.size

\* Wrong: every slice is a full one.
NumElementsFull == MaxElements

\* NumElements is a word, and TotElements is cut to it before the comparison.
NumElements ==
    LET n == left % WordSpace IN IF n > MaxElements THEN MaxElements ELSE n

\* The first byte of the area that a slice at p names.
Base(p) == (IF job.counted THEN p * job.size ELSE p) % AddrSpace

Slice(base, o, len) == {<<base + i - 1, o + i>> : i \in 1 .. len}

Ended(r) == at' = "idle" /\ result' = r

\* Wrong: the next slice starts after as many bytes as this one has elements.
StepElements == num

\* By how much Start grows.
Step == num * job.size

\* Wrong: every slice counts as the first.
StillFirst == TRUE

\* First after a slice.
NotFirst == FALSE

\* The slice is through: go on with the next one, if any.
NextSlice ==
    /\ left' = left - num
    /\ pos' = pos + Step
    /\ off' = off + num * job.size
    /\ first' = NotFirst
    /\ IF left - num > 0 THEN at' = "send" /\ UNCHANGED result ELSE Ended("ok")
    /\ UNCHANGED num

-----------------------------------------------------------------------------
(* The client.                                                              *)

Begin(j) ==
    /\ job' = j
    /\ moved' = {}
    /\ IF Valid(j)
       THEN /\ at' = "send" /\ result' = "none"
            /\ left' = j.amount /\ pos' = j.start /\ off' = 0 /\ num' = 0 /\ first' = TRUE
       ELSE Ended("invalid") /\ UNCHANGED sliceVars

\* A call that finds a connection, or thinks so.
Call(j) ==
    /\ at = "idle" /\ connected
    /\ Len(reqs) + Len(answers) <= MaxLate
    /\ Begin(j)
    /\ UNCHANGED <<connected, netVars>>

\* A call that finds none and connects.
CallConnects(j) ==
    /\ at = "idle" /\ ~connected
    /\ connected' = TRUE /\ link' = "up" /\ pdu' \in Pdus /\ clean' = TRUE
    /\ reqs' = <<>> /\ answers' = <<>>
    /\ Begin(j)

CallRefused(j) ==
    /\ at = "idle" /\ ~connected
    /\ job' = j /\ moved' = {}
    /\ Ended("disconnected")
    /\ UNCHANGED <<connected, netVars, sliceVars>>

\* A request is sent; a connection that the PLC has closed takes it, too.
Send ==
    /\ at = "send"
    /\ link \in {"up", "closed"}
    /\ num' = NumElements
    /\ reqs' = IF link = "up"
               THEN Append(reqs, [op |-> job.op, base |-> Base(pos), off |-> off, len |-> num' * job.size])
               ELSE reqs
    /\ at' = "sent"
    /\ UNCHANGED <<connected, link, pdu, clean, answers, job, left, pos, off, first, moved, result>>

\* The connection counts as there, whatever send returns.
SendFails ==
    /\ at = "send" /\ link = "failed"
    /\ Ended("send")
    /\ UNCHANGED <<connected, netVars, job, sliceVars, moved>>

\* WaitForData looks once whether the connection is closed or reset with
\* nothing to read, and only then waits: what happens later it does not see.
Await ==
    /\ at = "sent"
    /\ link = "up" \/ answers # <<>>
    /\ at' = "wait"
    /\ UNCHANGED <<connected, netVars, job, sliceVars, moved, result>>

FindsReset ==
    /\ at = "sent" /\ link # "up" /\ answers = <<>>
    /\ connected' = FALSE /\ link' = "none" /\ reqs' = <<>>
    /\ Ended("lost")
    /\ UNCHANGED <<pdu, clean, answers, job, sliceVars, moved>>

\* An answer to a read; an answer of the PLC is taken whatever it answers.
\* That to a write has nothing that means anything to a read.
GetData ==
    LET a == Head(answers) IN
    /\ at = "wait" /\ answers # <<>> /\ job.op = "read"
    /\ answers' = Tail(answers)
    /\ \/ /\ a.kind = "ok"
          /\ moved' = IF a.op = "read" THEN moved \cup Slice(a.base, off, a.len) ELSE moved
          /\ NextSlice
       \/ /\ a.kind # "ok"
          /\ Ended("cpu")
          /\ UNCHANGED <<sliceVars, moved>>
    /\ UNCHANGED <<connected, link, pdu, clean, reqs, job>>

\* An answer to a write.  Of an item refused after the first the caller learns
\* that some data were written; of a request refused in its header it does not.
GetWritten ==
    LET a == Head(answers) IN
    /\ at = "wait" /\ answers # <<>> /\ job.op = "write"
    /\ answers' = Tail(answers)
    /\ \/ a.kind = "ok" /\ NextSlice
       \/ a.kind = "header" /\ Ended("cpu") /\ UNCHANGED sliceVars
       \/ a.kind = "item" /\ Ended(IF first THEN "cpu" ELSE "partial") /\ UNCHANGED sliceVars
    /\ UNCHANGED <<connected, link, pdu, clean, reqs, job, moved>>

\* Wrong: never gives up.
WaitForever == FALSE /\ UNCHANGED vars

\* The receive timeout: the call ends, the connection stays.
Timeout ==
    /\ at = "wait" /\ answers = <<>>
    /\ clean' = FALSE
    /\ Ended("timeout")
    /\ UNCHANGED <<connected, link, pdu, reqs, answers, job, sliceVars, moved>>

-----------------------------------------------------------------------------
(* The PLC and the network.                                                 *)

PlcAnswers ==
    LET r == Head(reqs) IN
    /\ link = "up" /\ reqs # <<>>
    /\ reqs' = Tail(reqs)
    /\ \E kind \in {"ok", "item", "header"} :
        /\ (kind = "ok") => (r.len > 0)
        /\ (kind = "header") => (r.op = "write")
        /\ answers' = Append(answers, [kind |-> kind, op |-> r.op, base |-> r.base, len |-> r.len])
        /\ moved' = IF kind = "ok" /\ r.op = "write" THEN moved \cup Slice(r.base, r.off, r.len) ELSE moved
    /\ UNCHANGED <<connected, link, pdu, clean, job, at, sliceVars, result>>

\* The PLC closes the connection; what it has sent can still be read.
PlcCloses ==
    /\ link = "up"
    /\ link' = "closed" /\ reqs' = <<>>
    /\ UNCHANGED <<connected, pdu, clean, answers, job, at, sliceVars, moved, result>>

\* A reset, as from a PLC that was restarted, or no acknowledgement for long.
LinkFails ==
    /\ link \in {"up", "closed"}
    /\ link' = "failed" /\ reqs' = <<>> /\ answers' = <<>>
    /\ UNCHANGED <<connected, pdu, clean, job, at, sliceVars, moved, result>>

-----------------------------------------------------------------------------
Next ==
    \/ \E j \in Jobs : Call(j) \/ CallConnects(j) \/ CallRefused(j)
    \/ Send \/ SendFails \/ Await \/ FindsReset
    \/ GetData \/ GetWritten \/ Timeout
    \/ PlcAnswers \/ PlcCloses \/ LinkFails

Spec == Init /\ [][Next]_vars

\* The service runs; the PLC need not answer, nor the connection last.
FairSpec ==
    /\ Spec
    /\ WF_vars(Send \/ SendFails) /\ WF_vars(Await \/ FindsReset)
    /\ WF_vars(GetData \/ GetWritten) /\ WF_vars(Timeout)

\* The APP goes on calling, and the PLC can be reached and answers.
CallingSpec ==
    /\ FairSpec /\ WF_vars(PlcAnswers)
    /\ WF_vars(\E j \in Jobs : Call(j)) /\ WF_vars(\E j \in Jobs : CallConnects(j))

-----------------------------------------------------------------------------
\* Counters and timers are numbered by element, but Start grows by bytes.
InReach == ~job.counted /\ job.start + job.amount * job.size <= AddrSpace

(* What a call that succeeds has moved is what it was asked to, every byte  *)
(* to its place, however it was sliced and whatever lengths were agreed to, *)
(* on a connection on which no request has timed out.                       *)
Copied ==
    (result = "ok" /\ clean /\ InReach) => moved = Slice(job.start, 0, job.amount * job.size)

\* As many elements as some number, in their places.
FirstBytes ==
    \E n \in 0 .. (IF Valid(job) THEN job.amount ELSE 0) : moved = Slice(job.start, 0, n * job.size)

(* What a write that ended has written are the first slices of the data and *)
(* no other byte.  One refused at its first slice has written nothing; one  *)
(* refused later something, and not all.  (By the result alone a caller     *)
(* cannot tell: a request refused in its header is "cpu" at any slice.)     *)
PartWritten ==
    (clean /\ at = "idle" /\ job.op = "write" /\ InReach /\ result # "none") =>
        /\ FirstBytes
        /\ result = "cpu" /\ first => moved = {}
        /\ result = "partial" \/ (result = "cpu" /\ ~first) =>
               moved \notin {{}, Slice(job.start, 0, job.amount * job.size)}

(* A call ends, whatever the PLC and the network do.                        *)
Ends == (at # "idle") ~> (at = "idle")

(* "s7: try to reconnect": a connection that has failed is made anew by     *)
(* later calls.                                                             *)
Reconnects == (link = "failed") ~> (link # "failed")
=============================================================================
