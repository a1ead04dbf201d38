----------------------------- MODULE KafkaRing -----------------------------
(***************************************************************************)
(* The ring buffer of the Kafka producer, lualib/kafka/ringbuffer.lua.     *)
(*                                                                         *)
(* An entry is a topic, a key and a message in three consecutive cells of  *)
(* a Lua table; the three are one value here, at the first of its cells,   *)
(* but head, tail and num count cells as the code does.  head and tail     *)
(* start at 1 and wrap to it.                                              *)
(***************************************************************************)
EXTENDS Integers, Sequences

CONSTANTS Entry,     \* what is queued
          Nil,       \* Lua's nil, in a cell never written
          MaxNum     \* max_num, in entries

ASSUME MaxNumAssumption == MaxNum \in Nat \ {0}

VARIABLES queue,     \* cells
          head,      \* the next cell to read
          tail,      \* the next cell to write
          num        \* cells in use

ringVars == <<queue, head, tail, num>>

s == 3               \* cells of an entry

Cells == s * MaxNum

\* Cells in which an entry may start.
Starts == {1 + s * i : i \in 0 .. MaxNum - 1}

RingTypeOK ==
    /\ queue \in [Starts -> Entry \cup {Nil}]
    /\ head \in Starts
    /\ tail \in Starts
    /\ num \in {s * i : i \in 0 .. MaxNum}

RingInit ==
    /\ queue = [c \in Starts |-> Nil]
    /\ head = 1
    /\ tail = 1
    /\ num = 0

\* The cell after the entry at cell c.
After(c) == (c + s) % Cells

\* Wrong: one entry too many is taken in.
FullLate == num > Cells
Full == num = Cells
Empty == num = 0

\* rb:add, when there is room
Add(e) ==
    /\ ~ Full
    /\ queue' = [queue EXCEPT ![tail] = e]
    /\ num' = num + s
    /\ tail' = After(tail)
    /\ UNCHANGED head

\* rb:pop, when there is an entry; what it returns is queue[head]
Pop ==
    /\ ~ Empty
    /\ num' = num - s
    /\ head' = After(head)
    /\ UNCHANGED <<queue, tail>>

RingNext == Pop \/ \E e \in Entry : Add(e)

RingSpec == RingInit /\ [][RingNext]_ringVars

-----------------------------------------------------------------------------
\* The cell of the i-th entry from the head.
Nth(i) == LET c == head + s * (i - 1)
          IN IF c < Cells THEN c ELSE c - Cells

\* The entries that are queued, oldest first.
Content == [i \in 1 .. num \div s |-> queue[Nth(i)]]

Fifo == INSTANCE BoundedFifo WITH Capacity <- MaxNum, fifo <- Content

\* The ring is a bounded queue: nothing is overwritten or read twice where
\* head and tail wrap, and full and empty are told apart (ringbuffer.lua).
FifoSpec == Fifo!Spec
=============================================================================
