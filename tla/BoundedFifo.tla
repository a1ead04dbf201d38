---------------------------- MODULE BoundedFifo ----------------------------
(***************************************************************************)
(* What a user of the Kafka ring buffer may rely on: a queue of at most    *)
(* Capacity entries that come out in the order they went in.               *)
(***************************************************************************)
EXTENDS Naturals, Sequences

CONSTANTS Entry, Capacity

VARIABLE fifo

Init == fifo = <<>>

\* An entry is taken in while there is room.
Put(e) == /\ Len(fifo) < Capacity
          /\ fifo' = Append(fifo, e)

\* The oldest entry leaves.
Get == /\ fifo # <<>>
       /\ fifo' = Tail(fifo)

Next == Get \/ \E e \in Entry : Put(e)

Spec == Init /\ [][Next]_fifo
=============================================================================
