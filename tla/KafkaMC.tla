------------------------------- MODULE KafkaMC ------------------------------
(* An instance of KafkaProducer for TLC: two partitions and two brokers;    *)
(* metadata gives both partitions to one broker, one to each, or has no     *)
(* leader for one of them.                                                  *)
EXTENDS KafkaProducer, TLC

CONSTANTS b1, b2

Messages4 == 1 .. 4
Leaders == {0 :> b1 @@ 1 :> b1, 0 :> b1 @@ 1 :> b2, 0 :> NoBroker @@ 1 :> b2}
=============================================================================
