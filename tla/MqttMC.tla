------------------------------- MODULE MqttMC -------------------------------
(* Instances of Mqtt for TLC: a message of the gateway and the answer to a  *)
(* request, with different QoS.                                             *)
EXTENDS Mqtt, TLC

CONSTANTS m1, m2, a1, r1

MsgQos == m1 :> 1 @@ a1 :> 2
MsgQos2 == m1 :> 1 @@ m2 :> 1
ReplyToReq == r1 :> a1
=============================================================================
