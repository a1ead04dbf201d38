------------------------------ MODULE ModbusMC ------------------------------
(* Instances of Modbus for TLC: two polls that pass each other's checks, a  *)
(* client that reads something else.                                        *)
EXTENDS Modbus, TLC

CONSTANTS k1, k2

Kinds == 0 :> k2 @@ 1 :> k1 @@ 2 :> k1
=============================================================================
