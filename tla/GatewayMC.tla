------------------------------ MODULE GatewayMC -----------------------------
(* Instances of Gateway for TLC: a1 and a2 run the same APP one after the   *)
(* other, b1 another one.                                                   *)
EXTENDS Gateway, TLC

CONSTANTS a1, a2, b1, n1, n2, s1, c1, k1, k2

Names == [x \in Cell |-> IF x = b1 THEN n2 ELSE n1]
Asks == {<<s1, n1>>, Help, Own} \X {c1}

=============================================================================
