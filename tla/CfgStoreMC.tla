---------------------------- MODULE CfgStoreMC -----------------------------
(* Instances of CfgStore for TLC. *)
EXTENDS CfgStore, TLC

CONSTANTS v1, v2, v3

Sym == Permutations(Conf)

=============================================================================
