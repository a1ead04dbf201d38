-------------------------------- MODULE S7MC --------------------------------
(* Instances of S7 for TLC: calls of several slices, one of too many        *)
(* elements, invalid ones.                                                  *)
EXTENDS S7, TLC

Call1(op, size, counted, start, amount) ==
    [op |-> op, size |-> size, bit |-> FALSE, counted |-> counted, start |-> start, amount |-> amount]

SomeJobs == {
    Call1("read", 1, FALSE, 1, 5), Call1("read", 2, FALSE, 0, 3), Call1("read", 1, FALSE, 0, 9),
    Call1("read", 2, TRUE, 1, 3), Call1("read", 4, FALSE, 14, 1),
    Call1("write", 1, FALSE, 2, 3), Call1("write", 2, FALSE, 1, 2), Call1("write", 1, FALSE, 0, 8),
    Call1("read", 1, FALSE, 0, 0),
    [Call1("write", 1, FALSE, 0, 2) EXCEPT !.bit = TRUE]}

Overheads == "read" :> 1 @@ "write" :> 2
=============================================================================
