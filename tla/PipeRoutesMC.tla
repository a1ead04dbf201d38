---------------------------- MODULE PipeRoutesMC ----------------------------
(* Instances of PipeRoutes for TLC. *)
EXTENDS PipeRoutes, TLC

CONSTANTS p1, p2, h1, h2, h3, ws

Sym == Permutations(PipeId) \cup Permutations(Cell)

\* PIPEs that share an entry, that run through the same cells in opposite
\* orders from different sources, that start at, pass or end in a permanent
\* APP, and that list an APP twice.
AllLists ==
    {<<1, 2>>, <<1, ws>>, <<ws, 2>>, <<1, 2, ws>>, <<2, 1, ws>>, <<1, ws, 2>>,
     <<1, 1, 2>>, <<1, 2, 1, 2>>}

=============================================================================
