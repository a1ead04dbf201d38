------------------------------ MODULE AppMgrMC ------------------------------
(* Instances of AppMgr for TLC. *)
EXTENDS AppMgr, TLC

CONSTANTS c1, c2, ws, t1, t2, f1, f2

Sym == Permutations(Client)

P(st, s) == [st |-> st, apps |-> s]
Ask(s, auto) == [apps |-> s, auto |-> auto]
OneApp(a) == [NoApps EXCEPT ![1] = a]
T1 == [tpl |-> t1, conf |-> f1]
T2 == [tpl |-> t2, conf |-> f1]

\* PIPEs of two APPs, through the permanent one, and with an APP listed twice.
SmallPipes == {Ask(<<1, 2>>, TRUE), Ask(<<2, ws>>, FALSE)}
AllPipes == SmallPipes \cup {Ask(<<1, 1>>, TRUE), Ask(<<1, 2, 1>>, FALSE)}
OnePipe == {Ask(<<1, 2>>, TRUE)}

FullBoth == [kind |-> "full", repo |-> FALSE, apps |-> [i \in AppId |-> T1],
             pipes |-> [NoPipes EXCEPT ![1] = P("started", <<1, 2>>)]]
FullOne == [kind |-> "full", repo |-> TRUE, apps |-> OneApp(T2),
            pipes |-> [NoPipes EXCEPT ![1] = P("stopped", <<1, ws>>)]]
Apps1 == [kind |-> "apps", repo |-> FALSE, apps |-> OneApp([tpl |-> t1, conf |-> f2]),
          pipes |-> NoPipes]
RepoOnly == [kind |-> "repo", repo |-> TRUE, apps |-> NoApps, pipes |-> NoPipes]

FaultyArgs == {[FullBoth EXCEPT !.repo = TRUE, !.pipes[1].st = "stopped"],
               [kind |-> "apps", repo |-> FALSE, apps |-> OneApp(T1), pipes |-> NoPipes]}
NoArgs == {}
Working == {FullBoth, FullOne, Apps1}
RacingArgs == {[FullBoth EXCEPT !.repo = TRUE], FullOne, Apps1}
RepoArgs == {RepoOnly}

=============================================================================
