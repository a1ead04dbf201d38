------------------------------ MODULE PipeGraph ------------------------------
(***************************************************************************)
(* What the application manager promises about APPs and PIPEs, with no     *)
(* reservation, route table, lock, cell or coroutine: a PIPE links APPs    *)
(* that are there, an APP a PIPE uses is not removed, a PIPE is removed    *)
(* only when stopped -- except that maintenance may forget all PIPEs.      *)
(***************************************************************************)
EXTENDS Naturals, Sequences

CONSTANTS AppId, PipeId, SysApps

VARIABLES apps, pipes

Elem == AppId \cup SysApps
Pipe == [st : {"none", "stopped", "started"}, apps : Seq(Elem)]
NoPipe == [st |-> "none", apps |-> <<>>]
Uses(k, i) == \E n \in 1..Len(pipes[k].apps) : pipes[k].apps[n] = i

Init == apps = {} /\ pipes = [k \in PipeId |-> NoPipe]

AddApp(i) == i \notin apps /\ apps' = apps \cup {i} /\ UNCHANGED pipes

RemoveApp(i) ==
    /\ i \in apps
    /\ \A k \in PipeId : ~Uses(k, i)
    /\ apps' = apps \ {i}
    /\ UNCHANGED pipes

AddPipe(k) ==
    /\ pipes[k] = NoPipe
    /\ pipes'[k] \in Pipe /\ pipes'[k].st # "none"
    /\ \A n \in 1..Len(pipes'[k].apps) : pipes'[k].apps[n] \in apps \cup SysApps
    /\ pipes' = [pipes EXCEPT ![k] = pipes'[k]]
    /\ UNCHANGED apps

SwitchPipe(k) ==
    /\ pipes[k].st # "none"
    /\ \E st \in {"stopped", "started"} : pipes' = [pipes EXCEPT ![k].st = st]
    /\ UNCHANGED apps

RemovePipe(k) ==
    /\ pipes[k].st = "stopped"
    /\ pipes' = [pipes EXCEPT ![k] = NoPipe]
    /\ UNCHANGED apps

ForgetPipes == pipes' = [k \in PipeId |-> NoPipe] /\ UNCHANGED apps

Crash == apps' = {} /\ pipes' = [k \in PipeId |-> NoPipe]

Next ==
    \/ \E i \in AppId : AddApp(i) \/ RemoveApp(i)
    \/ \E k \in PipeId : AddPipe(k) \/ SwitchPipe(k) \/ RemovePipe(k)
    \/ ForgetPipes
    \/ Crash

Spec == Init /\ [][Next]_<<apps, pipes>>

=============================================================================
