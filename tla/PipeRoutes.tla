----------------------------- MODULE PipeRoutes -----------------------------
(***************************************************************************)
(* How a PIPE becomes a flow of data: start_pipe and stop_pipe of          *)
(* service/appmgr.lua send route_add and route_del messages; each cell     *)
(* (service/appcell.lua, lualib/api.lua) counts them in its r_table, and   *)
(* posts and forwards data along it.  The permanent APPs                   *)
(* (service/gateway_ws.lua, service/gateway_mqtt_tb.lua) get the messages  *)
(* as well, but have no r_table: data that comes to them goes no further.  *)
(*                                                                         *)
(* appmgr does not wait for the cells: its messages lie in their mailboxes *)
(* while it goes on.  A PIPE is a sequence of APPs, the first is the       *)
(* source its data is known by.  That its APPs are loaded, and that its    *)
(* entries lead to their cells, is what AppMgr shows; data on its way is   *)
(* not part of the state, the paths it would take are.                     *)
(***************************************************************************)
EXTENDS Naturals, Sequences, FiniteSets, SequencesExt

CONSTANTS
    App,       \* ids of APPs
    SysApp,    \* permanent APPs
    Cell,      \* cells of APPs, each launched once; the others are their own
    PipeId,
    Lists,     \* the lists of APPs clients make PIPEs of
    NoCell,
    MaxSent    \* bound: no PIPE changes with more messages in a mailbox

Elem == App \cup SysApp
Addr == Cell \cup SysApp

ASSUME ListAssumption == \A s \in Lists : s \in Seq(Elem) /\ Len(s) > 1
ASSUME CellAssumption == Cell \cap SysApp = {} /\ App \cap SysApp = {} /\ NoCell \notin Addr
ASSUME SentAssumption == MaxSent \in Nat

NoPipe == [st |-> "none", apps |-> <<>>]
Link == Elem \X Addr   \* the source and the target of an entry
NoLinks == [l \in Link |-> 0]

VARIABLES
    pipes,     \* pipelist
    addr,      \* the cell of an APP
    used,      \* cells launched so far
    mailbox,   \* messages on their way to a cell
    r_table,   \* the counts of a cell; permanent APPs have none
    cleaned    \* clean ran: it also stops PIPEs that are stopped

vars == <<pipes, addr, used, mailbox, r_table, cleaned>>

-----------------------------------------------------------------------------
AddrOf(e) == IF e \in SysApp THEN e ELSE addr[e]
Running == {AddrOf(e) : e \in Elem} \ {NoCell}
HasPipe(k) == pipes[k].st # "none"
Source(k) == pipes[k].apps[1]
Quiet == \A a \in Addr : Len(mailbox[a]) <= MaxSent

\* route[k] of APP e: load_pipe assigns it at every place e has in the PIPE;
\* the last place counts, and the last APP has no target.
\* Wrong: the first place counts.
FirstPlace(s, e) == CHOOSE i \in 1..Len(s) : s[i] = e /\ \A j \in 1..(i - 1) : s[j] # e
LastPlace(s, e) == CHOOSE i \in 1..Len(s) : s[i] = e /\ \A j \in (i + 1)..Len(s) : s[j] # e
\* Wrong: the target is the PIPE's last APP.
TargetLast(s, e) == IF LastPlace(s, e) = Len(s) THEN NoCell ELSE AddrOf(s[Len(s)])
Target(s, e) == IF LastPlace(s, e) = Len(s) THEN NoCell ELSE AddrOf(s[LastPlace(s, e) + 1])

\* The messages start_pipe and stop_pipe send for PIPE k: one for each place
\* whose APP has a target, in the order of the places.
\* Wrong: one for each APP.
PlacesOnce(s, a) == {i \in 1..Len(s) : /\ Target(s, s[i]) # NoCell
                                       /\ AddrOf(s[i]) = a
                                       /\ i = LastPlace(s, s[i])}
Places(s, a) == {i \in 1..Len(s) : Target(s, s[i]) # NoCell /\ AddrOf(s[i]) = a}
Messages(op, s, a) ==
    [n \in 1..Cardinality(Places(s, a)) |->
        [op |-> op, source |-> s[1], target |-> Target(s, CHOOSE e \in Elem : AddrOf(e) = a)]]
SendAll(op, s) == mailbox' = [a \in Addr |-> mailbox[a] \o Messages(op, s, a)]

-----------------------------------------------------------------------------
(* appmgr *)

AppNew(i) ==
    /\ addr[i] = NoCell
    /\ \E c \in Cell \ used :
           addr' = [addr EXCEPT ![i] = c] /\ used' = used \cup {c}
    /\ UNCHANGED <<pipes, mailbox, r_table, cleaned>>

\* app_remove: the APP is in no PIPE; its cell gets "exit" last.
Free(i) == \A k \in PipeId : i \notin ToSet(pipes[k].apps)
AppRemove(i) ==
    /\ addr[i] # NoCell
    /\ Free(i)
    /\ addr' = [addr EXCEPT ![i] = NoCell]
    /\ mailbox' = [mailbox EXCEPT ![addr[i]] = <<>>]
    /\ r_table' = [r_table EXCEPT ![addr[i]] = NoLinks]
    /\ UNCHANGED <<pipes, used, cleaned>>

\* pipe_new, the PIPE started at once or not.
PipeNew(k, s, auto) ==
    /\ Quiet
    /\ ~HasPipe(k)
    /\ \A e \in ToSet(s) : AddrOf(e) # NoCell
    /\ pipes' = [pipes EXCEPT ![k] = [st |-> IF auto THEN "started" ELSE "stopped", apps |-> s]]
    /\ IF auto THEN SendAll("route_add", s) ELSE UNCHANGED mailbox
    /\ UNCHANGED <<addr, used, r_table, cleaned>>

PipeStart(k) ==
    /\ Quiet
    /\ pipes[k].st = "stopped"
    /\ pipes' = [pipes EXCEPT ![k].st = "started"]
    /\ SendAll("route_add", pipes[k].apps)
    /\ UNCHANGED <<addr, used, r_table, cleaned>>

Stoppable(k) == pipes[k].st = "started"
PipeStop(k) ==
    /\ Quiet
    /\ Stoppable(k)
    /\ pipes' = [pipes EXCEPT ![k].st = "stopped"]
    /\ SendAll("route_del", pipes[k].apps)
    /\ UNCHANGED <<addr, used, r_table, cleaned>>

PipeRemove(k) ==
    /\ pipes[k].st = "stopped"
    /\ pipes' = [pipes EXCEPT ![k] = NoPipe]
    /\ UNCHANGED <<addr, used, mailbox, r_table, cleaned>>

\* The mailbox of a once the PIPEs of order are stopped, one after the other.
Stops(order, a) ==
    LET box[n \in 0..Len(order)] ==
            IF n = 0 THEN mailbox[a]
            ELSE box[n - 1] \o Messages("route_del", pipes[order[n]].apps, a)
    IN  box

\* clean: stop_pipe of every PIPE, running or not, in any order; then all are
\* forgotten (and AppRemove removes the APPs).
Clean ==
    /\ Quiet
    /\ \E k \in PipeId : HasPipe(k)
    /\ \E order \in SetToSeqs({k \in PipeId : HasPipe(k)}) :
           mailbox' = [a \in Addr |-> Stops(order, a)[Len(order)]]
    /\ pipes' = [k \in PipeId |-> NoPipe]
    /\ cleaned' = TRUE
    /\ UNCHANGED <<addr, used, r_table>>

-----------------------------------------------------------------------------
(* Cells *)

\* route_add and route_del of api.lua: a count of 1 that is taken back leaves
\* no entry; taking back what is not there raises and leaves the table alone.
\* Wrong: the last count stays.
DropKeepsOne(t, l) == IF t[l] <= 1 THEN t ELSE [t EXCEPT ![l] = @ - 1]
Drop(t, l) == IF t[l] = 0 THEN t ELSE [t EXCEPT ![l] = @ - 1]
Add(t, l) == [t EXCEPT ![l] = @ + 1]
Apply(t, m) == IF m.op = "route_add" THEN Add(t, <<m.source, m.target>>)
               ELSE Drop(t, <<m.source, m.target>>)

Receive(c) ==
    /\ mailbox[c] # <<>>
    /\ r_table' = [r_table EXCEPT ![c] = Apply(@, Head(mailbox[c]))]
    /\ mailbox' = [mailbox EXCEPT ![c] = Tail(@)]
    /\ UNCHANGED <<pipes, addr, used, cleaned>>

\* A permanent APP has no command of these names.
Ignore(a) ==
    /\ mailbox[a] # <<>>
    /\ mailbox' = [mailbox EXCEPT ![a] = Tail(@)]
    /\ UNCHANGED <<pipes, addr, used, r_table, cleaned>>

-----------------------------------------------------------------------------
Init ==
    /\ pipes = [k \in PipeId |-> NoPipe]
    /\ addr = [i \in App |-> NoCell]
    /\ used = {}
    /\ mailbox = [a \in Addr |-> <<>>]
    /\ r_table = [c \in Cell |-> NoLinks]
    /\ cleaned = FALSE

Next ==
    \/ \E i \in App : AppNew(i) \/ AppRemove(i)
    \/ \E k \in PipeId : \/ \E s \in Lists, auto \in BOOLEAN : PipeNew(k, s, auto)
                         \/ PipeStart(k) \/ PipeStop(k) \/ PipeRemove(k)
    \/ Clean
    \/ \E c \in Cell : Receive(c)
    \/ \E a \in SysApp : Ignore(a)

Spec == Init /\ [][Next]_vars

-----------------------------------------------------------------------------
(* Properties *)

\* Types: a count never goes below none, not even when clean stops a PIPE
\* that is stopped.
Message == [op : {"route_add", "route_del"}, source : Elem, target : Addr]
Table == [Link -> Nat]
TypeOK ==
    /\ pipes \in [PipeId -> {NoPipe} \cup [st : {"stopped", "started"}, apps : Seq(Elem)]]
    /\ addr \in [App -> Cell \cup {NoCell}]
    /\ used \subseteq Cell
    /\ mailbox \in [Addr -> Seq(Message)]
    /\ r_table \in [Cell -> Table]
    /\ cleaned \in BOOLEAN

\* What the table t is after the first n messages of box, and what the table of
\* a cell will be when its mailbox is worked off.
Worked(t, box) ==
    LET f[n \in 0..Len(box)] == IF n = 0 THEN t ELSE Apply(f[n - 1], box[n])
    IN  f
Settled(a) == Worked(r_table[a], mailbox[a])[Len(mailbox[a])]

\* The places of running PIPEs that make the cell of e send what comes from the
\* source of l to the target of l: each is one start to be counted.
Occurs(s, e) == {i \in 1..Len(s) : s[i] = e}
Links(s, e, l) == e \in ToSet(s) /\ s[1] = l[1] /\ Target(s, e) = l[2]
Feeding(e, l) == {k \in PipeId : pipes[k].st = "started" /\ Links(pipes[k].apps, e, l)}
Starts(e, l) == UNION {{k} \X Occurs(pipes[k].apps, e) : k \in Feeding(e, l)}

\* Every start is matched by one stop: once a cell has worked its mailbox it
\* has exactly the entries of the running PIPEs, however often PIPEs that
\* share an entry were started, stopped, removed or cleaned before.
Counted == \A e \in App : AddrOf(e) # NoCell =>
               \A l \in Link : Settled(AddrOf(e))[l] = Cardinality(Starts(e, l))

\* But for clean, which stops PIPEs twice, no route_del raises in a cell.
NeverRaises ==
    ~cleaned => \A a \in Cell : \A n \in 1..Len(mailbox[a]) :
        LET m == mailbox[a][n]
        IN  m.op = "route_del" =>
                Worked(r_table[a], mailbox[a])[n - 1][<<m.source, m.target>>] > 0

\* What the cells count is well-formed, comes out right, and never raises.
CountsInv == TypeOK /\ Counted /\ NeverRaises

\* A cell that sends data to a cell that is gone is about to be told not to.
TargetsRun ==
    \A a \in Running \cap Cell, l \in Link :
        r_table[a][l] > 0 /\ l[2] \notin Running =>
            \E n \in 1..Len(mailbox[a]) :
                mailbox[a][n] = [op |-> "route_del", source |-> l[1], target |-> l[2]]

\* The cells and permanent APPs that data of APP s reaches when every cell
\* forwards it, the least set that has where it is sent: do_post sends what s
\* itself posts to all its targets, route_data by source.
Hops(s, A) == {b \in Addr : \E a \in A \cap Cell : r_table[a][<<s, b>>] > 0}
First(s) == {b \in Addr : \E x \in Elem : r_table[AddrOf(s)][<<x, b>>] > 0}
From(s, B) == {b \in Addr : \A A \in SUBSET Addr : B \cup Hops(s, A) \subseteq A => b \in A}
ReachedBy(s) == From(s, First(s))
Settle == \A a \in Addr : mailbox[a] = <<>>
Plain(k) == IsInjective(pipes[k].apps)
RunningWith(s) == {k \in PipeId : pipes[k].st = "started" /\ s \in ToSet(pipes[k].apps)}
StartedBy(s) == {k \in PipeId : pipes[k].st = "started" /\ Source(k) = s}

\* The APPs of a list that data of its source comes to, up to the first permanent
\* one, and those behind it.
Passed(q) == {q[i] : i \in {j \in 2..Len(q) : \A m \in 1..(j - 1) : q[m] \notin SysApp}}
CutOff(q) == ToSet(Tail(q)) \ Passed(q)
Followers(s, k) == IF s = Source(k) THEN Passed(pipes[k].apps)
                   ELSE LET i == LastPlace(pipes[k].apps, s)
                        IN  IF i < Len(pipes[k].apps) THEN {pipes[k].apps[i + 1]} ELSE {}
Following(s) == UNION {Followers(s, k) : k \in RunningWith(s)}

\* Once the mailboxes are worked off, data of an APP reaches the APPs behind it
\* in the running PIPEs it is the source of, as far as the first permanent APP,
\* and the next APP in the others; and it reaches no others, such as those of a
\* PIPE of another source that runs through the same cells.  (A PIPE that lists
\* an APP twice loses the first place; an APP that one PIPE has behind a permanent
\* APP and that gets the data by another sends it on along both.)
Flow ==
    Settle /\ (\A k \in PipeId : Plain(k)) =>
        \A s \in App : addr[s] # NoCell =>
            /\ {AddrOf(e) : e \in Following(s)} \subseteq ReachedBy(s)
            /\ (\A k \in StartedBy(s) : Following(s) \cap CutOff(pipes[k].apps) = {}) =>
                   ReachedBy(s) \subseteq {AddrOf(e) : e \in Following(s)}

\* The APPs that are loaded and the PIPEs, as PipeGraph sees them.
Graph == INSTANCE PipeGraph WITH AppId <- App, SysApps <- SysApp,
                                 apps <- {i \in App : addr[i] # NoCell}, pipes <- pipes
GraphSpec == Graph!Spec

\* Data does not go round, unless two running PIPEs have the same source.
NoLoop ==
    \A s \in App :
        Settle /\ (\A j, k \in StartedBy(s) : j = k) =>
            \A a \in Running : a \notin From(s, Hops(s, {a}))

=============================================================================
