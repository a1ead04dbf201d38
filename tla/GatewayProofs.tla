---------------------------- MODULE GatewayProofs ---------------------------
(***************************************************************************)
(* Proofs about Gateway, for every number of cells, APPs, devices,         *)
(* commands and clients, every length of the mailbox, and whether or not   *)
(* the cells of one APP overlap; Reachable where they do not (Ordered).    *)
(***************************************************************************)
EXTENDS Gateway, TLAPS

-----------------------------------------------------------------------------
(* Mailboxes *)

LEMMA Appended ==
    ASSUME NEW S, NEW s \in Seq(S), NEW m \in S
    PROVE  /\ Append(s, m) \in Seq(S)
           /\ Len(Append(s, m)) = Len(s) + 1
           /\ \A i \in 1..Len(s) : Append(s, m)[i] = s[i]
           /\ Append(s, m)[Len(s) + 1] = m
           /\ Len(s) \in Nat
  OBVIOUS

LEMMA Taken ==
    ASSUME NEW S, NEW s \in Seq(S), s # <<>>
    PROVE  /\ Head(s) \in S
           /\ Head(s) = s[1]
           /\ Tail(s) \in Seq(S)
           /\ Len(s) \in Nat \ {0}
           /\ Len(Tail(s)) = Len(s) - 1
           /\ \A i \in 1..Len(Tail(s)) : Tail(s)[i] = s[i + 1]
  OBVIOUS

\* A message is a registration of a cell, or a request of a client.
LEMMA Messages ==
    ASSUME NEW m \in Message
    PROVE  /\ m.op # "request" => m.from \in Cell
           /\ m.op \in {"reg_sub", "unreg_sub"} => m.sub \in Sub
           /\ m.op = "reg_cmd" => m.cmd \in Cmd
           /\ m.op = "request" => m \in Request
  BY DEF Message, Request

\* The devices of an APP are not APPs, and belong to it alone.
LEMMA Devices ==
    /\ \A n \in Name : n \in Dev /\ AppOf(n) = n
    /\ \A s \in Sub, n \in Name :
           /\ <<s, n>> \in Dev /\ <<s, n>> \notin Name /\ AppOf(<<s, n>>) = n
    /\ \A d \in Dev : AppOf(d) \in Name
    /\ \A a \in Cell : NameOf[a] \in Name
  BY DevAssumption, NameAssumption DEF Dev, AppOf

-----------------------------------------------------------------------------
(* Type correctness *)

\* The cells and clients send messages; nothing else of the registry moves.
Environment ==
    \/ \E a \in Cell : \/ Launch(a) \/ Remove(a) \/ Exit(a) \/ Answer(a)
                       \/ \E c \in Cmd : RegCmd(a, c)
                       \/ \E s \in Sub : RegSub(a, s) \/ UnregSub(a, s)
    \/ \E k \in Client, q \in Asked : Ask(k, q[1], q[2])

LEMMA Asks == \A q \in Asked : q[1] \in Dev \cup {Help, Own} /\ q[2] \in Cmd
  BY AskedAssumption

LEMMA EnvironmentTyped ==
    ASSUME TypeOK, Environment
    PROVE  TypeOK' /\ UNCHANGED <<tableVars, cacheVars>>
  <1>1. ASSUME NEW a \in Cell, Launch(a)
        PROVE  TypeOK' /\ UNCHANGED <<tableVars, cacheVars>>
    <2>1. [op |-> "reg_app", from |-> a] \in Message
      BY DEF Message
    <2> QED
      BY <1>1, <2>1, Appended DEF Launch, TypeOK, Send, tableVars, cacheVars
  <1>2. ASSUME NEW a \in Cell, Remove(a)
        PROVE  TypeOK' /\ UNCHANGED <<tableVars, cacheVars>>
    BY <1>2 DEF Remove, TypeOK, tableVars, cacheVars
  <1>3. ASSUME NEW a \in Cell, Exit(a)
        PROVE  TypeOK' /\ UNCHANGED <<tableVars, cacheVars>>
    <2>1. [op |-> "unreg_app", from |-> a] \in Message /\ <<>> \in Seq(Request)
      BY DEF Message
    <2> QED
      BY <1>3, <2>1, Appended DEF Exit, TypeOK, Send, tableVars, cacheVars
  <1>4. ASSUME NEW a \in Cell, Answer(a)
        PROVE  TypeOK' /\ UNCHANGED <<tableVars, cacheVars>>
    <2>1. Tail(inbox[a]) \in Seq(Request)
      BY <1>4, Taken DEF Answer, TypeOK
    <2> QED
      BY <1>4, <2>1 DEF Answer, TypeOK, tableVars, cacheVars
  <1>5. ASSUME NEW a \in Cell, NEW c \in Cmd, RegCmd(a, c)
        PROVE  TypeOK' /\ UNCHANGED <<tableVars, cacheVars>>
    <2>1. [op |-> "reg_cmd", from |-> a, cmd |-> c] \in Message
      BY DEF Message
    <2> QED
      BY <1>5, <2>1, Appended DEF RegCmd, TypeOK, Send, cellVars, tableVars, cacheVars
  <1>8. ASSUME NEW a \in Cell, NEW s \in Sub, RegSub(a, s)
        PROVE  TypeOK' /\ UNCHANGED <<tableVars, cacheVars>>
    <2> DEFINE m == [op |-> "reg_sub", from |-> a, sub |-> s]
    <2>1. m \in Message
      BY DEF Message
    <2>2. box' = Append(box, m)
      BY <1>8 DEF RegSub, Send
    <2>3. box' \in Seq(Message)
      BY <2>1, <2>2, Appended DEF TypeOK
    <2>4. known' \in [Cell -> SUBSET Sub]
      <3>1. known' = [known EXCEPT ![a] = known[a] \cup {s}]
        BY <1>8 DEF RegSub
      <3>2. known \in [Cell -> SUBSET Sub] /\ known[a] \cup {s} \in SUBSET Sub
        BY DEF TypeOK
      <3> QED
        BY <3>1, <3>2
    <2> QED
      BY <1>8, <2>3, <2>4 DEF RegSub, TypeOK, tableVars, cacheVars
  <1>9. ASSUME NEW a \in Cell, NEW s \in Sub, UnregSub(a, s)
        PROVE  TypeOK' /\ UNCHANGED <<tableVars, cacheVars>>
    <2> DEFINE m == [op |-> "unreg_sub", from |-> a, sub |-> s]
    <2>1. m \in Message
      BY DEF Message
    <2>2. box' = Append(box, m)
      BY <1>9 DEF UnregSub, Send
    <2>3. box' \in Seq(Message)
      BY <2>1, <2>2, Appended DEF TypeOK
    <2>4. known' \in [Cell -> SUBSET Sub]
      <3>1. known' = [known EXCEPT ![a] = known[a] \ {s}]
        BY <1>9 DEF UnregSub
      <3>2. known \in [Cell -> SUBSET Sub] /\ known[a] \ {s} \in SUBSET Sub
        BY DEF TypeOK
      <3> QED
        BY <3>1, <3>2
    <2> QED
      BY <1>9, <2>3, <2>4 DEF UnregSub, TypeOK, tableVars, cacheVars
  <1>7. ASSUME NEW k \in Client, NEW q \in Asked, Ask(k, q[1], q[2])
        PROVE  TypeOK' /\ UNCHANGED <<tableVars, cacheVars>>
    <2>1. [op |-> "request", from |-> k, dev |-> q[1], cmd |-> q[2]] \in Message
      BY Asks DEF Message, Request
    <2> QED
      BY <1>7, <2>1, Appended DEF Ask, TypeOK, Send, cellVars, tableVars, cacheVars
  <1> QED
    BY <1>1, <1>2, <1>3, <1>4, <1>5, <1>8, <1>9, <1>7 DEF Environment

LEMMA FoundTyped ==
    ASSUME TypeOK, NEW d \in Dev
    PROVE  /\ Found(d) \in [cell : Cell \cup {None}, obj : Cell \cup {None}, set : BOOLEAN]
           /\ Handler(d) \in [cell : Cell \cup {None}, obj : Cell \cup {None}, set : BOOLEAN]
           /\ Uncached \in [cell : Cell \cup {None}, obj : Cell \cup {None}, set : BOOLEAN]
  BY Devices DEF TypeOK, Found, Handler, Uncached

LEMMA ForgetTyped ==
    ASSUME TypeOK, NEW D, Forget(D)
    PROVE  cache' \in [Dev -> [cell : Cell \cup {None}, obj : Cell \cup {None}, set : BOOLEAN]]
  BY DEF TypeOK, Forget, Uncached

\* What Take has taken.
LEMMA TakeTyped ==
    ASSUME TypeOK, NEW op, Take(op)
    PROVE  /\ box' \in Seq(Message)
           /\ Head(box) \in Message
           /\ op # "request" => Sender \in Cell
           /\ op \in {"reg_sub", "unreg_sub"} => Head(box).sub \in Sub
           /\ op = "reg_cmd" => Head(box).cmd \in Cmd
  BY Taken, Messages DEF TypeOK, Take, Sender

LEMMA DispatchTyped ==
    ASSUME TypeOK, Dispatch
    PROVE  TypeOK'
  <1>1. CASE RegApp
    <2>1. Take("reg_app") BY <1>1 DEF RegApp
    <2>2. Sender \in Cell /\ box' \in Seq(Message) BY <2>1, TakeTyped
    <2>3. NameOf[Sender] \in Dev BY <2>2, Devices
    <2> QED
      BY <1>1, <2>2, <2>3, ForgetTyped
      DEF RegApp, TypeOK, cellVars, tableVars, cacheVars
  <1>2. CASE RegDevice
    <2>1. Take("reg_sub") BY <1>2 DEF RegDevice
    <2>2. Sender \in Cell /\ Head(box).sub \in Sub /\ box' \in Seq(Message) BY <2>1, TakeTyped
    <2>3. DeviceOf(Sender, Head(box).sub) \in Dev BY <2>2, Devices DEF DeviceOf
    <2>4. devlist' \in [Dev -> Cell \cup {None}]
      BY <1>2, <2>2, <2>3 DEF RegDevice, TypeOK, tableVars
    <2>5. sublist' \in [Cell -> SUBSET Sub]
      <3>1. \/ sublist' = sublist
            \/ sublist' = [sublist EXCEPT ![Sender] = sublist[Sender] \cup {Head(box).sub}]
        BY <1>2 DEF RegDevice, tableVars
      <3>2. /\ sublist \in [Cell -> SUBSET Sub]
            /\ sublist[Sender] \cup {Head(box).sub} \in SUBSET Sub
        BY <2>2 DEF TypeOK
      <3> QED
        BY <3>1, <3>2
    <2>6. cache' \in [Dev -> [cell : Cell \cup {None}, obj : Cell \cup {None}, set : BOOLEAN]]
      BY <1>2, ForgetTyped DEF RegDevice, TypeOK, cacheVars
    <2> QED
      BY <1>2, <2>2, <2>4, <2>5, <2>6 DEF RegDevice, TypeOK, cellVars, tableVars
  <1>3. CASE RegCommand
    <2>1. Take("reg_cmd") BY <1>3 DEF RegCommand
    <2>2. Sender \in Cell /\ Head(box).cmd \in Cmd /\ box' \in Seq(Message) BY <2>1, TakeTyped
    <2> QED
      BY <1>3, <2>2 DEF RegCommand, TypeOK, cellVars, cacheVars
  <1>4. CASE UnregDevice
    <2>1. Take("unreg_sub") BY <1>4 DEF UnregDevice
    <2>2. Sender \in Cell /\ Head(box).sub \in Sub /\ box' \in Seq(Message) BY <2>1, TakeTyped
    <2>4. devlist' \in [Dev -> Cell \cup {None}]
      BY <1>4, <2>2 DEF UnregDevice, TypeOK, tableVars
    <2>5. sublist' \in [Cell -> SUBSET Sub]
      BY <1>4, <2>2 DEF UnregDevice, TypeOK, tableVars
    <2>6. cache' \in [Dev -> [cell : Cell \cup {None}, obj : Cell \cup {None}, set : BOOLEAN]]
      BY <1>4, ForgetTyped DEF UnregDevice, TypeOK, cacheVars
    <2> QED
      BY <1>4, <2>2, <2>4, <2>5, <2>6 DEF UnregDevice, TypeOK, cellVars, tableVars
  <1>5. CASE UnregApp
    <2>1. Take("unreg_app") BY <1>5 DEF UnregApp
    <2>2. Sender \in Cell /\ box' \in Seq(Message) BY <2>1, TakeTyped
    <2> QED
      BY <1>5, <2>2, ForgetTyped DEF UnregApp, TypeOK, cellVars, tableVars, cacheVars
  <1>6. CASE ServeHelp \/ ServeOwn
    <2>1. Take("request") BY <1>6 DEF ServeHelp, ServeOwn
    <2>2. box' \in Seq(Message) BY <2>1, TakeTyped
    <2> QED
      BY <1>6, <2>2 DEF ServeHelp, ServeOwn, TypeOK, cellVars, tableVars, cacheVars
  <1>7. CASE Serve
    <2> DEFINE m == Head(box)
    <2>1. m \in Message /\ box' \in Seq(Message)
      BY <1>7, Taken DEF Serve, TypeOK
    <2>2. m \in Request /\ m.dev \in Dev
      BY <1>7, <2>1, Messages DEF Serve
    <2>3. Handler(m.dev) \in [cell : Cell \cup {None}, obj : Cell \cup {None}, set : BOOLEAN]
      BY <2>2, FoundTyped
    <2>4. cache' \in [Dev -> [cell : Cell \cup {None}, obj : Cell \cup {None}, set : BOOLEAN]]
      BY <1>7, <2>2, <2>3 DEF Serve, TypeOK
    <2>5. inbox' \in [Cell -> Seq(Request)]
      <3> DEFINE h == Handler(m.dev)
      <3>1. \/ inbox' = [inbox EXCEPT ![h.cell] = Append(inbox[h.cell], m)]
            \/ inbox' = inbox
        BY <1>7 DEF Serve
      <3>2. h.cell \in Cell => Append(inbox[h.cell], m) \in Seq(Request)
        BY <2>2, Appended DEF TypeOK
      <3> HIDE DEF h
      <3> QED
        BY <3>1, <3>2 DEF TypeOK
    <2>6. asking' \subseteq Client
      BY <1>7 DEF Serve, TypeOK
    <2> QED
      BY <1>7, <2>1, <2>4, <2>5, <2>6 DEF Serve, TypeOK, tableVars
  <1> QED
    BY <1>1, <1>2, <1>3, <1>4, <1>5, <1>6, <1>7 DEF Dispatch

\* The tables and the mailboxes of gateway.lua hold what their handlers put
\* there, whatever is sent.
THEOREM Typing == Spec => []TypeOK
  <1>1. Init => TypeOK
    BY DEF Init, TypeOK, Uncached
  <1>2. TypeOK /\ [Next]_vars => TypeOK'
    <2> SUFFICES ASSUME TypeOK, [Next]_vars PROVE TypeOK'
      OBVIOUS
    <2>1. CASE UNCHANGED vars
      BY <2>1 DEF vars, TypeOK
    <2>2. Next => Environment \/ Dispatch
      BY DEF Next, Environment
    <2> QED
      BY <2>1, <2>2, EnvironmentTyped, DispatchTyped
  <1> QED
    BY <1>1, <1>2, PTL DEF Spec

-----------------------------------------------------------------------------
(* The registry and the handlers *)

\* A cell registers its APP once: until it has, its entry is blank, and there
\* is one such message of it at most, none before it is launched.
Blank(a) == a \notin applist /\ sublist[a] = {}
RegistersAt(a, i) == i \in 1..Len(box) /\ box[i].op = "reg_app" /\ box[i].from = a
Once ==
    \A a \in Cell :
        /\ cell[a] = "off" => Blank(a) /\ \A i \in 1..Len(box) : ~RegistersAt(a, i)
        /\ \A i \in 1..Len(box) : RegistersAt(a, i) =>
               /\ Blank(a)
               /\ \A j \in 1..Len(box) : RegistersAt(a, j) => j = i

IInv == TypeOK /\ Once /\ Registry /\ CacheFresh /\ RequestsLand

\* Any other message that is sent leaves the registrations where they are.
LEMMA SendsOther ==
    ASSUME TypeOK, NEW m \in Message, Send(m), m.op # "reg_app"
    PROVE  \A a \in Cell, i \in 1..Len(box') :
               RegistersAt(a, i)' => i \in 1..Len(box) /\ RegistersAt(a, i)
  BY Appended DEF TypeOK, Send, RegistersAt

\* A message that is taken moves those behind it up.
LEMMA TakesOne ==
    ASSUME TypeOK, box # <<>>, box' = Tail(box)
    PROVE  \A a \in Cell, i \in 1..Len(box') :
               RegistersAt(a, i)' => i + 1 \in 1..Len(box) /\ RegistersAt(a, i + 1)
  BY Taken DEF TypeOK, RegistersAt

LEMMA EnvironmentOnce ==
    ASSUME TypeOK, Once, Environment
    PROVE  Once'
  <1>0. UNCHANGED <<tableVars, cacheVars>>
    BY EnvironmentTyped
  <1>b. \A a \in Cell : Blank(a) => Blank(a)'
    BY <1>0 DEF Blank, tableVars
  <1>1. ASSUME NEW a \in Cell, Launch(a)
        PROVE  Once'
    <2> DEFINE m == [op |-> "reg_app", from |-> a]
    <2>1. m \in Message
      BY DEF Message
    <2>2. box' = Append(box, m) /\ cell[a] = "off" /\ cell' = [cell EXCEPT ![a] = "up"]
      BY <1>1 DEF Launch, Send
    <2>3. /\ Len(box') = Len(box) + 1 /\ Len(box) \in Nat
          /\ \A i \in 1..Len(box) : box'[i] = box[i]
          /\ box'[Len(box) + 1] = m
      BY <2>1, <2>2, Appended DEF TypeOK
    <2>4. \A c \in Cell, i \in 1..Len(box') :
              RegistersAt(c, i)' => \/ i \in 1..Len(box) /\ RegistersAt(c, i)
                                    \/ c = a /\ i = Len(box) + 1
      BY <2>3 DEF RegistersAt
    <2>5. Blank(a) /\ \A i \in 1..Len(box) : ~RegistersAt(a, i)
      BY <2>2 DEF Once
    <2>6. ASSUME NEW c \in Cell, cell'[c] = "off"
          PROVE  Blank(c)' /\ \A i \in 1..Len(box') : ~RegistersAt(c, i)'
      <3>1. c # a /\ cell[c] = "off"
        BY <2>2, <2>6 DEF TypeOK
      <3> QED
        BY <1>b, <2>4, <3>1 DEF Once
    <2>7. ASSUME NEW c \in Cell, NEW i \in 1..Len(box'), RegistersAt(c, i)'
          PROVE  Blank(c)' /\ \A j \in 1..Len(box') : RegistersAt(c, j)' => j = i
      <3>1. CASE c = a
        BY <1>b, <2>4, <2>5, <2>7, <3>1
      <3>2. CASE c # a
        BY <1>b, <2>4, <2>7, <3>2 DEF Once
      <3> QED
        BY <3>1, <3>2
    <2> QED
      BY <2>6, <2>7 DEF Once
  <1>2. ASSUME \A a \in Cell : cell'[a] = "off" => cell[a] = "off",
               \A a \in Cell, i \in 1..Len(box') :
                   RegistersAt(a, i)' => i \in 1..Len(box) /\ RegistersAt(a, i)
        PROVE  Once'
    BY <1>b, <1>2 DEF Once
  <1>3. ASSUME NEW a \in Cell, Remove(a) \/ Answer(a)
        PROVE  Once'
    <2>1. box' = box /\ \A c \in Cell : cell'[c] = "off" => cell[c] = "off"
      BY <1>3 DEF Remove, Answer, TypeOK
    <2> QED
      BY <1>2, <2>1 DEF RegistersAt
  <1>4. ASSUME NEW a \in Cell, Exit(a)
        PROVE  Once'
    <2>1. [op |-> "unreg_app", from |-> a] \in Message
      BY DEF Message
    <2>2. \A c \in Cell : cell'[c] = "off" => cell[c] = "off"
      BY <1>4 DEF Exit, TypeOK
    <2> QED
      BY <1>2, <1>4, <2>1, <2>2, SendsOther DEF Exit
  <1>5. ASSUME NEW a \in Cell, NEW c \in Cmd, RegCmd(a, c)
        PROVE  Once'
    <2>1. [op |-> "reg_cmd", from |-> a, cmd |-> c] \in Message
      BY DEF Message
    <2> QED
      BY <1>2, <1>5, <2>1, SendsOther DEF RegCmd, cellVars
  <1>6. ASSUME NEW a \in Cell, NEW s \in Sub, RegSub(a, s) \/ UnregSub(a, s)
        PROVE  Once'
    <2>1. /\ [op |-> "reg_sub", from |-> a, sub |-> s] \in Message
          /\ [op |-> "unreg_sub", from |-> a, sub |-> s] \in Message
      BY DEF Message
    <2>2. cell' = cell
      BY <1>6 DEF RegSub, UnregSub
    <2> QED
      BY <1>2, <1>6, <2>1, <2>2, SendsOther DEF RegSub, UnregSub
  <1>7. ASSUME NEW k \in Client, NEW q \in Asked, Ask(k, q[1], q[2])
        PROVE  Once'
    <2>1. [op |-> "request", from |-> k, dev |-> q[1], cmd |-> q[2]] \in Message
      BY Asks DEF Message, Request
    <2> QED
      BY <1>2, <1>7, <2>1, SendsOther DEF Ask, cellVars
  <1> QED
    BY <1>1, <1>3, <1>4, <1>5, <1>6, <1>7 DEF Environment

\* Dispatching takes the first message, and touches the tables in five ways.
LEMMA Dispatches ==
    ASSUME TypeOK, Dispatch
    PROVE  box # <<>> /\ box' = Tail(box) /\ cell' = cell
  BY DEF Dispatch, RegApp, RegDevice, RegCommand, UnregDevice, UnregApp, ServeHelp, Serve,
         ServeOwn, Take, cellVars

LEMMA DispatchOnce ==
    ASSUME TypeOK, Once, Dispatch
    PROVE  Once'
  <1>0. box # <<>> /\ box' = Tail(box) /\ cell' = cell
    BY Dispatches
  <1>1. \A a \in Cell, i \in 1..Len(box') :
            RegistersAt(a, i)' => i + 1 \in 1..Len(box) /\ RegistersAt(a, i + 1)
    BY <1>0, TakesOne
  <1>2. ASSUME \A a \in Cell : Blank(a) => Blank(a)'
        PROVE  Once'
    <2>1. ASSUME NEW a \in Cell, cell'[a] = "off"
          PROVE  Blank(a)' /\ \A i \in 1..Len(box') : ~RegistersAt(a, i)'
      BY <1>0, <1>1, <1>2, <2>1 DEF Once
    <2>2. ASSUME NEW a \in Cell, NEW i \in 1..Len(box'), RegistersAt(a, i)'
          PROVE  Blank(a)' /\ \A j \in 1..Len(box') : RegistersAt(a, j)' => j = i
      <3>1. i + 1 \in 1..Len(box) /\ RegistersAt(a, i + 1)
        BY <1>1, <2>2
      <3>2. Blank(a)'
        BY <1>2, <3>1 DEF Once
      <3>3. ASSUME NEW j \in 1..Len(box'), RegistersAt(a, j)'
            PROVE  j = i
        <4>1. j + 1 \in 1..Len(box) /\ RegistersAt(a, j + 1)
          BY <1>1, <3>3
        <4>2. j + 1 = i + 1
          BY <3>1, <4>1 DEF Once
        <4> QED
          BY <4>2
      <3> QED
        BY <3>2, <3>3
    <2> QED
      BY <2>1, <2>2 DEF Once
  <1>3. CASE RegApp
    <2>1. Take("reg_app") BY <1>3 DEF RegApp
    <2>2. PICK a \in Cell : a = Sender BY <2>1, TakeTyped
    <2>3. 1 \in 1..Len(box) /\ RegistersAt(a, 1)
      BY <2>1, <2>2, Taken DEF Take, Sender, RegistersAt, TypeOK
    <2>4. cell[a] # "off" /\ \A j \in 1..Len(box) : RegistersAt(a, j) => j = 1
      BY <2>2, <2>3 DEF Once
    <2>5. \A c \in Cell \ {a} : Blank(c) => Blank(c)'
      BY <1>3, <2>2 DEF RegApp, Blank, tableVars
    <2>6. ASSUME NEW i \in 1..Len(box'), RegistersAt(a, i)'
          PROVE  FALSE
      <3>1. i + 1 \in 1..Len(box) /\ RegistersAt(a, i + 1)
        BY <1>1, <2>2, <2>6
      <3>2. i + 1 = 1
        BY <2>4, <3>1
      <3> QED
        BY <3>2
    <2>7. ASSUME NEW c \in Cell, cell'[c] = "off"
          PROVE  Blank(c)' /\ \A i \in 1..Len(box') : ~RegistersAt(c, i)'
      BY <1>0, <1>1, <2>4, <2>5, <2>7 DEF Once
    <2>8. ASSUME NEW c \in Cell, NEW i \in 1..Len(box'), RegistersAt(c, i)'
          PROVE  Blank(c)' /\ \A j \in 1..Len(box') : RegistersAt(c, j)' => j = i
      <3>1. c # a
        BY <2>6, <2>8
      <3>2. i + 1 \in 1..Len(box) /\ RegistersAt(c, i + 1)
        BY <1>1, <2>8
      <3>3. Blank(c)'
        BY <2>5, <3>1, <3>2 DEF Once
      <3>4. ASSUME NEW j \in 1..Len(box'), RegistersAt(c, j)'
            PROVE  j = i
        <4>1. j + 1 \in 1..Len(box) /\ RegistersAt(c, j + 1)
          BY <1>1, <3>4
        <4>2. j + 1 = i + 1
          BY <3>2, <4>1 DEF Once
        <4> QED
          BY <4>2
      <3> QED
        BY <3>3, <3>4
    <2> QED
      BY <2>7, <2>8 DEF Once
  <1>4. CASE RegDevice
    <2>1. Sender \in Cell
      BY <1>4, TakeTyped DEF RegDevice
    <2>2. \A a \in Cell : Blank(a) => Blank(a)'
      BY <1>4, <2>1 DEF RegDevice, Blank, TypeOK, tableVars
    <2> QED
      BY <1>2, <2>2
  <1>5. CASE UnregDevice
    <2>1. Sender \in Cell
      BY <1>5, TakeTyped DEF UnregDevice
    <2>2. \A a \in Cell : Blank(a) => Blank(a)'
      BY <1>5, <2>1 DEF UnregDevice, Blank, TypeOK, tableVars
    <2> QED
      BY <1>2, <2>2
  <1>6. CASE RegCommand \/ UnregApp \/ ServeHelp \/ Serve \/ ServeOwn
    <2>1. applist' \subseteq applist /\ sublist' = sublist
      BY <1>6 DEF RegCommand, UnregApp, ServeHelp, Serve, ServeOwn, tableVars
    <2> QED
      BY <1>2, <2>1 DEF Blank
  <1> QED
    BY <1>3, <1>4, <1>5, <1>6 DEF Dispatch

\* What the registry says of one APP and of one device of it.
LEMMA RegistryFacts ==
    ASSUME TypeOK, Registry
    PROVE  /\ \A a \in applist : devlist[NameOf[a]] = a
           /\ \A n \in Name : devlist[n] # None => devlist[n] \in applist /\ NameOf[devlist[n]] = n
           /\ \A s \in Sub, n \in Name : devlist[<<s, n>>] # None =>
                  devlist[<<s, n>>] = devlist[n] /\ s \in sublist[devlist[n]]
           /\ \A a \in applist, s \in Sub :
                  devlist[<<s, NameOf[a]>>] = None <=> s \notin sublist[a]
  <1>1. \A a \in applist : NameOf[a] \in Name /\ a # None
    BY NameAssumption, NoneAssumption DEF TypeOK
  <1>2. \A s \in Sub, n \in Name : devlist[<<s, n>>] # None =>
            devlist[<<s, n>>] = devlist[n] /\ s \in sublist[devlist[n]]
    BY DEF Registry
  <1>3. \A a \in applist, s \in Sub :
            devlist[<<s, NameOf[a]>>] = None <=> s \notin sublist[a]
    BY <1>1, <1>2 DEF Registry
  <1> QED
    BY <1>2, <1>3 DEF Registry

\* ... and of a lookup: the cell it finds is the one that registered the
\* device, whose entry is that of its APP.
Entry(d) == [cell |-> devlist[d], obj |-> devlist[d], set |-> TRUE]
Looked ==
    \A d \in Dev : Found(d) = Entry(d) /\ (devlist[d] # None => NameOf[devlist[d]] = AppOf(d))
LEMMA LookupFacts == TypeOK /\ Registry => Looked
  <1> SUFFICES ASSUME TypeOK, Registry PROVE Looked
    OBVIOUS
  <1>1. ASSUME NEW n \in Name
        PROVE  Found(n) = Entry(n) /\ (devlist[n] # None => NameOf[devlist[n]] = AppOf(n))
    BY <1>1, Devices, RegistryFacts DEF Found, Entry
  <1>2. ASSUME NEW s \in Sub, NEW n \in Name
        PROVE  /\ Found(<<s, n>>) = Entry(<<s, n>>)
               /\ devlist[<<s, n>>] # None => NameOf[devlist[<<s, n>>]] = AppOf(<<s, n>>)
    <2>1. AppOf(<<s, n>>) = n
      BY Devices
    <2>2. devlist[<<s, n>>] # None => devlist[<<s, n>>] = devlist[n] /\ NameOf[devlist[n]] = n
      BY RegistryFacts
    <2> QED
      BY <2>1, <2>2 DEF Found, Entry
  <1>3. \A d \in Dev : d \in Name \/ \E s \in Sub, n \in Name : d = <<s, n>>
    BY DEF Dev
  <1> QED
    BY <1>1, <1>2, <1>3 DEF Looked

\* Changing the entry of one device changes no other.
LEMMA OneDevice ==
    ASSUME TypeOK, NEW r \in Sub, NEW n \in Name, NEW v \in Cell \cup {None},
           devlist' = [devlist EXCEPT ![<<r, n>>] = v]
    PROVE  /\ devlist'[<<r, n>>] = v
           /\ \A m \in Name : devlist'[m] = devlist[m]
           /\ \A s \in Sub, m \in Name :
                  <<s, m>> # <<r, n>> => devlist'[<<s, m>>] = devlist[<<s, m>>]
  <1>1. <<r, n>> \in Dev /\ <<r, n>> \notin Name
    BY Devices
  <1>2. devlist'[<<r, n>>] = v
    BY <1>1 DEF TypeOK
  <1>3. ASSUME NEW m \in Name
        PROVE  devlist'[m] = devlist[m]
    <2>1. m \in Dev /\ m # <<r, n>>
      BY <1>1, Devices
    <2> QED
      BY <2>1 DEF TypeOK
  <1>4. ASSUME NEW s \in Sub, NEW m \in Name, <<s, m>> # <<r, n>>
        PROVE  devlist'[<<s, m>>] = devlist[<<s, m>>]
    <2>1. <<s, m>> \in Dev
      BY Devices
    <2> QED
      BY <1>4, <2>1 DEF TypeOK
  <1> QED
    BY <1>2, <1>3, <1>4

\* Dispatching keeps the two indexes in step.
LEMMA DispatchRegistry ==
    ASSUME TypeOK, Once, Registry, Dispatch
    PROVE  Registry'
  <1> USE NoneAssumption
  <1>1. CASE RegApp
    <2>1. Take("reg_app") BY <1>1 DEF RegApp
    <2>2. PICK a \in Cell : a = Sender BY <2>1, TakeTyped
    <2>3. PICK n \in Name : n = NameOf[a] BY <2>2, Devices
    <2>4. Blank(a)
      BY <2>1, <2>2, Taken DEF Take, Sender, RegistersAt, TypeOK, Once
    <2>5. CASE devlist[n] # None
      BY <1>1, <2>2, <2>3, <2>5 DEF RegApp, Registry, tableVars
    <2>6. CASE devlist[n] = None
      <3>1. /\ devlist' = [devlist EXCEPT ![n] = a]
            /\ applist' = applist \cup {a}
            /\ sublist' = sublist
        BY <1>1, <2>2, <2>3, <2>6 DEF RegApp
      <3>2. /\ devlist'[n] = a
            /\ \A m \in Name \ {n} : devlist'[m] = devlist[m]
            /\ \A s \in Sub, m \in Name : devlist'[<<s, m>>] = devlist[<<s, m>>]
        BY <3>1, Devices DEF TypeOK
      <3>3. \A s \in Sub : devlist[<<s, n>>] = None
        BY <2>6, RegistryFacts
      <3>4. \A m \in Name : devlist'[m] # None => devlist'[m] \in applist' /\ NameOf[devlist'[m]] = m
        BY <2>3, <3>1, <3>2, RegistryFacts
      <3>5. \A b \in applist' : devlist'[NameOf[b]] = b
        <4>1. \A b \in applist : NameOf[b] \in Name /\ NameOf[b] # n
          BY <2>6, RegistryFacts, NameAssumption DEF TypeOK
        <4> QED
          BY <2>3, <3>1, <3>2, <4>1, RegistryFacts
      <3>6. ASSUME NEW s \in Sub, NEW m \in Name
            PROVE  IF devlist'[<<s, m>>] # None
                   THEN devlist'[<<s, m>>] = devlist'[m] /\ s \in sublist'[devlist'[<<s, m>>]]
                   ELSE devlist'[m] # None => s \notin sublist'[devlist'[m]]
        <4>1. CASE m = n
          BY <2>4, <3>1, <3>2, <3>3, <4>1 DEF Blank
        <4>2. CASE m # n
          BY <3>1, <3>2, <4>2 DEF Registry
        <4> QED
          BY <4>1, <4>2
      <3> QED
        BY <3>4, <3>5, <3>6 DEF Registry
    <2> QED
      BY <2>5, <2>6
  <1>2. CASE RegCommand \/ ServeHelp \/ Serve \/ ServeOwn
    <2>1. UNCHANGED <<devlist, applist, sublist>>
      BY <1>2 DEF RegCommand, ServeHelp, Serve, ServeOwn, tableVars
    <2> QED
      BY <2>1 DEF Registry
  <1>3. CASE RegDevice
    <2>1. Take("reg_sub") BY <1>3 DEF RegDevice
    <2>2. PICK a \in Cell : a = Sender BY <2>1, TakeTyped
    <2>3. PICK r \in Sub : r = Head(box).sub BY <2>1, TakeTyped
    <2>4. PICK n \in Name : n = NameOf[a] BY <2>2, Devices
    <2>5. CASE devlist[<<r, n>>] # None \/ a \notin applist
      BY <1>3, <2>2, <2>3, <2>4, <2>5 DEF RegDevice, DeviceOf, Registry, tableVars
    <2>6. CASE devlist[<<r, n>>] = None /\ a \in applist
      <3>1. /\ devlist' = [devlist EXCEPT ![<<r, n>>] = a]
            /\ sublist' = [sublist EXCEPT ![a] = sublist[a] \cup {r}]
            /\ applist' = applist
        BY <1>3, <2>2, <2>3, <2>4, <2>6 DEF RegDevice, DeviceOf
      <3>2. /\ devlist'[<<r, n>>] = a
            /\ \A m \in Name : devlist'[m] = devlist[m]
            /\ \A s \in Sub, m \in Name : <<s, m>> # <<r, n>> => devlist'[<<s, m>>] = devlist[<<s, m>>]
            /\ sublist'[a] = sublist[a] \cup {r}
            /\ \A b \in Cell \ {a} : sublist'[b] = sublist[b]
        <4>1. devlist \in [Dev -> Cell \cup {None}] /\ sublist \in [Cell -> SUBSET Sub]
          BY DEF TypeOK
        <4>2. /\ devlist'[<<r, n>>] = a
              /\ \A m \in Name : devlist'[m] = devlist[m]
              /\ \A s \in Sub, m \in Name : <<s, m>> # <<r, n>> => devlist'[<<s, m>>] = devlist[<<s, m>>]
          BY <3>1, <4>1, OneDevice
        <4> QED
          BY <3>1, <4>1, <4>2
      <3>3. devlist[n] = a
        BY <2>4, <2>6, RegistryFacts
      <3>4. /\ \A m \in Name : devlist'[m] # None => devlist'[m] \in applist' /\ NameOf[devlist'[m]] = m
            /\ \A b \in applist' : devlist'[NameOf[b]] = b
        <4>1. \A b \in applist : NameOf[b] \in Name
          BY Devices DEF TypeOK
        <4>2. \A m \in Name : devlist[m] # None => devlist[m] \in applist /\ NameOf[devlist[m]] = m
          BY RegistryFacts
        <4> QED
          BY <3>1, <3>2, <4>1, <4>2, RegistryFacts
      <3>5. ASSUME NEW s \in Sub, NEW m \in Name
            PROVE  IF devlist'[<<s, m>>] # None
                   THEN devlist'[<<s, m>>] = devlist'[m] /\ s \in sublist'[devlist'[<<s, m>>]]
                   ELSE devlist'[m] # None => s \notin sublist'[devlist'[m]]
        <4>1. CASE s = r /\ m = n
          BY <3>2, <3>3, <4>1
        <4>2. CASE m = n /\ s # r
          BY <3>2, <3>3, <4>2 DEF Registry
        <4>3. CASE m # n
          <5>1. devlist[m] # a /\ (devlist[m] # None => devlist[m] \in Cell)
            BY <2>4, <4>3, RegistryFacts, Devices DEF TypeOK
          <5>2. devlist'[m] = devlist[m] /\ devlist'[<<s, m>>] = devlist[<<s, m>>]
            BY <3>2, <4>3
          <5>3. devlist[m] # None => sublist'[devlist[m]] = sublist[devlist[m]]
            BY <3>2, <5>1
          <5> QED
            BY <5>2, <5>3 DEF Registry
        <4> QED
          BY <4>1, <4>2, <4>3
      <3> QED
        BY <3>4, <3>5 DEF Registry
    <2> QED
      BY <2>5, <2>6
  <1>4. CASE UnregDevice
    <2>1. Take("unreg_sub") BY <1>4 DEF UnregDevice
    <2>2. PICK a \in Cell : a = Sender BY <2>1, TakeTyped
    <2>3. PICK r \in Sub : r = Head(box).sub BY <2>1, TakeTyped
    <2>4. PICK n \in Name : n = NameOf[a] BY <2>2, Devices
    <2>5. CASE a \notin applist
      BY <1>4, <2>2, <2>5 DEF UnregDevice, Registry, tableVars
    <2>6. CASE a \in applist
      <3>1. /\ devlist' = [devlist EXCEPT ![<<r, n>>] = None]
            /\ sublist' = [sublist EXCEPT ![a] = sublist[a] \ {r}]
            /\ applist' = applist
        BY <1>4, <2>2, <2>3, <2>4, <2>6 DEF UnregDevice, DeviceOf
      <3>2. /\ devlist'[<<r, n>>] = None
            /\ \A m \in Name : devlist'[m] = devlist[m]
            /\ \A s \in Sub, m \in Name : <<s, m>> # <<r, n>> => devlist'[<<s, m>>] = devlist[<<s, m>>]
            /\ sublist'[a] = sublist[a] \ {r}
            /\ \A b \in Cell \ {a} : sublist'[b] = sublist[b]
        <4>1. devlist \in [Dev -> Cell \cup {None}] /\ sublist \in [Cell -> SUBSET Sub]
          BY DEF TypeOK
        <4>2. /\ devlist'[<<r, n>>] = None
              /\ \A m \in Name : devlist'[m] = devlist[m]
              /\ \A s \in Sub, m \in Name : <<s, m>> # <<r, n>> => devlist'[<<s, m>>] = devlist[<<s, m>>]
          BY <3>1, <4>1, OneDevice
        <4> QED
          BY <3>1, <4>1, <4>2
      <3>3. devlist[n] = a
        BY <2>4, <2>6, RegistryFacts
      <3>4. /\ \A m \in Name : devlist'[m] # None => devlist'[m] \in applist' /\ NameOf[devlist'[m]] = m
            /\ \A b \in applist' : devlist'[NameOf[b]] = b
        <4>1. \A b \in applist : NameOf[b] \in Name
          BY Devices DEF TypeOK
        <4>2. \A m \in Name : devlist[m] # None => devlist[m] \in applist /\ NameOf[devlist[m]] = m
          BY RegistryFacts
        <4> QED
          BY <3>1, <3>2, <4>1, <4>2, RegistryFacts
      <3>5. ASSUME NEW s \in Sub, NEW m \in Name
            PROVE  IF devlist'[<<s, m>>] # None
                   THEN devlist'[<<s, m>>] = devlist'[m] /\ s \in sublist'[devlist'[<<s, m>>]]
                   ELSE devlist'[m] # None => s \notin sublist'[devlist'[m]]
        <4>1. CASE s = r /\ m = n
          BY <3>2, <3>3, <4>1
        <4>2. CASE m = n /\ s # r
          BY <3>2, <3>3, <4>2 DEF Registry
        <4>3. CASE m # n
          <5>1. devlist[m] # a /\ (devlist[m] # None => devlist[m] \in Cell)
            BY <2>4, <4>3, RegistryFacts, Devices DEF TypeOK
          <5>2. devlist'[m] = devlist[m] /\ devlist'[<<s, m>>] = devlist[<<s, m>>]
            BY <3>2, <4>3
          <5>3. devlist[m] # None => sublist'[devlist[m]] = sublist[devlist[m]]
            BY <3>2, <5>1
          <5> QED
            BY <5>2, <5>3 DEF Registry
        <4> QED
          BY <4>1, <4>2, <4>3
      <3> QED
        BY <3>4, <3>5 DEF Registry
    <2> QED
      BY <2>5, <2>6
  <1>5. CASE UnregApp
    <2>1. Take("unreg_app") BY <1>5 DEF UnregApp
    <2>2. PICK a \in Cell : a = Sender BY <2>1, TakeTyped
    <2>3. PICK n \in Name : n = NameOf[a] BY <2>2, Devices
    <2>4. CASE a \notin applist
      BY <1>5, <2>2, <2>4 DEF UnregApp, Registry, tableVars
    <2>5. CASE a \in applist
      <3>1. /\ devlist' = [d \in Dev |-> IF d \in Unregistered(a) THEN None ELSE devlist[d]]
            /\ applist' = applist \ {a}
            /\ sublist' = sublist
        BY <1>5, <2>2, <2>5 DEF UnregApp
      <3>2. devlist'[n] = None /\ \A m \in Name \ {n} : devlist'[m] = devlist[m]
        <4>1. n \in Unregistered(a) /\ n \in Dev
          BY <2>3, Devices DEF Unregistered
        <4>2. \A m \in Name \ {n} : m \in Dev /\ m \notin Unregistered(a)
          <5>1. \A s \in sublist[a] : DeviceOf(a, s) \notin Name
            BY <2>3, Devices DEF TypeOK, DeviceOf
          <5> QED
            BY <2>3, <5>1, Devices DEF Unregistered
        <4> QED
          BY <3>1, <4>1, <4>2
      <3>3. \A s \in Sub : devlist'[<<s, n>>] = None
        <4>1. \A s \in Sub : s \in sublist[a] => <<s, n>> \in Unregistered(a)
          BY <2>3 DEF Unregistered, DeviceOf
        <4>2. \A s \in Sub : s \notin sublist[a] => devlist[<<s, n>>] = None
          BY <2>3, <2>5, RegistryFacts
        <4> QED
          BY <3>1, <4>1, <4>2, Devices
      <3>4. \A s \in Sub, m \in Name \ {n} : devlist'[<<s, m>>] = devlist[<<s, m>>]
        <4>1. \A s \in Sub, m \in Name \ {n} : <<s, m>> \notin Unregistered(a)
          BY <2>3, Devices DEF Unregistered, DeviceOf
        <4> QED
          BY <3>1, <4>1, Devices
      <3>5. devlist[n] = a
        BY <2>3, <2>5, RegistryFacts
      <3>6. \A m \in Name : devlist'[m] # None => devlist'[m] \in applist' /\ NameOf[devlist'[m]] = m
        BY <2>3, <3>1, <3>2, RegistryFacts
      <3>7. \A b \in applist' : devlist'[NameOf[b]] = b
        BY <2>3, <3>1, <3>2, <3>5, RegistryFacts, NameAssumption DEF TypeOK
      <3>8. ASSUME NEW s \in Sub, NEW m \in Name
            PROVE  IF devlist'[<<s, m>>] # None
                   THEN devlist'[<<s, m>>] = devlist'[m] /\ s \in sublist'[devlist'[<<s, m>>]]
                   ELSE devlist'[m] # None => s \notin sublist'[devlist'[m]]
        <4>1. CASE m = n
          BY <3>2, <3>3, <4>1
        <4>2. CASE m # n
          BY <3>1, <3>2, <3>4, <4>2 DEF Registry
        <4> QED
          BY <4>1, <4>2
      <3> QED
        BY <3>6, <3>7, <3>8 DEF Registry
    <2> QED
      BY <2>4, <2>5
  <1> QED
    BY <1>1, <1>2, <1>3, <1>4, <1>5 DEF Dispatch

-----------------------------------------------------------------------------
(* The cached handlers *)

\* What is registered or unregistered is forgotten; the rest stays fresh.
LEMMA Forgets ==
    ASSUME CacheFresh, Looked, Looked', NEW D, Forget(D),
           \A d \in Dev \ D : devlist'[d] = devlist[d]
    PROVE  CacheFresh'
  <1> SUFFICES ASSUME NEW d \in Dev, cache'[d].set PROVE cache'[d] = Found(d)'
    BY DEF CacheFresh
  <1>1. d \notin D /\ cache'[d] = cache[d]
    BY DEF Forget, Uncached
  <1>2. cache[d] = Found(d)
    BY <1>1 DEF CacheFresh
  <1>3. Found(d) = Entry(d) /\ Found(d)' = Entry(d)'
    BY DEF Looked
  <1> QED
    BY <1>1, <1>2, <1>3 DEF Entry

LEMMA DispatchCache ==
    ASSUME TypeOK, CacheFresh, Looked, Looked', Dispatch
    PROVE  CacheFresh'
  <1>1. CASE UNCHANGED <<devlist, cache>>
    BY <1>1 DEF CacheFresh, Found
  <1>2. CASE RegApp
    <2>1. CASE UNCHANGED <<tableVars, cacheVars>>
      BY <1>1, <2>1 DEF tableVars, cacheVars
    <2>2. CASE devlist' = [devlist EXCEPT ![NameOf[Sender]] = Sender] /\ Forget({NameOf[Sender]})
      BY <2>2, Forgets DEF TypeOK
    <2> QED
      BY <1>2, <2>1, <2>2 DEF RegApp
  <1>3. CASE RegDevice
    <2>1. PICK d : d = DeviceOf(Sender, Head(box).sub)
      OBVIOUS
    <2>2. CASE UNCHANGED <<tableVars, cacheVars>>
      BY <1>1, <2>2 DEF tableVars, cacheVars
    <2>3. CASE devlist' = [devlist EXCEPT ![d] = Sender] /\ Forget({d})
      BY <2>3, Forgets DEF TypeOK
    <2> QED
      BY <1>3, <2>1, <2>2, <2>3 DEF RegDevice
  <1>4. CASE UnregDevice
    <2>1. PICK d : d = DeviceOf(Sender, Head(box).sub)
      OBVIOUS
    <2>2. CASE UNCHANGED <<tableVars, cacheVars>>
      BY <1>1, <2>2 DEF tableVars, cacheVars
    <2>3. CASE devlist' = [devlist EXCEPT ![d] = None] /\ Forget({d})
      BY <2>3, Forgets DEF TypeOK
    <2> QED
      BY <1>4, <2>1, <2>2, <2>3 DEF UnregDevice
  <1>5. CASE UnregApp
    <2>1. PICK D : D = Unregistered(Sender)
      OBVIOUS
    <2>2. CASE UNCHANGED <<tableVars, cacheVars>>
      BY <1>1, <2>2 DEF tableVars, cacheVars
    <2>3. CASE devlist' = [d \in Dev |-> IF d \in D THEN None ELSE devlist[d]] /\ Forget(D)
      BY <2>3, Forgets
    <2> QED
      BY <1>5, <2>1, <2>2, <2>3 DEF UnregApp
  <1>6. CASE RegCommand \/ ServeHelp \/ ServeOwn
    BY <1>1, <1>6 DEF RegCommand, ServeHelp, ServeOwn, tableVars, cacheVars
  <1>7. CASE Serve
    <2>1. PICK e \in Dev : e = Head(box).dev
      BY <1>7 DEF Serve
    <2>2. cache' = [cache EXCEPT ![e] = Handler(e)] /\ devlist' = devlist
      BY <1>7, <2>1 DEF Serve, tableVars
    <2>3. Handler(e) = Found(e)
      BY DEF Handler, CacheFresh
    <2> QED
      BY <2>2, <2>3 DEF CacheFresh, Found, TypeOK
  <1> QED
    BY <1>2, <1>3, <1>4, <1>5, <1>6, <1>7 DEF Dispatch

-----------------------------------------------------------------------------
(* The requests on their way *)

\* The commands of an entry are never taken back.
LEMMA DispatchLands ==
    ASSUME TypeOK, CacheFresh, Looked, RequestsLand, Dispatch
    PROVE  RequestsLand'
  <1>1. CASE RegCommand
    <2>1. Take("reg_cmd") BY <1>1 DEF RegCommand
    <2>2. Sender \in Cell BY <2>1, TakeTyped
    <2>3. inbox' = inbox /\ \A a \in Cell : cmdlist[a] \subseteq cmdlist'[a]
      BY <1>1, <2>2 DEF RegCommand, TypeOK, cellVars
    <2> QED
      BY <2>3 DEF RequestsLand
  <1>2. CASE Serve
    <2>1. PICK m \in Request : m = Head(box) /\ m.dev \in Dev
      BY <1>2, Taken, Messages DEF Serve, TypeOK
    <2>2. Handler(m.dev) = Entry(m.dev)
      BY <2>1 DEF Handler, CacheFresh, Looked
    <2>3. PICK b \in Cell \cup {None} : b = devlist[m.dev]
      BY <2>1 DEF TypeOK
    <2>4. Handler(m.dev).cell = b /\ Handler(m.dev).obj = b
      BY <2>2, <2>3 DEF Entry
    <2>5. CASE inbox' = inbox
      BY <1>2, <2>5 DEF Serve, RequestsLand, tableVars
    <2>6. CASE Listed(Handler(m.dev), m.cmd) /\ inbox' = [inbox EXCEPT ![b] = Append(inbox[b], m)]
      <3>1. b \in Cell /\ m.cmd \in cmdlist[b]
        BY <2>4, <2>6 DEF Listed
      <3>2. AppOf(m.dev) = NameOf[b]
        BY <2>1, <2>3, <3>1, NoneAssumption DEF Looked
      <3>3. cmdlist' = cmdlist
        BY <1>2 DEF Serve, tableVars
      <3>4. \A a \in Cell \ {b} : inbox'[a] = inbox[a]
        BY <2>6 DEF TypeOK
      <3>5. /\ Len(inbox'[b]) = Len(inbox[b]) + 1 /\ Len(inbox[b]) \in Nat
            /\ \A i \in 1..Len(inbox[b]) : inbox'[b][i] = inbox[b][i]
            /\ inbox'[b][Len(inbox[b]) + 1] = m
        BY <2>6, <3>1, Appended DEF TypeOK
      <3>6. ASSUME NEW i \in 1..Len(inbox'[b])
            PROVE  AppOf(inbox'[b][i].dev) = NameOf[b] /\ inbox'[b][i].cmd \in cmdlist[b]
        <4>1. i \in 1..Len(inbox[b]) \/ i = Len(inbox[b]) + 1
          BY <3>5
        <4> QED
          BY <3>1, <3>2, <3>5, <4>1 DEF RequestsLand
      <3> QED
        BY <3>3, <3>4, <3>6 DEF RequestsLand
    <2> QED
      BY <1>2, <2>1, <2>4, <2>5, <2>6 DEF Serve
  <1>3. CASE RegApp \/ RegDevice \/ UnregDevice \/ UnregApp \/ ServeHelp \/ ServeOwn
    <2>1. UNCHANGED <<inbox, cmdlist>>
      BY <1>3 DEF RegApp, RegDevice, UnregDevice, UnregApp, ServeHelp, ServeOwn, tableVars, cellVars
    <2> QED
      BY <2>1 DEF RequestsLand
  <1> QED
    BY <1>1, <1>2, <1>3 DEF Dispatch

\* A cell works its requests off in order, and leaves none when it exits.
LEMMA EnvironmentLands ==
    ASSUME TypeOK, RequestsLand, Environment
    PROVE  RequestsLand'
  <1>1. cmdlist' = cmdlist
    BY EnvironmentTyped DEF tableVars
  <1>2. ASSUME NEW a \in Cell, Exit(a)
        PROVE  RequestsLand'
    BY <1>1, <1>2 DEF Exit, RequestsLand, TypeOK
  <1>3. ASSUME NEW a \in Cell, Answer(a)
        PROVE  RequestsLand'
    <2>1. inbox[a] # <<>> /\ inbox' = [inbox EXCEPT ![a] = Tail(inbox[a])]
      BY <1>3 DEF Answer
    <2>2. /\ Len(inbox'[a]) = Len(inbox[a]) - 1 /\ Len(inbox[a]) \in Nat
          /\ \A i \in 1..Len(inbox'[a]) : inbox'[a][i] = inbox[a][i + 1]
      BY <2>1, Taken DEF TypeOK
    <2>3. \A b \in Cell \ {a} : inbox'[b] = inbox[b]
      BY <2>1 DEF TypeOK
    <2>4. \A i \in 1..Len(inbox'[a]) : i + 1 \in 1..Len(inbox[a])
      BY <2>2
    <2> QED
      BY <1>1, <2>2, <2>3, <2>4 DEF RequestsLand
  <1>4. CASE inbox' = inbox
    BY <1>1, <1>4 DEF RequestsLand
  <1>5. Environment => inbox' = inbox \/ \E a \in Cell : Exit(a) \/ Answer(a)
    BY DEF Environment, Launch, Remove, RegCmd, RegSub, UnregSub, Ask, cellVars
  <1> QED
    BY <1>2, <1>3, <1>4, <1>5

-----------------------------------------------------------------------------
(* The invariant *)

\* Every step of the gateway's world keeps IInv.
LEMMA Inductive == Spec => []IInv
  <1>1. Init => IInv
    BY Devices DEF Init, IInv, TypeOK, Uncached, Once, Blank, RegistersAt, Registry, CacheFresh,
                   RequestsLand
  <1>2. TypeOK' /\ Registry' => Looked'
    BY LookupFacts, PTL
  <1>3. IInv /\ [Next]_vars => IInv'
    <2> SUFFICES ASSUME IInv, [Next]_vars PROVE IInv'
      OBVIOUS
    <2> USE DEF IInv
    <2>1. CASE UNCHANGED vars
      BY <2>1 DEF vars, TypeOK, Once, Blank, RegistersAt, Registry, CacheFresh, Found,
                  RequestsLand
    <2>2. CASE Environment
      <3>1. TypeOK' /\ UNCHANGED <<tableVars, cacheVars>>
        BY <2>2, EnvironmentTyped
      <3>2. Registry' /\ CacheFresh'
        BY <3>1 DEF Registry, CacheFresh, Found, tableVars, cacheVars
      <3> QED
        BY <2>2, <3>1, <3>2, EnvironmentOnce, EnvironmentLands
    <2>3. CASE Dispatch
      <3>1. TypeOK' /\ Once' /\ Registry'
        BY <2>3, DispatchTyped, DispatchOnce, DispatchRegistry
      <3>2. Looked /\ Looked'
        BY <1>2, <3>1, LookupFacts
      <3> QED
        BY <2>3, <3>1, <3>2, DispatchCache, DispatchLands
    <2> QED
      BY <2>1, <2>2, <2>3 DEF Next, Environment
  <1> QED
    BY <1>1, <1>3, PTL DEF Spec

\* devlist and applist, which reg_dev and unreg_dev change apart, never
\* disagree: the device a client can name belongs to a registered APP that
\* lists it, however registrations, exits and requests interleave.
THEOREM InStep == Spec => []Registry
  <1>1. IInv => Registry
    BY DEF IInv
  <1> QED
    BY <1>1, Inductive, PTL

\* invalidate_cache is called wherever it has to be: no client is served by a
\* handler made for a cell that was unregistered since.
THEOREM Fresh == Spec => []CacheFresh
  <1>1. IInv => CacheFresh
    BY DEF IInv
  <1> QED
    BY <1>1, Inductive, PTL

\* A request reaches no cell but the one of the APP it names, for a command
\* that APP registered.
THEOREM Landing == Spec => []RequestsLand
  <1>1. IInv => RequestsLand
    BY DEF IInv
  <1> QED
    BY <1>1, Inductive, PTL

-----------------------------------------------------------------------------
(* What can be reached                                                      *)

\* What a cell registers, and what it says of one of its devices.
Of(m, a) == m.op # "request" /\ m.from = a
About(m, a, s) == m.op \in {"reg_sub", "unreg_sub"} /\ m.from = a /\ m.sub = s

\* What a cell has sent lies in the mailbox between its registration and its
\* unregistration.
Framing(a) ==
    /\ cell[a] = "off" => known[a] = {} /\ \A i \in DOMAIN box : ~ Of(box[i], a)
    /\ Alive(a) =>
         /\ \A i \in DOMAIN box : Of(box[i], a) => box[i].op # "unreg_app"
         /\ a \in applist \/ \E i \in DOMAIN box : RegistersAt(a, i)
    /\ cell[a] = "gone" => known[a] = {}
    /\ cell[a] = "gone" /\ (a \in applist \/ \E i \in DOMAIN box : Of(box[i], a)) =>
         \E j \in DOMAIN box : /\ Of(box[j], a) /\ box[j].op = "unreg_app"
                               /\ \A i \in DOMAIN box : Of(box[i], a) => i <= j
    /\ \A i, j \in DOMAIN box : RegistersAt(a, i) /\ Of(box[j], a) => i <= j

\* Of two cells of an APP one has gone, and all it sent precedes what the
\* other sent, whose registration is not done as long as any of that is left.
Follows(a, b) ==
    /\ cell[b] = "gone"
    /\ \A i, j \in DOMAIN box : Of(box[i], b) /\ Of(box[j], a) => i < j
    /\ (\E i \in DOMAIN box : Of(box[i], b)) => \E j \in DOMAIN box : RegistersAt(a, j)
InTurn ==
    \A a, b \in Cell : a # b /\ NameOf[a] = NameOf[b] /\ cell[a] # "off" /\ cell[b] # "off" =>
        Follows(a, b) \/ Follows(b, a)

\* The devices a cell has are those its APP's entry lists, but for what the
\* last message about one of them says.
Telling(a, s) ==
    /\ \A i \in DOMAIN box :
         About(box[i], a, s) /\ (\A j \in DOMAIN box : About(box[j], a, s) => j <= i) =>
             (s \in known[a] <=> box[i].op = "reg_sub")
    /\ (\A i \in DOMAIN box : ~ About(box[i], a, s)) => (s \in known[a] <=> s \in sublist[a])

QInv == /\ \A a \in Cell : Framing(a)
        /\ InTurn
        /\ \A a \in Cell, s \in Sub : Alive(a) => Telling(a, s)

\* Cell a sends m.
Sends(a, m) ==
    /\ m \in Message /\ Of(m, a) /\ Send(m)
    /\ UNCHANGED tableVars
    /\ \A b \in Cell \ {a} : cell'[b] = cell[b] /\ known'[b] = known[b]
    /\ \/ cell[a] = "off" /\ cell'[a] = "up" /\ known'[a] = known[a] /\ m.op = "reg_app"
       \/ Alive(a) /\ cell'[a] = cell[a] /\ m.op \notin {"reg_app", "unreg_app"}
       \/ cell[a] = "told" /\ cell'[a] = "gone" /\ known'[a] = {} /\ m.op = "unreg_app"

\* A message more, at the end.
LEMMA Sent ==
    ASSUME TypeOK, NEW m \in Message, Send(m)
    PROVE  \E e \in Nat : /\ e \notin DOMAIN box /\ DOMAIN box' = DOMAIN box \cup {e}
                          /\ \A i \in DOMAIN box : box'[i] = box[i] /\ i \in Nat /\ i < e
                          /\ box'[e] = m
                          /\ DOMAIN box = 1..Len(box) /\ DOMAIN box' = 1..Len(box')
  <1>1. box \in Seq(Message) /\ box' = Append(box, m)
    BY DEF TypeOK, Send
  <1>2. /\ Append(box, m) \in Seq(Message) /\ Len(Append(box, m)) = Len(box) + 1
        /\ \A i \in 1..Len(box) : Append(box, m)[i] = box[i]
        /\ Append(box, m)[Len(box) + 1] = m /\ Len(box) \in Nat
    BY <1>1, Appended
  <1>3. DOMAIN box = 1..Len(box) /\ DOMAIN box' = 1..Len(box')
    BY <1>1, <1>2
  <1> QED
    BY <1>1, <1>2, <1>3

LEMMA SendsFramed ==
    ASSUME TypeOK, QInv, NEW a \in Cell, NEW m, Sends(a, m)
    PROVE  \A b \in Cell : Framing(b)'
  <1>1. PICK e \in Nat : /\ e \notin DOMAIN box /\ DOMAIN box' = DOMAIN box \cup {e}
                         /\ \A i \in DOMAIN box : box'[i] = box[i] /\ i \in Nat /\ i < e
                         /\ box'[e] = m
                         /\ DOMAIN box = 1..Len(box) /\ DOMAIN box' = 1..Len(box')
    BY Sent DEF Sends
  <1>2. applist' = applist
    BY DEF Sends, tableVars
  <1>3. ASSUME NEW b \in Cell \ {a}
        PROVE  Framing(b)'
    <2>1. \A i \in DOMAIN box' : Of(box'[i], b) => i \in DOMAIN box /\ Of(box[i], b)
      BY <1>1 DEF Sends, Of
    <2>2. \A i \in DOMAIN box : Of(box[i], b) => Of(box'[i], b)
      BY <1>1
    <2>3. \A i : RegistersAt(b, i)' <=> RegistersAt(b, i)
      BY <1>1 DEF Sends, RegistersAt, Of
    <2>4. Framing(b) /\ cell'[b] = cell[b] /\ known'[b] = known[b]
      BY DEF QInv, Sends
    <2>5. cell[b] = "off" => known'[b] = {} /\ \A i \in DOMAIN box' : ~ Of(box'[i], b)
      BY <2>1, <2>4 DEF Framing
    <2>6. ASSUME Alive(b)
          PROVE  /\ \A i \in DOMAIN box' : Of(box'[i], b) => box'[i].op # "unreg_app"
                 /\ b \in applist' \/ \E i \in DOMAIN box' : RegistersAt(b, i)'
      BY <1>1, <1>2, <2>1, <2>3, <2>4, <2>6 DEF Framing
    <2>7. ASSUME cell[b] = "gone", b \in applist' \/ \E i \in DOMAIN box' : Of(box'[i], b)
          PROVE  \E j \in DOMAIN box' : /\ Of(box'[j], b) /\ box'[j].op = "unreg_app"
                                        /\ \A i \in DOMAIN box' : Of(box'[i], b) => i <= j
      <3>1. PICK j \in DOMAIN box : /\ Of(box[j], b) /\ box[j].op = "unreg_app"
                                    /\ \A i \in DOMAIN box : Of(box[i], b) => i <= j
        BY <1>2, <2>1, <2>4, <2>7 DEF Framing
      <3> QED
        BY <1>1, <2>1, <2>2, <3>1
    <2>8. \A i, j \in DOMAIN box' : RegistersAt(b, i)' /\ Of(box'[j], b) => i <= j
      BY <1>1, <2>1, <2>3, <2>4 DEF Framing, RegistersAt
    <2>9. cell[b] = "gone" => known'[b] = {}
      BY <2>4 DEF Framing
    <2> QED
      BY <2>4, <2>5, <2>6, <2>7, <2>8, <2>9 DEF Framing, Alive
  <1>4. Framing(a)'
    <2>1. \A i \in DOMAIN box' : Of(box'[i], a) <=> i = e \/ (i \in DOMAIN box /\ Of(box[i], a))
      BY <1>1 DEF Sends
    <2>2. Framing(a)
      BY DEF QInv
    <2>3. \A i \in DOMAIN box : RegistersAt(a, i)' <=> RegistersAt(a, i)
      BY <1>1 DEF RegistersAt
    <2>4. RegistersAt(a, e)' <=> m.op = "reg_app"
      BY <1>1 DEF Sends, RegistersAt, Of
    <2>5. \A i \in DOMAIN box' : i <= e
      BY <1>1
    <2>6. CASE cell[a] = "off" /\ cell'[a] = "up" /\ m.op = "reg_app"
      <3>1. \A i \in DOMAIN box : ~ Of(box[i], a)
        BY <2>2, <2>6 DEF Framing
      <3>2. \A i \in DOMAIN box' : Of(box'[i], a) => i = e
        BY <2>1, <3>1
      <3>3. \A i \in DOMAIN box' : RegistersAt(a, i)' => i = e
        BY <2>1, <3>1, <2>3, <1>1 DEF RegistersAt, Of
      <3> QED
        BY <1>1, <2>4, <2>6, <3>2, <3>3 DEF Framing, Alive
    <2>7. CASE Alive(a) /\ cell'[a] = cell[a] /\ m.op \notin {"reg_app", "unreg_app"}
      <3>1. /\ \A i \in DOMAIN box : Of(box[i], a) => box[i].op # "unreg_app"
            /\ a \in applist \/ \E i \in DOMAIN box : RegistersAt(a, i)
            /\ \A i, j \in DOMAIN box : RegistersAt(a, i) /\ Of(box[j], a) => i <= j
        BY <2>2, <2>7 DEF Framing
      <3>2. \A i \in DOMAIN box' : Of(box'[i], a) => box'[i].op # "unreg_app"
        BY <1>1, <2>1, <2>7, <3>1
      <3>3. a \in applist' \/ \E i \in DOMAIN box' : RegistersAt(a, i)'
        BY <1>1, <1>2, <2>3, <3>1
      <3>4. \A i, j \in DOMAIN box' : RegistersAt(a, i)' /\ Of(box'[j], a) => i <= j
        BY <1>1, <2>1, <2>3, <2>4, <2>5, <2>7, <3>1
      <3> QED
        BY <2>7, <3>2, <3>3, <3>4 DEF Framing, Alive
    <2>8. CASE cell[a] = "told" /\ cell'[a] = "gone" /\ known'[a] = {} /\ m.op = "unreg_app"
      <3>1. \A i, j \in DOMAIN box : RegistersAt(a, i) /\ Of(box[j], a) => i <= j
        BY <2>2 DEF Framing
      <3>2. \A i, j \in DOMAIN box' : RegistersAt(a, i)' /\ Of(box'[j], a) => i <= j
        BY <1>1, <2>1, <2>3, <2>4, <2>5, <2>8, <3>1
      <3>3. e \in DOMAIN box' /\ Of(box'[e], a) /\ box'[e].op = "unreg_app"
        BY <1>1, <2>1, <2>8
      <3> QED
        BY <2>5, <2>8, <3>2, <3>3 DEF Framing, Alive
    <2> QED
      BY <2>6, <2>7, <2>8 DEF Sends
  <1> QED
    BY <1>3, <1>4

LEMMA SendsInTurn ==
    ASSUME TypeOK, QInv, NEW a \in Cell, NEW m, Sends(a, m),
           cell[a] = "off" => \A b \in Cell \ {a} : NameOf[b] = NameOf[a] => cell[b] \in {"off", "gone"}
    PROVE  InTurn'
  <1>1. PICK e \in Nat : /\ e \notin DOMAIN box /\ DOMAIN box' = DOMAIN box \cup {e}
                         /\ \A i \in DOMAIN box : box'[i] = box[i] /\ i \in Nat /\ i < e
                         /\ box'[e] = m
                         /\ DOMAIN box = 1..Len(box) /\ DOMAIN box' = 1..Len(box')
    BY Sent DEF Sends
  <1>2. \A b \in Cell \ {a}, i \in DOMAIN box' : Of(box'[i], b) <=> i \in DOMAIN box /\ Of(box[i], b)
    BY <1>1 DEF Sends, Of
  <1>3. \A i \in DOMAIN box' : Of(box'[i], a) <=> i = e \/ (i \in DOMAIN box /\ Of(box[i], a))
    BY <1>1 DEF Sends
  <1>4. \A b \in Cell, i \in DOMAIN box : RegistersAt(b, i) => RegistersAt(b, i)'
    BY <1>1 DEF RegistersAt
  <1>5. \A b \in Cell \ {a} : cell'[b] = cell[b]
    BY DEF Sends
  <1>6. ASSUME NEW b \in Cell \ {a}, NEW c \in Cell \ {a}, Follows(b, c)
        PROVE  Follows(b, c)'
    <2>1. \A i, j \in DOMAIN box' : Of(box'[i], c) /\ Of(box'[j], b) => i < j
      BY <1>2, <1>6 DEF Follows
    <2>2. (\E i \in DOMAIN box' : Of(box'[i], c)) => \E j \in DOMAIN box' : RegistersAt(b, j)'
      BY <1>1, <1>2, <1>4, <1>6 DEF Follows
    <2> QED
      BY <1>5, <1>6, <2>1, <2>2 DEF Follows
  <1>7. ASSUME NEW b \in Cell \ {a}, NameOf[b] = NameOf[a], cell[b] # "off"
        PROVE  Follows(a, b)'
    <2>1. CASE cell[a] = "off"
      <3>1. cell'[b] = "gone" /\ m.op = "reg_app"
        BY <1>5, <1>7, <2>1 DEF Sends, Alive
      <3>2. \A i \in DOMAIN box : ~ Of(box[i], a)
        BY <2>1 DEF QInv, Framing
      <3>3. \A i, j \in DOMAIN box' : Of(box'[i], b) /\ Of(box'[j], a) => i < j
        BY <1>1, <1>2, <1>3, <3>2
      <3>4. e \in DOMAIN box' /\ RegistersAt(a, e)'
        BY <1>1, <3>1 DEF RegistersAt, Sends, Of
      <3> QED
        BY <3>1, <3>3, <3>4 DEF Follows
    <2>2. CASE cell[a] # "off"
      <3>1. Follows(a, b)
        <4>1. cell[a] # "gone"
          BY <2>2 DEF Sends, Alive
        <4> QED
          BY <1>7, <2>2, <4>1 DEF QInv, InTurn, Follows
      <3>2. \A i, j \in DOMAIN box' : Of(box'[i], b) /\ Of(box'[j], a) => i < j
        BY <1>1, <1>2, <1>3, <3>1 DEF Follows
      <3>3. (\E i \in DOMAIN box' : Of(box'[i], b)) => \E j \in DOMAIN box' : RegistersAt(a, j)'
        BY <1>1, <1>2, <1>4, <3>1 DEF Follows
      <3> QED
        BY <1>5, <3>1, <3>2, <3>3 DEF Follows
    <2> QED
      BY <2>1, <2>2
  <1>8. ASSUME NEW b \in Cell, NEW c \in Cell, b # c, NameOf[b] = NameOf[c],
               cell'[b] # "off", cell'[c] # "off"
        PROVE  Follows(b, c)' \/ Follows(c, b)'
    <2>1. CASE b = a
      BY <1>5, <1>7, <1>8, <2>1
    <2>2. CASE c = a
      BY <1>5, <1>7, <1>8, <2>2
    <2>3. CASE b # a /\ c # a
      <3>1. Follows(b, c) \/ Follows(c, b)
        BY <1>5, <1>8, <2>3 DEF QInv, InTurn
      <3> QED
        BY <1>6, <2>3, <3>1
    <2> QED
      BY <2>1, <2>2, <2>3
  <1> QED
    BY <1>8 DEF InTurn

LEMMA SendsTold ==
    ASSUME TypeOK, Once, QInv, NEW a \in Cell, NEW m, Sends(a, m),
           \A s \in Sub : IF About(m, a, s) THEN s \in known'[a] <=> m.op = "reg_sub"
                          ELSE Alive(a) /\ Alive(a)' => (s \in known'[a] <=> s \in known[a])
    PROVE  \A b \in Cell, s \in Sub : Alive(b)' => Telling(b, s)'
  <1>1. PICK e \in Nat : /\ e \notin DOMAIN box /\ DOMAIN box' = DOMAIN box \cup {e}
                         /\ \A i \in DOMAIN box : box'[i] = box[i] /\ i \in Nat /\ i < e
                         /\ box'[e] = m
    BY Sent DEF Sends
  <1>2. sublist' = sublist
    BY DEF Sends, tableVars
  <1>3. ASSUME NEW b \in Cell, NEW s \in Sub, Alive(b), ~ About(m, b, s),
               s \in known'[b] <=> s \in known[b]
        PROVE  Telling(b, s)'
    <2>1. \A i \in DOMAIN box' : About(box'[i], b, s) <=> i \in DOMAIN box /\ About(box[i], b, s)
      BY <1>1, <1>3
    <2>2. Telling(b, s)
      BY <1>3 DEF QInv
    <2>3. ASSUME NEW i \in DOMAIN box', About(box'[i], b, s),
                 \A j \in DOMAIN box' : About(box'[j], b, s) => j <= i
          PROVE  s \in known'[b] <=> box'[i].op = "reg_sub"
      <3>1. i \in DOMAIN box /\ \A j \in DOMAIN box : About(box[j], b, s) => j <= i
        BY <1>1, <2>1, <2>3
      <3> QED
        BY <1>1, <1>3, <2>1, <2>2, <2>3, <3>1 DEF Telling
    <2>4. ASSUME \A i \in DOMAIN box' : ~ About(box'[i], b, s)
          PROVE  s \in known'[b] <=> s \in sublist'[b]
      <3>1. \A i \in DOMAIN box : ~ About(box[i], b, s)
        BY <1>1, <2>1, <2>4
      <3> QED
        BY <1>2, <1>3, <2>2, <3>1 DEF Telling
    <2> QED
      BY <2>3, <2>4 DEF Telling
  <1>4. ASSUME NEW s \in Sub, About(m, a, s)
        PROVE  Telling(a, s)'
    <2>1. About(box'[e], a, s) /\ e \in DOMAIN box'
      BY <1>1, <1>4
    <2>2. ASSUME NEW i \in DOMAIN box', \A j \in DOMAIN box' : About(box'[j], a, s) => j <= i
          PROVE  i = e
      BY <1>1, <2>1, <2>2
    <2>3. s \in known'[a] <=> box'[e].op = "reg_sub"
      BY <1>1, <1>4
    <2> QED
      BY <2>1, <2>2, <2>3 DEF Telling
  <1>5. ASSUME NEW s \in Sub, cell[a] = "off"
        PROVE  Telling(a, s)'
    <2>1. m.op = "reg_app" /\ known'[a] = {}
      BY <1>5 DEF Sends, Alive, QInv, Framing
    <2>2. \A i \in DOMAIN box' : ~ About(box'[i], a, s)
      BY <1>1, <1>5, <2>1 DEF QInv, Framing, Of, About
    <2>3. s \notin sublist'[a]
      BY <1>2, <1>5 DEF Once, Blank
    <2> QED
      BY <2>1, <2>2, <2>3 DEF Telling
  <1> QED
    BY <1>3, <1>4, <1>5 DEF Sends, Alive, About, Of

\* The first message is taken; the others move up.
LEMMA MovesUp ==
    ASSUME TypeOK, box # <<>>, box' = Tail(box)
    PROVE  /\ 1 \in DOMAIN box /\ box[1] = Head(box) /\ Head(box) \in Message
           /\ DOMAIN box = 1..Len(box) /\ DOMAIN box' = 1..Len(box') /\ Len(box) \in Nat
           /\ \A i \in DOMAIN box' : /\ i \in Nat /\ i + 1 \in DOMAIN box
                                     /\ box'[i] = box[i + 1]
           /\ \A j \in DOMAIN box : \/ j = 1
                                    \/ \E i \in DOMAIN box' : j = i + 1 /\ box'[i] = box[j]
  <1>1. /\ Head(box) \in Message /\ Head(box) = box[1] /\ Tail(box) \in Seq(Message)
        /\ Len(box) \in Nat \ {0} /\ Len(Tail(box)) = Len(box) - 1
        /\ \A i \in 1..Len(Tail(box)) : Tail(box)[i] = box[i + 1]
    BY Taken DEF TypeOK
  <1>2. DOMAIN box = 1..Len(box) /\ DOMAIN box' = 1..Len(box')
    BY <1>1 DEF TypeOK
  <1>3. ASSUME NEW j \in DOMAIN box, j # 1
        PROVE  \E i \in DOMAIN box' : j = i + 1 /\ box'[i] = box[j]
    <2>1. j - 1 \in DOMAIN box' /\ j = (j - 1) + 1 /\ j - 1 \in 1..Len(Tail(box))
      BY <1>1, <1>2, <1>3
    <2>2. box'[j - 1] = box[(j - 1) + 1]
      BY <1>1, <2>1
    <2> QED
      BY <2>1, <2>2
  <1> QED
    BY <1>1, <1>2, <1>3

\* A registration comes first only where no other cell has the name: the
\* registry takes it.
LEMMA NameFree ==
    ASSUME TypeOK, Once, Registry, QInv, NEW a \in Cell, 1 \in DOMAIN box, RegistersAt(a, 1)
    PROVE  devlist[NameOf[a]] = None
  <1> SUFFICES ASSUME devlist[NameOf[a]] # None PROVE FALSE
    OBVIOUS
  <1>1. PICK b \in Cell : b \in applist /\ NameOf[b] = NameOf[a]
    BY RegistryFacts, Devices DEF TypeOK
  <1>2. Of(box[1], a)
    BY DEF RegistersAt, Of
  <1>3. a \notin applist /\ cell[a] # "off"
    BY DEF Once, Blank, RegistersAt
  <1>4. b # a /\ cell[b] # "off"
    BY <1>1, <1>3 DEF Once, Blank
  <1>5. CASE Follows(a, b)
    <2>1. PICK j \in DOMAIN box : Of(box[j], b)
      BY <1>1, <1>5 DEF Follows, QInv, Framing
    <2>2. j < 1
      BY <1>2, <1>5, <2>1 DEF Follows
    <2> QED
      BY <2>1, <2>2 DEF TypeOK
  <1>6. CASE Follows(b, a)
    <2>1. PICK j \in DOMAIN box : RegistersAt(b, j)
      BY <1>2, <1>6 DEF Follows
    <2> QED
      BY <1>1, <2>1 DEF Once, Blank, RegistersAt
  <1> QED
    BY <1>1, <1>3, <1>4, <1>5, <1>6 DEF QInv, InTurn

\* What a message does to the entry of a cell.
LEMMA Entries ==
    ASSUME TypeOK, Once, Registry, QInv, Dispatch, NEW a \in Cell
    PROVE  /\ a \in applist' <=> IF ~ Of(Head(box), a) THEN a \in applist
                                 ELSE IF Head(box).op = "reg_app" THEN TRUE
                                 ELSE Head(box).op # "unreg_app" /\ a \in applist
           /\ \A s \in Sub : s \in sublist'[a] <=>
                 IF About(Head(box), a, s) /\ a \in applist
                 THEN Head(box).op = "reg_sub" ELSE s \in sublist[a]
  <1>1. /\ 1 \in DOMAIN box /\ box[1] = Head(box) /\ DOMAIN box = 1..Len(box)
        /\ Head(box) \in Message /\ box # <<>>
    BY Dispatches, MovesUp
  <1>2. Sender = Head(box).from
    BY DEF Sender
  <1>3. CASE RegApp
    <2>1. Head(box).op = "reg_app" /\ Sender \in Cell
      BY <1>3, TakeTyped DEF RegApp, Take
    <2>2. RegistersAt(Sender, 1)
      BY <1>1, <1>2, <2>1 DEF RegistersAt
    <2>3. devlist[NameOf[Sender]] = None
      BY <1>1, <2>1, <2>2, NameFree
    <2>4. applist' = applist \cup {Sender} /\ sublist' = sublist
      BY <1>3, <2>3 DEF RegApp
    <2> QED
      BY <1>2, <2>1, <2>4 DEF Of, About
  <1>4. CASE RegDevice
    <2> DEFINE r == Head(box).sub
               d == DeviceOf(Sender, r)
    <2>1. Head(box).op = "reg_sub" /\ Sender \in Cell /\ r \in Sub
      BY <1>4, TakeTyped DEF RegDevice, Take
    <2>2. applist' = applist
      BY <1>4 DEF RegDevice, tableVars
    <2>3. CASE devlist[d] # None \/ Sender \notin applist
      <3>1. sublist' = sublist
        BY <1>4, <2>3 DEF RegDevice, tableVars
      <3>2. Sender \in applist => r \in sublist[Sender]
        BY <2>1, <2>3, RegistryFacts DEF DeviceOf
      <3> QED
        BY <1>2, <2>1, <2>2, <3>1, <3>2 DEF Of, About
    <2>4. CASE ~ (devlist[d] # None \/ Sender \notin applist)
      <3>1. sublist' = [sublist EXCEPT ![Sender] = sublist[Sender] \cup {r}]
        BY <1>4, <2>4 DEF RegDevice
      <3>2. sublist' = [b \in Cell |-> IF b = Sender THEN sublist[Sender] \cup {r} ELSE sublist[b]]
        BY <2>1, <3>1 DEF TypeOK
      <3>3. sublist'[a] = IF a = Sender THEN sublist[a] \cup {r} ELSE sublist[a]
        BY <3>2
      <3> QED
        BY <1>2, <2>1, <2>2, <2>4, <3>3 DEF Of, About
    <2> QED
      BY <2>3, <2>4
  <1>5. CASE UnregDevice
    <2> DEFINE r == Head(box).sub
    <2>1. Head(box).op = "unreg_sub" /\ Sender \in Cell /\ r \in Sub
      BY <1>5, TakeTyped DEF UnregDevice, Take
    <2>2. applist' = applist
      BY <1>5 DEF UnregDevice, tableVars
    <2>3. CASE Sender \notin applist
      <3>1. sublist' = sublist
        BY <1>5, <2>3 DEF UnregDevice, tableVars
      <3> QED
        BY <1>2, <2>1, <2>2, <2>3, <3>1 DEF Of, About
    <2>4. CASE Sender \in applist
      <3>1. sublist' = [sublist EXCEPT ![Sender] = sublist[Sender] \ {r}]
        BY <1>5, <2>4 DEF UnregDevice
      <3>2. sublist' = [b \in Cell |-> IF b = Sender THEN sublist[Sender] \ {r} ELSE sublist[b]]
        BY <2>1, <3>1 DEF TypeOK
      <3>3. sublist'[a] = IF a = Sender THEN sublist[a] \ {r} ELSE sublist[a]
        BY <3>2
      <3> QED
        BY <1>2, <2>1, <2>2, <2>4, <3>3 DEF Of, About
    <2> QED
      BY <2>3, <2>4
  <1>6. CASE UnregApp
    <2>1. Head(box).op = "unreg_app" /\ sublist' = sublist
      BY <1>6 DEF UnregApp, Take, tableVars
    <2>2. applist' = applist \ {Sender}
      BY <1>6 DEF UnregApp, tableVars
    <2> QED
      BY <1>2, <2>1, <2>2 DEF Of, About
  <1>7. CASE RegCommand
    <2>1. Head(box).op = "reg_cmd" /\ applist' = applist /\ sublist' = sublist
      BY <1>7 DEF RegCommand, Take
    <2> QED
      BY <2>1 DEF Of, About
  <1>8. CASE ServeHelp \/ Serve \/ ServeOwn
    <2>1. Head(box).op = "request" /\ applist' = applist /\ sublist' = sublist
      BY <1>8 DEF ServeHelp, Serve, ServeOwn, Take, tableVars
    <2> QED
      BY <2>1 DEF Of, About
  <1> QED
    BY <1>3, <1>4, <1>5, <1>6, <1>7, <1>8 DEF Dispatch

LEMMA DispatchFramed ==
    ASSUME TypeOK, Once, Registry, QInv, Dispatch, NEW a \in Cell
    PROVE  Framing(a)'
  <1> DEFINE h == Head(box)
  <1>1. /\ 1 \in DOMAIN box /\ box[1] = h
        /\ DOMAIN box = 1..Len(box) /\ DOMAIN box' = 1..Len(box')
        /\ \A i \in DOMAIN box' : i \in Nat /\ i + 1 \in DOMAIN box /\ box'[i] = box[i + 1]
        /\ \A j \in DOMAIN box : j = 1 \/ \E i \in DOMAIN box' : j = i + 1 /\ box'[i] = box[j]
        /\ \A j \in DOMAIN box : j \in Nat /\ 1 <= j
    BY Dispatches, MovesUp
  <1>2. cell' = cell /\ known' = known
    <2>1. known' = known
      BY DEF Dispatch, RegApp, RegDevice, RegCommand, UnregDevice, UnregApp, ServeHelp, Serve,
             ServeOwn, cellVars
    <2> QED
      BY <2>1, Dispatches
  <1>3. Framing(a)
    BY DEF QInv
  <1>4. a \in applist' <=> IF ~ Of(h, a) THEN a \in applist
                           ELSE IF h.op = "reg_app" THEN TRUE
                           ELSE h.op # "unreg_app" /\ a \in applist
    BY Entries
  <1> HIDE DEF h
  <1>5. \A i \in DOMAIN box' : RegistersAt(a, i)' <=> RegistersAt(a, i + 1)
    BY <1>1 DEF RegistersAt
  <1>6. cell'[a] = "off" => known'[a] = {} /\ \A i \in DOMAIN box' : ~ Of(box'[i], a)
    BY <1>1, <1>2, <1>3 DEF Framing
  <1>7. ASSUME Alive(a)
        PROVE  /\ \A i \in DOMAIN box' : Of(box'[i], a) => box'[i].op # "unreg_app"
               /\ a \in applist' \/ \E i \in DOMAIN box' : RegistersAt(a, i)'
    <2>1. /\ \A i \in DOMAIN box : Of(box[i], a) => box[i].op # "unreg_app"
          /\ a \in applist \/ \E i \in DOMAIN box : RegistersAt(a, i)
      BY <1>3, <1>7 DEF Framing
    <2>2. \A i \in DOMAIN box' : Of(box'[i], a) => box'[i].op # "unreg_app"
      BY <1>1, <2>1
    <2>3. CASE a \in applist
      BY <1>1, <1>4, <2>1, <2>2, <2>3
    <2>4. CASE a \notin applist
      <3>1. PICK i \in DOMAIN box : RegistersAt(a, i)
        BY <2>1, <2>4
      <3>2. CASE i = 1
        BY <1>1, <1>4, <2>2, <3>1, <3>2 DEF RegistersAt, Of
      <3>3. CASE i # 1
        <4>1. PICK k \in DOMAIN box' : i = k + 1
          BY <1>1, <3>3
        <4> QED
          BY <1>5, <2>2, <3>1, <4>1
      <3> QED
        BY <3>2, <3>3
    <2> QED
      BY <2>3, <2>4
  <1>8. cell'[a] = "gone" => known'[a] = {}
    BY <1>2, <1>3 DEF Framing
  <1>9. ASSUME cell[a] = "gone", a \in applist' \/ \E i \in DOMAIN box' : Of(box'[i], a)
        PROVE  \E j \in DOMAIN box' : /\ Of(box'[j], a) /\ box'[j].op = "unreg_app"
                                      /\ \A i \in DOMAIN box' : Of(box'[i], a) => i <= j
    <2>1. a \in applist \/ \E i \in DOMAIN box : Of(box[i], a)
      BY <1>1, <1>4, <1>9
    <2>2. PICK j \in DOMAIN box : /\ Of(box[j], a) /\ box[j].op = "unreg_app"
                                  /\ \A i \in DOMAIN box : Of(box[i], a) => i <= j
      BY <1>3, <1>9, <2>1 DEF Framing
    <2>3. j # 1
      <3> SUFFICES ASSUME j = 1 PROVE FALSE
        OBVIOUS
      <3>1. Of(h, a) /\ h.op = "unreg_app"
        BY <1>1, <2>2
      <3>2. PICK i \in DOMAIN box' : Of(box'[i], a)
        BY <1>4, <1>9, <3>1
      <3>3. i + 1 <= 1
        BY <1>1, <2>2, <3>2
      <3> QED
        BY <1>1, <3>2, <3>3
    <2>4. PICK k \in DOMAIN box' : j = k + 1 /\ box'[k] = box[j]
      BY <1>1, <2>3
    <2>5. ASSUME NEW i \in DOMAIN box', Of(box'[i], a)
          PROVE  i <= k
      <3>1. i + 1 <= k + 1
        BY <1>1, <2>2, <2>4, <2>5
      <3> QED
        BY <1>1, <3>1
    <2> QED
      BY <2>2, <2>4, <2>5
  <1>10. ASSUME NEW i \in DOMAIN box', NEW j \in DOMAIN box', RegistersAt(a, i)', Of(box'[j], a)
         PROVE  i <= j
    <2>1. i + 1 <= j + 1
      BY <1>1, <1>3, <1>5, <1>10 DEF Framing
    <2> QED
      BY <1>1, <2>1
  <1> QED
    BY <1>2, <1>6, <1>7, <1>8, <1>9, <1>10 DEF Framing, Alive

LEMMA DispatchInTurn ==
    ASSUME TypeOK, QInv, Dispatch
    PROVE  InTurn'
  <1>1. /\ DOMAIN box = 1..Len(box) /\ DOMAIN box' = 1..Len(box')
        /\ \A i \in DOMAIN box' : i \in Nat /\ i + 1 \in DOMAIN box /\ box'[i] = box[i + 1]
        /\ \A j \in DOMAIN box : j = 1 \/ \E i \in DOMAIN box' : j = i + 1 /\ box'[i] = box[j]
        /\ cell' = cell
    BY Dispatches, MovesUp
  <1>2. ASSUME NEW a \in Cell, NEW b \in Cell, Follows(a, b)
        PROVE  Follows(a, b)'
    <2>1. ASSUME NEW i \in DOMAIN box', NEW j \in DOMAIN box', Of(box'[i], b), Of(box'[j], a)
          PROVE  i < j
      <3>1. i + 1 < j + 1
        BY <1>1, <1>2, <2>1 DEF Follows
      <3> QED
        BY <1>1, <3>1
    <2>2. ASSUME NEW i \in DOMAIN box', Of(box'[i], b)
          PROVE  \E j \in DOMAIN box' : RegistersAt(a, j)'
      <3>1. PICK j \in DOMAIN box : RegistersAt(a, j)
        BY <1>1, <1>2, <2>2 DEF Follows
      <3>2. Of(box[j], a)
        BY <3>1 DEF RegistersAt, Of
      <3>3. i + 1 < j
        BY <1>1, <1>2, <2>2, <3>1, <3>2 DEF Follows
      <3>4. PICK k \in DOMAIN box' : j = k + 1 /\ box'[k] = box[j]
        BY <1>1, <3>3
      <3>5. RegistersAt(a, k)'
        BY <1>1, <3>1, <3>4 DEF RegistersAt
      <3> QED
        BY <3>5
    <2> QED
      BY <1>1, <1>2, <2>1, <2>2 DEF Follows
  <1> QED
    BY <1>1, <1>2 DEF QInv, InTurn

LEMMA DispatchTold ==
    ASSUME TypeOK, Once, Registry, QInv, Dispatch, NEW a \in Cell, NEW s \in Sub, Alive(a)
    PROVE  Telling(a, s)'
  <1> DEFINE h == Head(box)
  <1>1. /\ 1 \in DOMAIN box /\ box[1] = h /\ DOMAIN box = 1..Len(box)
        /\ \A i \in DOMAIN box' : i \in Nat /\ i + 1 \in DOMAIN box /\ box'[i] = box[i + 1]
        /\ \A j \in DOMAIN box : j = 1 \/ \E i \in DOMAIN box' : j = i + 1 /\ box'[i] = box[j]
        /\ \A j \in DOMAIN box : j \in Nat /\ 1 <= j
    BY Dispatches, MovesUp
  <1>2. known' = known
    BY DEF Dispatch, RegApp, RegDevice, RegCommand, UnregDevice, UnregApp, ServeHelp, Serve,
           ServeOwn, cellVars
  <1>3. Telling(a, s)
    BY DEF QInv
  <1>4. s \in sublist'[a] <=> IF About(h, a, s) /\ a \in applist
                              THEN h.op = "reg_sub" ELSE s \in sublist[a]
    BY Entries
  <1> HIDE DEF h
  <1>5. About(h, a, s) => a \in applist
    <2> SUFFICES ASSUME About(h, a, s), a \notin applist PROVE FALSE
      OBVIOUS
    <2>1. PICK i \in DOMAIN box : RegistersAt(a, i)
      BY DEF QInv, Framing
    <2>2. i <= 1
      BY <1>1, <2>1 DEF QInv, Framing, About, Of
    <2>3. i = 1
      BY <1>1, <2>2
    <2> QED
      BY <1>1, <2>1, <2>3 DEF RegistersAt, About
  <1>6. ASSUME NEW i \in DOMAIN box', About(box'[i], a, s),
               \A j \in DOMAIN box' : About(box'[j], a, s) => j <= i
        PROVE  s \in known'[a] <=> box'[i].op = "reg_sub"
    <2>1. i + 1 \in DOMAIN box /\ About(box[i + 1], a, s)
      BY <1>1, <1>6
    <2>2. ASSUME NEW j \in DOMAIN box, About(box[j], a, s)
          PROVE  j <= i + 1
      <3>1. CASE j = 1
        BY <1>1, <3>1
      <3>2. CASE j # 1
        <4>1. PICK k \in DOMAIN box' : j = k + 1 /\ box'[k] = box[j]
          BY <1>1, <3>2
        <4>2. k <= i
          BY <1>6, <2>2, <4>1
        <4> QED
          BY <1>1, <4>1, <4>2
      <3> QED
        BY <3>1, <3>2
    <2>3. s \in known[a] <=> box[i + 1].op = "reg_sub"
      BY <1>3, <2>1, <2>2 DEF Telling
    <2> QED
      BY <1>1, <1>2, <2>3
  <1>7. ASSUME \A i \in DOMAIN box' : ~ About(box'[i], a, s)
        PROVE  s \in known'[a] <=> s \in sublist'[a]
    <2>1. \A j \in DOMAIN box : About(box[j], a, s) => j = 1
      BY <1>1, <1>7
    <2>2. CASE About(h, a, s)
      <3>1. s \in known[a] <=> box[1].op = "reg_sub"
        BY <1>1, <1>3, <2>1, <2>2 DEF Telling
      <3> QED
        BY <1>1, <1>2, <1>4, <1>5, <2>2, <3>1
    <2>3. CASE ~ About(h, a, s)
      <3>1. \A j \in DOMAIN box : ~ About(box[j], a, s)
        BY <1>1, <2>1, <2>3
      <3> QED
        BY <1>2, <1>3, <1>4, <2>3, <3>1 DEF Telling
    <2> QED
      BY <2>2, <2>3
  <1> QED
    BY <1>6, <1>7 DEF Telling

\* What goes on outside the gateway keeps all of it, where APPs of one name
\* follow each other.
LEMMA EnvironmentQ ==
    ASSUME Ordered, TypeOK, Once, QInv, Environment
    PROVE  QInv'
  <1>1. ASSUME NEW a \in Cell, NEW m, Sends(a, m),
               cell[a] = "off" => \A b \in Cell \ {a} : NameOf[b] = NameOf[a] => cell[b] \in {"off", "gone"},
               \A s \in Sub : IF About(m, a, s) THEN s \in known'[a] <=> m.op = "reg_sub"
                              ELSE Alive(a) /\ Alive(a)' => (s \in known'[a] <=> s \in known[a])
        PROVE  QInv'
    <2>1. \A b \in Cell : Framing(b)'
      BY <1>1, SendsFramed
    <2>2. InTurn'
      BY <1>1, SendsInTurn
    <2>3. \A b \in Cell, s \in Sub : Alive(b)' => Telling(b, s)'
      BY <1>1, SendsTold
    <2> QED
      BY <2>1, <2>2, <2>3 DEF QInv
  <1>2. ASSUME NEW a \in Cell, Launch(a)
        PROVE  QInv'
    <2> DEFINE m == [op |-> "reg_app", from |-> a]
    <2>1. m \in Message /\ Of(m, a) /\ m.op = "reg_app"
      BY DEF Message, Of
    <2>2. /\ Send(m) /\ UNCHANGED tableVars /\ known' = known
          /\ cell[a] = "off" /\ cell' = [cell EXCEPT ![a] = "up"]
          /\ \A b \in Cell \ {a} : NameOf[b] = NameOf[a] => cell[b] \in {"off", "gone"}
      BY <1>2 DEF Launch
    <2>3. cell'[a] = "up" /\ \A b \in Cell \ {a} : cell'[b] = cell[b]
      BY <2>2 DEF TypeOK
    <2>4. Sends(a, m)
      BY <2>1, <2>2, <2>3 DEF Sends
    <2>5. ~ Alive(a)
      BY <2>2 DEF Alive
    <2>6. \A s \in Sub : ~ About(m, a, s)
      BY <2>1 DEF About
    <2> HIDE DEF m
    <2> QED
      BY <1>1, <2>2, <2>4, <2>5, <2>6
  <1>3. ASSUME NEW a \in Cell, Exit(a)
        PROVE  QInv'
    <2> DEFINE m == [op |-> "unreg_app", from |-> a]
    <2>1. m \in Message /\ Of(m, a) /\ m.op = "unreg_app"
      BY DEF Message, Of
    <2>2. /\ Send(m) /\ UNCHANGED tableVars /\ known' = [known EXCEPT ![a] = {}]
          /\ cell[a] = "told" /\ cell' = [cell EXCEPT ![a] = "gone"]
      BY <1>3 DEF Exit
    <2>3. /\ cell'[a] = "gone" /\ \A b \in Cell \ {a} : cell'[b] = cell[b]
          /\ known'[a] = {} /\ \A b \in Cell \ {a} : known'[b] = known[b]
      BY <2>2 DEF TypeOK
    <2>4. Sends(a, m)
      BY <2>1, <2>2, <2>3 DEF Sends
    <2>5. ~ Alive(a)'
      BY <2>3 DEF Alive
    <2>6. \A s \in Sub : ~ About(m, a, s)
      BY <2>1 DEF About
    <2> HIDE DEF m
    <2> QED
      BY <1>1, <2>2, <2>4, <2>5, <2>6
  <1>4. ASSUME NEW a \in Cell, NEW c \in Cmd, RegCmd(a, c)
        PROVE  QInv'
    <2> DEFINE m == [op |-> "reg_cmd", from |-> a, cmd |-> c]
    <2>1. m \in Message /\ Of(m, a) /\ m.op = "reg_cmd"
      BY DEF Message, Of
    <2>2. Send(m) /\ UNCHANGED tableVars /\ known' = known /\ cell' = cell /\ Alive(a)
      BY <1>4 DEF RegCmd, cellVars
    <2>3. Sends(a, m)
      BY <2>1, <2>2 DEF Sends
    <2>4. \A s \in Sub : ~ About(m, a, s)
      BY <2>1 DEF About
    <2>5. cell[a] # "off"
      BY <2>2 DEF Alive
    <2> HIDE DEF m
    <2> QED
      BY <1>1, <2>2, <2>3, <2>4, <2>5
  <1>5. ASSUME NEW a \in Cell, NEW s \in Sub, RegSub(a, s)
        PROVE  QInv'
    <2> DEFINE m == [op |-> "reg_sub", from |-> a, sub |-> s]
    <2>1. m \in Message /\ Of(m, a) /\ m.op = "reg_sub" /\ m.sub = s
      BY DEF Message, Of
    <2>2. /\ Send(m) /\ UNCHANGED tableVars /\ cell' = cell /\ Alive(a)
          /\ known' = [known EXCEPT ![a] = known[a] \cup {s}]
      BY <1>5 DEF RegSub
    <2>3. known' = [b \in Cell |-> IF b = a THEN known[a] \cup {s} ELSE known[b]]
      BY <2>2 DEF TypeOK
    <2>4. known'[a] = known[a] \cup {s} /\ \A b \in Cell \ {a} : known'[b] = known[b]
      BY <2>3
    <2>5. Sends(a, m)
      BY <2>1, <2>2, <2>4 DEF Sends
    <2>6. \A r \in Sub : About(m, a, r) => r = s
      BY <2>1 DEF About
    <2>7. ASSUME NEW r \in Sub
          PROVE  IF About(m, a, r) THEN r \in known'[a] <=> m.op = "reg_sub"
                 ELSE Alive(a) /\ Alive(a)' => (r \in known'[a] <=> r \in known[a])
      <3>1. About(m, a, s)
        BY <2>1 DEF About
      <3> HIDE DEF m
      <3> QED
        BY <2>1, <2>4, <2>6, <3>1
    <2>8. cell[a] # "off"
      BY <2>2 DEF Alive
    <2> HIDE DEF m
    <2> QED
      BY <1>1, <2>5, <2>7, <2>8
  <1>6. ASSUME NEW a \in Cell, NEW s \in Sub, UnregSub(a, s)
        PROVE  QInv'
    <2> DEFINE m == [op |-> "unreg_sub", from |-> a, sub |-> s]
    <2>1. m \in Message /\ Of(m, a) /\ m.op = "unreg_sub" /\ m.sub = s
      BY DEF Message, Of
    <2>2. /\ Send(m) /\ UNCHANGED tableVars /\ cell' = cell /\ Alive(a)
          /\ known' = [known EXCEPT ![a] = known[a] \ {s}]
      BY <1>6 DEF UnregSub
    <2>3. known' = [b \in Cell |-> IF b = a THEN known[a] \ {s} ELSE known[b]]
      BY <2>2 DEF TypeOK
    <2>4. known'[a] = known[a] \ {s} /\ \A b \in Cell \ {a} : known'[b] = known[b]
      BY <2>3
    <2>5. Sends(a, m)
      BY <2>1, <2>2, <2>4 DEF Sends
    <2>6. \A r \in Sub : About(m, a, r) => r = s
      BY <2>1 DEF About
    <2>7. ASSUME NEW r \in Sub
          PROVE  IF About(m, a, r) THEN r \in known'[a] <=> m.op = "reg_sub"
                 ELSE Alive(a) /\ Alive(a)' => (r \in known'[a] <=> r \in known[a])
      <3>1. About(m, a, s)
        BY <2>1 DEF About
      <3> HIDE DEF m
      <3> QED
        BY <2>1, <2>4, <2>6, <3>1
    <2>8. cell[a] # "off"
      BY <2>2 DEF Alive
    <2> HIDE DEF m
    <2> QED
      BY <1>1, <2>5, <2>7, <2>8
  <1>7. ASSUME NEW a \in Cell, Remove(a) \/ Answer(a)
        PROVE  QInv'
    <2>1. /\ UNCHANGED <<known, box, tableVars>>
          /\ \A b \in Cell : cell'[b] = cell[b] \/ (cell[b] = "up" /\ cell'[b] = "told")
      BY <1>7 DEF Remove, Answer, TypeOK
    <2>2. \A b \in Cell : Alive(b)' <=> Alive(b)
      BY <2>1 DEF Alive
    <2>3. \A b \in Cell : /\ cell'[b] = "off" <=> cell[b] = "off"
                          /\ cell'[b] = "gone" <=> cell[b] = "gone"
      BY <2>1
    <2>4. \A b \in Cell : \A i : RegistersAt(b, i)' <=> RegistersAt(b, i)
      BY <2>1 DEF RegistersAt
    <2>5. \A b \in Cell : Framing(b)'
      BY <2>1, <2>2, <2>3, <2>4 DEF QInv, Framing, tableVars
    <2>6. InTurn'
      BY <2>1, <2>3, <2>4 DEF QInv, InTurn, Follows
    <2>7. \A b \in Cell, s \in Sub : Alive(b)' => Telling(b, s)'
      BY <2>1, <2>2 DEF QInv, Telling, tableVars
    <2> QED
      BY <2>5, <2>6, <2>7 DEF QInv
  <1>8. ASSUME NEW k \in Client, NEW q \in Asked, Ask(k, q[1], q[2])
        PROVE  QInv'
    <2> DEFINE m == [op |-> "request", from |-> k, dev |-> q[1], cmd |-> q[2]]
    <2>1. m \in Message /\ m.op = "request"
      BY Asks DEF Message, Request
    <2>2. Send(m) /\ UNCHANGED <<cell, known, tableVars>>
      BY <1>8 DEF Ask, cellVars
    <2> HIDE DEF m
    <2>3. PICK e \in Nat : /\ e \notin DOMAIN box /\ DOMAIN box' = DOMAIN box \cup {e}
                           /\ \A i \in DOMAIN box : box'[i] = box[i] /\ i \in Nat /\ i < e
                           /\ box'[e] = m
                           /\ DOMAIN box = 1..Len(box) /\ DOMAIN box' = 1..Len(box')
      BY <2>1, <2>2, Sent
    <2>4. /\ \A b, i : i \in DOMAIN box' /\ Of(box'[i], b) <=> i \in DOMAIN box /\ Of(box[i], b)
          /\ \A b, s, i : i \in DOMAIN box' /\ About(box'[i], b, s) <=> i \in DOMAIN box /\ About(box[i], b, s)
          /\ \A b, i : RegistersAt(b, i)' <=> RegistersAt(b, i)
      BY <2>1, <2>3 DEF Of, About, RegistersAt
    <2>5. ASSUME NEW b \in Cell PROVE Framing(b)'
      <3>1. Framing(b)
        BY DEF QInv
      <3>2. ASSUME cell[b] = "gone", b \in applist \/ \E i \in DOMAIN box' : Of(box'[i], b)
            PROVE  \E j \in DOMAIN box' : /\ Of(box'[j], b) /\ box'[j].op = "unreg_app"
                                          /\ \A i \in DOMAIN box' : Of(box'[i], b) => i <= j
        <4>1. PICK j \in DOMAIN box : /\ Of(box[j], b) /\ box[j].op = "unreg_app"
                                      /\ \A i \in DOMAIN box : Of(box[i], b) => i <= j
          BY <2>4, <3>1, <3>2 DEF Framing
        <4> QED
          BY <2>3, <2>4, <4>1
      <3>3. ASSUME Alive(b)
            PROVE  /\ \A i \in DOMAIN box' : Of(box'[i], b) => box'[i].op # "unreg_app"
                   /\ b \in applist \/ \E i \in DOMAIN box' : RegistersAt(b, i)'
        BY <2>3, <2>4, <3>1, <3>3 DEF Framing
      <3>4. \A i, j \in DOMAIN box' : RegistersAt(b, i)' /\ Of(box'[j], b) => i <= j
        BY <2>3, <2>4, <3>1 DEF Framing, RegistersAt
      <3>5. cell[b] = "off" => known[b] = {} /\ \A i \in DOMAIN box' : ~ Of(box'[i], b)
        BY <2>4, <3>1 DEF Framing
      <3>6. cell[b] = "gone" => known[b] = {}
        BY <3>1 DEF Framing
      <3> QED
        BY <2>2, <3>2, <3>3, <3>4, <3>5, <3>6 DEF Framing, Alive, tableVars
    <2>6. ASSUME NEW b \in Cell, NEW c \in Cell, Follows(b, c) PROVE Follows(b, c)'
      <3>1. \A i, j \in DOMAIN box' : Of(box'[i], c) /\ Of(box'[j], b) => i < j
        BY <2>4, <2>6 DEF Follows
      <3>2. (\E i \in DOMAIN box' : Of(box'[i], c)) => \E j \in DOMAIN box' : RegistersAt(b, j)'
        BY <2>3, <2>4, <2>6 DEF Follows
      <3> QED
        BY <2>2, <2>6, <3>1, <3>2 DEF Follows
    <2>7. InTurn'
      BY <2>2, <2>6 DEF QInv, InTurn
    <2>8. ASSUME NEW b \in Cell, NEW s \in Sub, Alive(b) PROVE Telling(b, s)'
      <3>1. Telling(b, s)
        BY <2>8 DEF QInv
      <3>2. ASSUME NEW i \in DOMAIN box', About(box'[i], b, s),
                   \A j \in DOMAIN box' : About(box'[j], b, s) => j <= i
            PROVE  s \in known[b] <=> box'[i].op = "reg_sub"
        <4>1. i \in DOMAIN box /\ About(box[i], b, s) /\ box'[i] = box[i]
          BY <2>3, <2>4, <3>2
        <4>2. \A j \in DOMAIN box : About(box[j], b, s) => j <= i
          BY <2>4, <3>2
        <4> QED
          BY <3>1, <4>1, <4>2 DEF Telling
      <3>3. (\A i \in DOMAIN box' : ~ About(box'[i], b, s)) => (s \in known[b] <=> s \in sublist[b])
        BY <2>4, <3>1 DEF Telling
      <3> QED
        BY <2>2, <3>2, <3>3 DEF Telling, tableVars
    <2> QED
      BY <2>2, <2>5, <2>7, <2>8 DEF QInv, Alive
  <1> QED
    BY <1>2, <1>3, <1>4, <1>5, <1>6, <1>7, <1>8 DEF Environment

\* In an empty mailbox nothing is left to tell.
LEMMA ReachesAll ==
    ASSUME TypeOK, Once, Registry, QInv
    PROVE  Reachable
  <1> SUFFICES ASSUME box = <<>>
               PROVE  /\ \A a \in Cell : cell[a] = "up" =>
                           /\ devlist[NameOf[a]] = a
                           /\ \A s \in Sub : devlist[DeviceOf(a, s)] = a <=> s \in known[a]
                      /\ \A d \in Dev : devlist[d] # None => Alive(devlist[d])
    BY DEF Reachable
  <1>1. DOMAIN box = {}
    OBVIOUS
  <1>2. ASSUME NEW a \in Cell, cell[a] = "up"
        PROVE  /\ devlist[NameOf[a]] = a
               /\ \A s \in Sub : devlist[DeviceOf(a, s)] = a <=> s \in known[a]
    <2>1. Alive(a) /\ a \in applist
      BY <1>1, <1>2 DEF QInv, Framing, Alive
    <2>2. devlist[NameOf[a]] = a
      BY <2>1, RegistryFacts
    <2>3. ASSUME NEW s \in Sub
          PROVE  devlist[DeviceOf(a, s)] = a <=> s \in known[a]
      <3>1. s \in known[a] <=> s \in sublist[a]
        BY <1>1, <2>1 DEF QInv, Telling
      <3>2. devlist[<<s, NameOf[a]>>] = None <=> s \notin sublist[a]
        BY <2>1, RegistryFacts
      <3>3. devlist[<<s, NameOf[a]>>] # None => devlist[<<s, NameOf[a]>>] = a
        BY <2>2, RegistryFacts, Devices
      <3> QED
        BY <3>1, <3>2, <3>3, NoneAssumption DEF DeviceOf
    <2> QED
      BY <2>2, <2>3
  <1>3. ASSUME NEW d \in Dev, devlist[d] # None
        PROVE  Alive(devlist[d])
    <2>1. devlist[d] \in applist
      <3>1. CASE d \in Name
        BY <1>3, <3>1, RegistryFacts
      <3>2. CASE d \in Sub \X Name
        <4>1. PICK s \in Sub, n \in Name : d = <<s, n>>
          BY <3>2
        <4> QED
          BY <1>3, <4>1, RegistryFacts
      <3> QED
        BY <3>1, <3>2 DEF Dev
    <2>2. devlist[d] \in Cell
      BY <2>1 DEF TypeOK
    <2>3. cell[devlist[d]] # "off"
      BY <2>1, <2>2 DEF Once, Blank
    <2>4. cell[devlist[d]] # "gone"
      BY <1>1, <2>1, <2>2 DEF QInv, Framing
    <2> QED
      BY <2>2, <2>3, <2>4 DEF Alive, TypeOK
  <1> QED
    BY <1>2, <1>3

\* Where appmgr starts an APP anew only when its former cell is unregistered,
\* registrations that lie in the mailbox are never lost on a name still taken:
\* once they are worked off, what is loaded can be reached, and what is gone
\* cannot (gateway.lua, reg_dev and unreg_dev; api.lua).
THEOREM Reached ==
    ASSUME Ordered
    PROVE  Spec => []Reachable
  <1>1. Init => QInv
    BY DEF Init, QInv, Framing, InTurn, Alive
  <1>2. IInv /\ QInv /\ [Next]_vars => QInv'
    <2> SUFFICES ASSUME IInv, QInv, [Next]_vars PROVE QInv'
      OBVIOUS
    <2>1. CASE UNCHANGED vars
      BY <2>1 DEF vars, QInv, Framing, InTurn, Follows, Telling, Alive, RegistersAt
    <2>2. CASE Environment
      BY <2>2, EnvironmentQ DEF IInv
    <2>3. CASE Dispatch
      <3>1. cell' = cell
        BY <2>3, Dispatches DEF IInv
      <3>2. \A a \in Cell : Framing(a)'
        BY <2>3, DispatchFramed DEF IInv
      <3>3. InTurn'
        BY <2>3, DispatchInTurn DEF IInv
      <3>4. \A a \in Cell, s \in Sub : Alive(a) => Telling(a, s)'
        BY <2>3, DispatchTold DEF IInv
      <3> QED
        BY <3>1, <3>2, <3>3, <3>4 DEF QInv, Alive
    <2> QED
      BY <2>1, <2>2, <2>3 DEF Next, Environment
  <1>3. IInv /\ QInv => Reachable
    BY ReachesAll DEF IInv
  <1> QED
    BY <1>1, <1>2, <1>3, Inductive, PTL DEF Spec

=============================================================================
