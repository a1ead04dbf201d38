--------------------------- MODULE PipeRoutesProofs --------------------------
(***************************************************************************)
(* What the cells make of the PIPEs, for every number of APPs, PIPEs and   *)
(* cells, every set of lists and any delay of the messages (PipeRoutes):   *)
(* starts and stops are counted right, nothing is sent to a cell that is   *)
(* gone, data reaches what its PIPEs say and does not go round.            *)
(***************************************************************************)
EXTENDS PipeRoutes, SequenceTheorems, FiniteSetTheorems, WellFoundedInduction, TLAPS

-----------------------------------------------------------------------------
(* Numbers.  Every recursion of the model is over the places of a sequence: *)
(* these lemmas carry a claim from one to the next.                         *)

\* A set of numbers has a least one.
LEMMA Least ==
    ASSUME NEW T \in SUBSET Nat, T # {}
    PROVE  \E x \in T : \A y \in T : x <= y
<1> DEFINE R == {ss \in Nat \X Nat : ss[1] < ss[2]}
<1>1. IsWellFoundedOn(R, Nat)
  BY NatLessThanWellFounded DEF OpToRel
<1> HIDE DEF R
<1>2. PICK x \in T : \A y \in T : ~ (<<y, x>> \in R)
  BY <1>1, WFMin
<1>3. ASSUME NEW y \in T PROVE x <= y
  <2>1. ~ (y < x)
    BY <1>2 DEF R
  <2> QED BY <2>1
<1> QED BY <1>3

\* Induction up to n, with the set of numbers for which the claim holds.
LEMMA Climb ==
    ASSUME NEW n \in Nat, NEW S, 0 \in S,
           \A i \in 0 .. n : i < n /\ i \in S => i + 1 \in S
    PROVE  \A i \in 0 .. n : i \in S
<1> DEFINE T == {i \in 0 .. n : i \notin S}
<1> SUFFICES ASSUME T # {} PROVE FALSE
  OBVIOUS
<1>1. T \in SUBSET Nat
  OBVIOUS
<1>2. PICK x \in T : \A y \in T : x <= y
  BY <1>1, Least
<1>3. x # 0 /\ x \in 0 .. n /\ x \notin S
  OBVIOUS
<1>4. x - 1 \in 0 .. n /\ x - 1 < n
  BY <1>3
<1>5. x - 1 \in S
  BY <1>2, <1>4
<1> QED BY <1>3, <1>4, <1>5

\* A step that can be taken from anywhere can be taken n times.
LEMMA Recursion ==
    ASSUME NEW S, NEW b \in S, NEW n \in Nat, NEW F \in [1 .. n -> [S -> S]]
    PROVE  \E T \in [0 .. n -> S] :
               T[0] = b /\ \A i \in 1 .. n : T[i] = F[i][T[i - 1]]
<1> DEFINE Far(m, T) == T[0] = b /\ \A i \in 1 .. m : T[i] = F[i][T[i - 1]]
           Q == {m \in 0 .. n : \E T \in [0 .. m -> S] : Far(m, T)}
<1>1. 0 \in Q
  <2> DEFINE T == [i \in 0 .. 0 |-> b]
  <2>1. T \in [0 .. 0 -> S] /\ T[0] = b
    OBVIOUS
  <2>2. \A i \in 1 .. 0 : T[i] = F[i][T[i - 1]]
    OBVIOUS
  <2> HIDE DEF T
  <2>3. \E U \in [0 .. 0 -> S] : Far(0, U)
    BY <2>1, <2>2
  <2> QED BY <2>3
<1>2. ASSUME NEW m \in 0 .. n, m < n, m \in Q PROVE m + 1 \in Q
  <2>1. PICK T \in [0 .. m -> S] : Far(m, T)
    BY <1>2
  <2> DEFINE U == [i \in 0 .. m + 1 |-> IF i = m + 1 THEN F[m + 1][T[m]] ELSE T[i]]
  <2>2. m \in 0 .. m /\ m + 1 \in 1 .. n /\ T[m] \in S /\ F[m + 1][T[m]] \in S
    BY <1>2
  <2>3. U \in [0 .. m + 1 -> S]
    BY <2>2
  <2>4. \A i \in 0 .. m : U[i] = T[i]
    BY <1>2
  <2>5. U[m + 1] = F[m + 1][U[m]]
    <3>1. U[m + 1] = F[m + 1][T[m]] /\ U[m] = T[m]
      BY <1>2, <2>2, <2>4
    <3> QED BY <3>1
  <2>6. ASSUME NEW i \in 1 .. m + 1 PROVE U[i] = F[i][U[i - 1]]
    <3>1. CASE i = m + 1
      BY <3>1, <2>5, <1>2
    <3>2. CASE i # m + 1
      <4>1. i \in 1 .. m /\ i \in 0 .. m /\ i - 1 \in 0 .. m
        BY <1>2, <3>2
      <4> HIDE DEF U
      <4> QED BY <4>1, <2>1, <2>4
    <3> QED BY <3>1, <3>2
  <2>7. U[0] = b
    BY <1>2, <2>1, <2>4
  <2> HIDE DEF U
  <2>8. m + 1 \in 0 .. n /\ Far(m + 1, U)
    BY <1>2, <2>6, <2>7
  <2> QED BY <2>3, <2>8
<1> HIDE DEF Q
<1>3. \A i \in 0 .. n : i \in Q
  BY <1>1, <1>2, Climb
<1>4. n \in Q
  BY <1>3
<1> QED BY <1>4 DEF Q

-----------------------------------------------------------------------------
(* A mailbox that is worked off.                                            *)

LEMMA LinkOf ==
    ASSUME NEW m \in Message
    PROVE  <<m.source, m.target>> \in Link /\ m.op \in {"route_add", "route_del"}
BY DEF Message, Link

LEMMA ApplyType ==
    ASSUME NEW t \in Table, NEW m \in Message
    PROVE  Apply(t, m) \in Table
<1> DEFINE l == <<m.source, m.target>>
<1>1. l \in Link
  BY LinkOf
<1>2. t[l] \in Nat
  BY <1>1 DEF Table
<1>3. Add(t, l) \in Table
  BY <1>1, <1>2 DEF Add, Table
<1>4. Drop(t, l) \in Table
  BY <1>1, <1>2 DEF Drop, Table
<1> QED BY <1>3, <1>4 DEF Apply

\* Worked tells the table after each message.
LEMMA WorkedIs ==
    ASSUME NEW t \in Table, NEW box \in Seq(Message)
    PROVE  LET W == Worked(t, box) IN
           /\ W \in [0 .. Len(box) -> Table]
           /\ W[0] = t
           /\ \A n \in 1 .. Len(box) : W[n] = Apply(W[n - 1], box[n])
<1> DEFINE N == Len(box)
           E(f) == [n \in 0 .. N |-> IF n = 0 THEN t ELSE Apply(f[n - 1], box[n])]
           F == [n \in 1 .. N |-> [x \in Table |-> Apply(x, box[n])]]
<1>1. N \in Nat /\ \A n \in 1 .. N : box[n] \in Message
  BY LenProperties, ElementOfSeq
<1>2. F \in [1 .. N -> [Table -> Table]]
  BY <1>1, ApplyType
<1>3. \A n \in 1 .. N, x \in Table : F[n][x] = Apply(x, box[n])
  OBVIOUS
<1> HIDE DEF F
<1>4. PICK T \in [0 .. N -> Table] : T[0] = t /\ \A n \in 1 .. N : T[n] = F[n][T[n - 1]]
  <2> HIDE DEF N
  <2>1. N \in Nat
    BY <1>1
  <2>2. t \in Table
    OBVIOUS
  <2> QED BY <1>2, <2>1, <2>2, Recursion, SMT
<1>5. \A n \in 1 .. N : T[n] = Apply(T[n - 1], box[n])
  <2> SUFFICES ASSUME NEW n \in 1 .. N PROVE T[n] = Apply(T[n - 1], box[n])
    OBVIOUS
  <2>1. n - 1 \in 0 .. N
    BY <1>1
  <2>2. T[n - 1] \in Table
    BY <2>1, <1>4
  <2> QED BY <2>2, <1>3, <1>4
<1>6. \A n \in 0 .. N : T[n] = IF n = 0 THEN t ELSE Apply(T[n - 1], box[n])
  <2> SUFFICES ASSUME NEW n \in 0 .. N
               PROVE  T[n] = IF n = 0 THEN t ELSE Apply(T[n - 1], box[n])
    OBVIOUS
  <2>1. n # 0 => n \in 1 .. N
    BY <1>1
  <2> QED BY <2>1, <1>4, <1>5
<1>7. T = E(T)
  <2>1. T = [n \in 0 .. N |-> T[n]]
    BY <1>4
  <2> QED BY <2>1, <1>6, Zenon
<1>8. Worked(t, box) = CHOOSE f : f = E(f)
  BY Zenon DEF Worked
<1>9. ASSUME NEW f, f = E(f)
      PROVE  /\ f \in [0 .. N -> Table] /\ f[0] = t
             /\ \A n \in 1 .. N : f[n] = Apply(f[n - 1], box[n])
  <2>1. \A n \in 0 .. N : f[n] = IF n = 0 THEN t ELSE Apply(f[n - 1], box[n])
    BY <1>9, Zenon
  <2>2. f[0] = t
    BY <2>1, <1>1
  <2>3. \A n \in 1 .. N : f[n] = Apply(f[n - 1], box[n])
    <3> SUFFICES ASSUME NEW n \in 1 .. N PROVE f[n] = Apply(f[n - 1], box[n])
      OBVIOUS
    <3>1. n \in 0 .. N /\ n # 0
      BY <1>1
    <3> QED BY <3>1, <2>1, Zenon
  <2> DEFINE S == {n \in 0 .. N : f[n] \in Table}
  <2>4. 0 \in S
    BY <2>2, <1>1
  <2>5. ASSUME NEW i \in 0 .. N, i < N, i \in S PROVE i + 1 \in S
    <3>1. i + 1 \in 1 .. N /\ i + 1 \in 0 .. N /\ i + 1 - 1 = i
      BY <2>5, <1>1
    <3>2. f[i + 1] = Apply(f[i], box[i + 1])
      BY <3>1, <2>3
    <3>3. f[i + 1] \in Table
      BY <3>1, <3>2, <2>5, <1>1, ApplyType
    <3> QED BY <3>1, <3>3
  <2> HIDE DEF S
  <2>6. \A n \in 0 .. N : n \in S
    BY <1>1, <2>4, <2>5, Climb
  <2>7. \A n \in 0 .. N : f[n] \in Table
    BY <2>6 DEF S
  <2>8. f = [n \in 0 .. N |-> f[n]]
    BY <1>9, <2>1, Zenon
  <2>9. f \in [0 .. N -> Table]
    BY <2>7, <2>8
  <2> QED BY <2>2, <2>3, <2>9
<1> HIDE DEF E
<1>10. (CHOOSE f : f = E(f)) = E(CHOOSE f : f = E(f))
  BY <1>7, Zenon
<1> QED BY <1>8, <1>9, <1>10

\* What comes later in a mailbox does not change what was worked before.
LEMMA WorkedPrefix ==
    ASSUME NEW t \in Table, NEW box \in Seq(Message), NEW q \in Seq(Message),
           Len(box) <= Len(q), \A i \in 1 .. Len(box) : q[i] = box[i]
    PROVE  \A n \in 0 .. Len(box) : Worked(t, q)[n] = Worked(t, box)[n]
<1> DEFINE V == Worked(t, q)
           W == Worked(t, box)
           S == {n \in 0 .. Len(box) : V[n] = W[n]}
<1>1. Len(box) \in Nat /\ Len(q) \in Nat
  BY LenProperties
<1>2. W[0] = t /\ \A n \in 1 .. Len(box) : W[n] = Apply(W[n - 1], box[n])
  BY WorkedIs
<1>3. V[0] = t /\ \A n \in 1 .. Len(q) : V[n] = Apply(V[n - 1], q[n])
  BY WorkedIs
<1> HIDE DEF V, W
<1>4. 0 \in S
  BY <1>1, <1>2, <1>3
<1>5. ASSUME NEW i \in 0 .. Len(box), i < Len(box), i \in S PROVE i + 1 \in S
  <2>1. i + 1 \in 1 .. Len(box) /\ i + 1 \in 1 .. Len(q) /\ i + 1 - 1 = i
    BY <1>1, <1>5
  <2>2. V[i + 1] = Apply(V[i], q[i + 1]) /\ W[i + 1] = Apply(W[i], box[i + 1])
    BY <1>2, <1>3, <2>1
  <2>3. V[i] = W[i] /\ q[i + 1] = box[i + 1]
    BY <1>5, <2>1
  <2>4. V[i + 1] = W[i + 1]
    BY <2>2, <2>3, Zenon
  <2> QED BY <2>1, <2>4, <1>1
<1> HIDE DEF S
<1>6. \A n \in 0 .. Len(box) : n \in S
  BY <1>1, <1>4, <1>5, Climb
<1> QED BY <1>6 DEF S, V, W

\* Taking the first message leaves what will become of the table.
LEMMA WorkedTail ==
    ASSUME NEW t \in Table, NEW box \in Seq(Message), box # <<>>
    PROVE  /\ Apply(t, Head(box)) \in Table
           /\ Tail(box) \in Seq(Message) /\ Len(box) \in Nat \ {0}
           /\ Len(Tail(box)) = Len(box) - 1
           /\ \A n \in 0 .. Len(box) - 1 :
                  Worked(Apply(t, Head(box)), Tail(box))[n] = Worked(t, box)[n + 1]
<1> DEFINE u == Apply(t, Head(box))
           q == Tail(box)
           V == Worked(u, q)
           W == Worked(t, box)
           S == {n \in 0 .. Len(box) - 1 : V[n] = W[n + 1]}
<1>1. Len(box) \in Nat \ {0}
  BY EmptySeq
<1>2. /\ Head(box) \in Message /\ q \in Seq(Message) /\ Len(q) = Len(box) - 1
      /\ \A i \in 1 .. Len(q) : q[i] = box[i + 1]
  BY HeadTailProperties
<1>3. Head(box) = box[1]
  OBVIOUS
<1>4. u \in Table
  BY <1>2, ApplyType
<1>5. W[0] = t /\ \A n \in 1 .. Len(box) : W[n] = Apply(W[n - 1], box[n])
  BY WorkedIs
<1> HIDE DEF u, q
<1>6. V[0] = u /\ \A n \in 1 .. Len(q) : V[n] = Apply(V[n - 1], q[n])
  BY <1>2, <1>4, WorkedIs
<1> HIDE DEF V, W
<1>7. 0 \in S
  <2>1. W[1] = Apply(W[0], box[1])
    BY <1>1, <1>5
  <2>2. W[1] = u
    BY <2>1, <1>3, <1>5, Zenon DEF u
  <2> QED BY <2>2, <1>1, <1>6
<1>8. ASSUME NEW i \in 0 .. Len(box) - 1, i < Len(box) - 1, i \in S PROVE i + 1 \in S
  <2>1. /\ i + 1 \in 1 .. Len(q) /\ i + 2 \in 1 .. Len(box)
        /\ i + 1 - 1 = i /\ i + 2 - 1 = i + 1 /\ i + 1 + 1 = i + 2 /\ i + 1 \in 0 .. Len(box) - 1
    BY <1>1, <1>2, <1>8
  <2>2. V[i + 1] = Apply(V[i], q[i + 1])
    BY <1>6, <2>1
  <2>3. W[i + 2] = Apply(W[i + 1], box[i + 2])
    BY <1>5, <2>1
  <2>4. V[i] = W[i + 1] /\ q[i + 1] = box[i + 2]
    BY <1>2, <1>8, <2>1
  <2>5. V[i + 1] = W[i + 2]
    BY <2>2, <2>3, <2>4, Zenon
  <2> QED BY <2>1, <2>5
<1> HIDE DEF S
<1>9. \A n \in 0 .. Len(box) - 1 : n \in S
  <2>1. Len(box) - 1 \in Nat
    BY <1>1
  <2> QED BY <1>7, <1>8, <2>1, Climb
<1> QED BY <1>1, <1>2, <1>4, <1>9 DEF S, V, W, u, q

\* A run of equal messages adds as many or takes back as many, and leaves the
\* other entries.
Same(t, u, l) == \A x \in Link \ {l} : t[x] = u[x]
LEMMA AddsRun ==
    ASSUME NEW t \in Table, NEW q \in Seq(Message), NEW m \in 0 .. Len(q), NEW e \in Message,
           e.op = "route_add", \A i \in m + 1 .. Len(q) : q[i] = e
    PROVE  LET W == Worked(t, q)
               l == <<e.source, e.target>>
           IN  \A j \in 0 .. Len(q) - m : W[m + j][l] = W[m][l] + j /\ Same(W[m + j], W[m], l)
<1> DEFINE W == Worked(t, q)
           l == <<e.source, e.target>>
           N == Len(q) - m
           S == {j \in 0 .. N : W[m + j][l] = W[m][l] + j /\ Same(W[m + j], W[m], l)}
<1>1. Len(q) \in Nat /\ N \in Nat /\ m \in Nat
  BY LenProperties
<1>2. /\ W \in [0 .. Len(q) -> Table]
      /\ \A n \in 1 .. Len(q) : W[n] = Apply(W[n - 1], q[n])
  BY WorkedIs
<1> HIDE DEF W
<1>3. l \in Link
  BY LinkOf
<1>4. \A x \in Table : Apply(x, e) = [x EXCEPT ![l] = @ + 1]
  BY DEF Apply, Add
<1> HIDE DEF l
<1>5. W[m] \in Table /\ W[m][l] \in Nat
  BY <1>1, <1>2, <1>3 DEF Table
<1>6. 0 \in S
  BY <1>1, <1>5 DEF Same
<1>7. ASSUME NEW j \in 0 .. N, j < N, j \in S PROVE j + 1 \in S
  <2>1. /\ m + j \in 0 .. Len(q) /\ m + (j + 1) \in 1 .. Len(q) /\ m + (j + 1) - 1 = m + j
        /\ m + (j + 1) \in m + 1 .. Len(q) /\ j + 1 \in 0 .. N
    BY <1>1, <1>7
  <2>2. W[m + (j + 1)] = Apply(W[m + j], e)
    BY <1>2, <2>1
  <2>3. W[m + j] \in Table
    BY <1>2, <2>1
  <2>4. W[m + (j + 1)] = [W[m + j] EXCEPT ![l] = @ + 1]
    BY <1>4, <2>2, <2>3
  <2>5. W[m + j][l] = W[m][l] + j /\ Same(W[m + j], W[m], l)
    BY <1>7
  <2>8. W[m + (j + 1)][l] = W[m + j][l] + 1
    BY <1>3, <2>3, <2>4 DEF Table
  <2>6. W[m + (j + 1)][l] = W[m][l] + (j + 1)
    <3>1. W[m + j][l] = W[m][l] + j /\ j \in Nat
      BY <1>1, <2>5
    <3>2. \A p, q0, r : p = q0 + 1 /\ q0 = r + j /\ r \in Nat => p = r + (j + 1)
      BY <3>1
    <3> QED BY <1>5, <2>8, <3>1, <3>2, Zenon
  <2>7. Same(W[m + (j + 1)], W[m], l)
    BY <1>3, <2>3, <2>4, <2>5 DEF Same, Table
  <2> QED BY <2>1, <2>6, <2>7
<1> HIDE DEF S
<1>8. \A j \in 0 .. N : j \in S
  <2> HIDE DEF N
  <2> QED BY <1>1, <1>6, <1>7, Climb
<1> QED BY <1>8 DEF S, W, l

LEMMA DropsRun ==
    ASSUME NEW t \in Table, NEW q \in Seq(Message), NEW m \in 0 .. Len(q), NEW e \in Message,
           e.op = "route_del", \A i \in m + 1 .. Len(q) : q[i] = e
    PROVE  LET W == Worked(t, q)
               l == <<e.source, e.target>>
           IN  \A j \in 0 .. Len(q) - m :
                   /\ W[m + j][l] = IF j <= W[m][l] THEN W[m][l] - j ELSE 0
                   /\ Same(W[m + j], W[m], l)
<1> DEFINE W == Worked(t, q)
           l == <<e.source, e.target>>
           N == Len(q) - m
           S == {j \in 0 .. N : /\ W[m + j][l] = IF j <= W[m][l] THEN W[m][l] - j ELSE 0
                                /\ Same(W[m + j], W[m], l)}
<1>1. Len(q) \in Nat /\ N \in Nat /\ m \in Nat
  BY LenProperties
<1>2. /\ W \in [0 .. Len(q) -> Table]
      /\ \A n \in 1 .. Len(q) : W[n] = Apply(W[n - 1], q[n])
  BY WorkedIs
<1> HIDE DEF W
<1>3. l \in Link
  BY LinkOf
<1>4. \A x \in Table : Apply(x, e) = IF x[l] = 0 THEN x ELSE [x EXCEPT ![l] = @ - 1]
  BY DEF Apply, Drop
<1> HIDE DEF l
<1>5. W[m] \in Table /\ W[m][l] \in Nat
  BY <1>1, <1>2, <1>3 DEF Table
<1>6. 0 \in S
  BY <1>1, <1>5 DEF Same
<1>7. ASSUME NEW j \in 0 .. N, j < N, j \in S PROVE j + 1 \in S
  <2>1. /\ m + j \in 0 .. Len(q) /\ m + (j + 1) \in 1 .. Len(q) /\ m + (j + 1) - 1 = m + j
        /\ m + (j + 1) \in m + 1 .. Len(q) /\ j + 1 \in 0 .. N
    BY <1>1, <1>7
  <2>2. W[m + (j + 1)] = Apply(W[m + j], e)
    BY <1>2, <2>1
  <2>3. W[m + j] \in Table
    BY <1>2, <2>1
  <2>4. W[m + (j + 1)] = IF W[m + j][l] = 0 THEN W[m + j] ELSE [W[m + j] EXCEPT ![l] = @ - 1]
    BY <1>4, <2>2, <2>3
  <2>5. /\ W[m + j][l] = IF j <= W[m][l] THEN W[m][l] - j ELSE 0
        /\ Same(W[m + j], W[m], l)
    BY <1>7
  <2>6. W[m + (j + 1)][l] = IF W[m + j][l] = 0 THEN 0 ELSE W[m + j][l] - 1
    BY <1>3, <2>3, <2>4 DEF Table
  <2>7. W[m + (j + 1)][l] = IF j + 1 <= W[m][l] THEN W[m][l] - (j + 1) ELSE 0
    BY <1>1, <1>5, <2>5, <2>6
  <2>8. Same(W[m + (j + 1)], W[m], l)
    BY <1>3, <2>3, <2>4, <2>5 DEF Same, Table
  <2> QED BY <2>1, <2>7, <2>8
<1> HIDE DEF S
<1>8. \A j \in 0 .. N : j \in S
  <2> HIDE DEF N
  <2> QED BY <1>1, <1>6, <1>7, Climb
<1> QED BY <1>8 DEF S, W, l

\* An entry that is not taken back does not get less.
LEMMA NoneTakenBack ==
    ASSUME NEW t \in Table, NEW box \in Seq(Message), NEW l \in Link,
           \A n \in 1 .. Len(box) :
               box[n] # [op |-> "route_del", source |-> l[1], target |-> l[2]]
    PROVE  t[l] <= Worked(t, box)[Len(box)][l]
<1> DEFINE W == Worked(t, box)
           S == {n \in 0 .. Len(box) : t[l] <= W[n][l]}
<1>1. Len(box) \in Nat /\ \A n \in 1 .. Len(box) : box[n] \in Message
  BY LenProperties, ElementOfSeq
<1>2. /\ W \in [0 .. Len(box) -> Table] /\ W[0] = t
      /\ \A n \in 1 .. Len(box) : W[n] = Apply(W[n - 1], box[n])
  BY WorkedIs
<1> HIDE DEF W
<1>3. 0 \in S
  BY <1>1, <1>2 DEF Table
<1>4. ASSUME NEW i \in 0 .. Len(box), i < Len(box), i \in S PROVE i + 1 \in S
  <2> DEFINE m == box[i + 1]
             x == <<m.source, m.target>>
  <2>1. i + 1 \in 1 .. Len(box) /\ i + 1 \in 0 .. Len(box) /\ i + 1 - 1 = i
    BY <1>1, <1>4
  <2>2. m \in Message /\ x \in Link /\ m.op \in {"route_add", "route_del"}
    BY <1>1, <2>1, LinkOf
  <2>6. W[i + 1] = Apply(W[i], m)
    <3> HIDE DEF m
    <3>1. W[i + 1] = Apply(W[i], box[i + 1])
      BY <1>2, <2>1
    <3> QED BY <3>1 DEF m
  <2>7. W[i] \in Table /\ t \in Table
    BY <1>2
  <2>8. t[l] <= W[i][l] /\ t[l] \in Nat
    BY <1>4, <2>7 DEF Table
  <2>4. m.op = "route_del" => x # l
    <3> SUFFICES ASSUME m.op = "route_del", x = l PROVE FALSE
      OBVIOUS
    <3>1. m = [op |-> "route_del", source |-> l[1], target |-> l[2]]
      BY <2>2 DEF Message
    <3> QED BY <3>1, <2>1
  <2> HIDE DEF m
  <2>5. t[l] <= Apply(W[i], m)[l]
    <3> HIDE DEF x
    <3>3. W[i][x] \in Nat /\ W[i][l] \in Nat
      BY <2>2, <2>7 DEF Table
    <3>1. CASE m.op = "route_add"
      <4>1. Apply(W[i], m) = [W[i] EXCEPT ![x] = @ + 1]
        BY <3>1 DEF Apply, Add, x
      <4>2. Apply(W[i], m)[l] = IF l = x THEN W[i][l] + 1 ELSE W[i][l]
        BY <4>1, <2>2, <2>7 DEF Table
      <4> QED BY <4>2, <3>3, <2>8
    <3>2. CASE m.op = "route_del"
      <4>1. Apply(W[i], m) = IF W[i][x] = 0 THEN W[i] ELSE [W[i] EXCEPT ![x] = @ - 1]
        BY <3>2, <2>2 DEF Apply, Drop, x
      <4>2. Apply(W[i], m)[l] = W[i][l]
        BY <4>1, <2>2, <2>4, <2>7, <3>2 DEF Table
      <4> QED BY <4>2, <2>8
    <3> QED BY <2>2, <3>1, <3>2
  <2> QED BY <2>1, <2>5, <2>6
<1> HIDE DEF S
<1>5. \A n \in 0 .. Len(box) : n \in S
  BY <1>1, <1>3, <1>4, Climb
<1> QED BY <1>1, <1>5 DEF S, W

-----------------------------------------------------------------------------
(* Lists of PIPEs, and the cells they name.                                 *)

\* A list that a PIPE may have: all its APPs are loaded.
Loaded(s) == s \in Lists /\ \A i \in 1 .. Len(s) : AddrOf(s[i]) # NoCell

\* Every loaded APP has a cell of its own, launched for it.
OneCell ==
    /\ addr \in [App -> Cell \cup {NoCell}]
    /\ \A i \in App : addr[i] # NoCell => addr[i] \in used
    /\ \A i, j \in App : addr[i] = addr[j] /\ addr[i] # NoCell => i = j

LEMMA ListIs ==
    ASSUME NEW s \in Lists
    PROVE  /\ s \in Seq(Elem) /\ Len(s) \in Nat /\ Len(s) > 1 /\ s[1] \in Elem
           /\ DOMAIN s = 1 .. Len(s) /\ \A i \in 1 .. Len(s) : s[i] \in Elem
           /\ ToSet(s) = {s[i] : i \in 1 .. Len(s)}
<1>1. s \in Seq(Elem) /\ Len(s) > 1
  BY ListAssumption
<1>2. Len(s) \in Nat /\ DOMAIN s = 1 .. Len(s) /\ \A i \in 1 .. Len(s) : s[i] \in Elem
  BY <1>1, LenProperties, ElementOfSeq
<1>3. s[1] \in Elem
  BY <1>1, <1>2
<1> QED BY <1>1, <1>2, <1>3 DEF ToSet

\* An APP of a list has a last place in it.
LEMMA LastPlaceIs ==
    ASSUME NEW s \in Lists, NEW i \in 1 .. Len(s)
    PROVE  /\ LastPlace(s, s[i]) \in 1 .. Len(s) /\ i <= LastPlace(s, s[i])
           /\ s[LastPlace(s, s[i])] = s[i]
           /\ \A j \in 1 .. Len(s) : s[j] = s[i] => j <= LastPlace(s, s[i])
<1> DEFINE e == s[i]
           T == {n \in Nat : n < Len(s) /\ s[Len(s) - n] = e}
           P(p) == s[p] = e /\ \A j \in (p + 1) .. Len(s) : s[j] # e
<1>1. Len(s) \in Nat /\ i \in Nat
  BY ListIs
<1> HIDE DEF e
<1>2. Len(s) - i \in T
  <2>1. Len(s) - (Len(s) - i) = i /\ Len(s) - i \in Nat /\ Len(s) - i < Len(s)
    BY <1>1
  <2> QED BY <2>1 DEF e
<1>3. PICK n \in T : \A y \in T : n <= y
  <2>1. T \in SUBSET Nat /\ T # {}
    BY <1>2
  <2> HIDE DEF T
  <2> QED BY <2>1, Least
<1>4. Len(s) - n \in 1 .. Len(s) /\ s[Len(s) - n] = e
  BY <1>1, <1>3
<1>5. ASSUME NEW j \in (Len(s) - n + 1) .. Len(s), s[j] = e PROVE FALSE
  <2>1. Len(s) - j \in Nat /\ Len(s) - j < Len(s) /\ Len(s) - (Len(s) - j) = j /\ Len(s) - j < n
    BY <1>1, <1>3, <1>5
  <2>2. Len(s) - j \in T
    BY <2>1, <1>5
  <2> QED BY <1>1, <1>3, <2>1, <2>2
<1>6. \E p \in 1 .. Len(s) : P(p)
  BY <1>4, <1>5
<1>7. LastPlace(s, e) = CHOOSE p \in 1 .. Len(s) : P(p)
  BY DEF LastPlace
<1>8. LastPlace(s, e) \in 1 .. Len(s) /\ P(LastPlace(s, e))
  <2> HIDE DEF P
  <2> QED BY <1>6, <1>7
<1>9. ASSUME NEW j \in 1 .. Len(s), s[j] = e PROVE j <= LastPlace(s, e)
  BY <1>1, <1>8, <1>9
<1> QED BY <1>8, <1>9 DEF e

\* Where the entry of an APP leads: to the cell of the next APP.
LEMMA TargetIs ==
    ASSUME NEW s, Loaded(s), NEW i \in 1 .. Len(s)
    PROVE  LET p == LastPlace(s, s[i]) IN
           \/ p = Len(s) /\ Target(s, s[i]) = NoCell
           \/ /\ p < Len(s) /\ p + 1 \in 1 .. Len(s) /\ Target(s, s[i]) = AddrOf(s[p + 1])
              /\ Target(s, s[i]) # NoCell /\ s[p + 1] \in Elem
<1>1. s \in Lists
  BY DEF Loaded
<1> DEFINE p == LastPlace(s, s[i])
<1>2. Len(s) \in Nat /\ p \in 1 .. Len(s)
  BY <1>1, ListIs, LastPlaceIs
<1>3. Target(s, s[i]) = IF p = Len(s) THEN NoCell ELSE AddrOf(s[p + 1])
  BY DEF Target
<1> HIDE DEF p
<1>4. p # Len(s) => p < Len(s) /\ p + 1 \in 1 .. Len(s)
  BY <1>2
<1>5. p # Len(s) => AddrOf(s[p + 1]) # NoCell /\ s[p + 1] \in Elem
  BY <1>1, <1>4, ListIs DEF Loaded
<1> QED BY <1>3, <1>4, <1>5 DEF p

\* Cells are told apart by their APPs.
LEMMA Cells ==
    ASSUME OneCell
    PROVE  /\ NoCell \notin Addr
           /\ \A e \in Elem : AddrOf(e) \in Addr \cup {NoCell}
           /\ \A e \in Elem : AddrOf(e) # NoCell => AddrOf(e) \in Running
           /\ \A a \in Running : a \in Addr /\ \E e \in Elem : a = AddrOf(e)
           /\ \A e, f \in Elem : AddrOf(e) = AddrOf(f) /\ AddrOf(e) # NoCell => e = f
           /\ \A e \in App : e \in Elem /\ (AddrOf(e) # NoCell => AddrOf(e) \in Cell)
           /\ \A a \in Running \cap Cell : \E e \in App : a = AddrOf(e)
           /\ Cell \subseteq Addr /\ Addr \ Running \subseteq Cell
<1>1. NoCell \notin Addr /\ Cell \cap SysApp = {} /\ App \cap SysApp = {}
  BY CellAssumption
<1>2. ASSUME NEW e \in Elem
      PROVE  \/ e \in SysApp /\ AddrOf(e) = e
             \/ e \in App /\ e \notin SysApp /\ AddrOf(e) = addr[e] /\ addr[e] \in Cell \cup {NoCell}
  BY <1>1 DEF Elem, AddrOf, OneCell
<1>3. \A e \in Elem : AddrOf(e) \in Addr \cup {NoCell}
  BY <1>2 DEF Addr
<1>4. ASSUME NEW e \in Elem, NEW f \in Elem, AddrOf(e) = AddrOf(f), AddrOf(e) # NoCell PROVE e = f
  <2>1. CASE e \in SysApp
    BY <2>1, <1>1, <1>2, <1>4
  <2>2. CASE e \notin SysApp
    <3>1. e \in App /\ addr[e] = AddrOf(e) /\ AddrOf(e) \in Cell
      BY <2>2, <1>2, <1>4
    <3>2. f \notin SysApp
      BY <3>1, <1>1, <1>2, <1>4
    <3>3. f \in App /\ addr[f] = AddrOf(f)
      BY <3>2, <1>2
    <3> QED BY <3>1, <3>3, <1>4 DEF OneCell
  <2> QED BY <2>1, <2>2
<1>5. \A e \in Elem : AddrOf(e) # NoCell => AddrOf(e) \in Running
  BY DEF Running
<1>6. \A a \in Running : a \in Addr /\ \E e \in Elem : a = AddrOf(e)
  BY <1>3 DEF Running
<1>7. \A e \in App : e \in Elem /\ (AddrOf(e) # NoCell => AddrOf(e) \in Cell)
  BY <1>1, <1>2 DEF Elem
<1>8. ASSUME NEW a \in Running \cap Cell PROVE \E e \in App : a = AddrOf(e)
  <2>1. PICK e \in Elem : a = AddrOf(e)
    BY <1>6
  <2>2. e \notin SysApp
    BY <1>1, <1>2, <2>1
  <2> QED BY <2>1, <2>2, <1>2
<1>9. Cell \subseteq Addr
  BY DEF Addr
<1>10. Addr \ Running \subseteq Cell
  <2>1. ASSUME NEW a \in SysApp PROVE a \in Running
    <3>1. a \in Elem /\ AddrOf(a) = a /\ a # NoCell
      BY <1>1 DEF Elem, AddrOf, Addr
    <3> QED BY <3>1, <1>5
  <2> QED BY <2>1 DEF Addr
<1> QED BY <1>1, <1>3, <1>4, <1>5, <1>6, <1>7, <1>8, <1>9, <1>10

-----------------------------------------------------------------------------
(* What start_pipe and stop_pipe send.                                      *)

\* The messages the cell of e is sent for s about l.
Sent(s, e, l) == IF Links(s, e, l) THEN Cardinality(Occurs(s, e)) ELSE 0
Note(op, s, e) == [op |-> op, source |-> s[1], target |-> Target(s, e)]

LEMMA OccursFinite ==
    ASSUME NEW s \in Lists, NEW e
    PROVE  /\ Occurs(s, e) \subseteq 1 .. Len(s) /\ IsFiniteSet(Occurs(s, e))
           /\ Cardinality(Occurs(s, e)) \in Nat
           /\ e \in ToSet(s) <=> Cardinality(Occurs(s, e)) > 0
<1>1. Len(s) \in Nat
  BY ListIs
<1>2. Occurs(s, e) \subseteq 1 .. Len(s)
  BY DEF Occurs
<1>3. IsFiniteSet(Occurs(s, e))
  <2>1. IsFiniteSet(1 .. Len(s))
    BY <1>1, FS_Interval
  <2> QED BY <2>1, <1>2, FS_Subset
<1>4. Cardinality(Occurs(s, e)) \in Nat
  BY <1>3, FS_CardinalityType
<1>5. Cardinality(Occurs(s, e)) = 0 <=> Occurs(s, e) = {}
  BY <1>3, FS_EmptySet
<1>6. e \in ToSet(s) <=> Occurs(s, e) # {}
  BY ListIs DEF Occurs
<1> QED BY <1>2, <1>3, <1>4, <1>5, <1>6

\* The cell of e gets the same message once for each of its places, if it has a
\* target.
LEMMA MessagesIs ==
    ASSUME OneCell, NEW s, Loaded(s), NEW e \in Elem, AddrOf(e) # NoCell,
           NEW op \in {"route_add", "route_del"}
    PROVE  LET M == Messages(op, s, AddrOf(e)) IN
           /\ M \in Seq(Message)
           /\ \A n \in 1 .. Len(M) : M[n] = Note(op, s, e) /\ Note(op, s, e) \in Message
           /\ Len(M) # 0 => Len(M) = Cardinality(Occurs(s, e)) /\ e \in ToSet(s)
           /\ Len(M) = 0 => e \notin ToSet(s) \/ Target(s, e) = NoCell
           /\ Len(M) \in Nat
<1> DEFINE a == AddrOf(e)
           M == Messages(op, s, a)
           N == Cardinality(Places(s, a))
<1>1. s \in Lists
  BY DEF Loaded
<1>2. /\ Len(s) \in Nat /\ s[1] \in Elem /\ \A i \in 1 .. Len(s) : s[i] \in Elem
      /\ ToSet(s) = {s[i] : i \in 1 .. Len(s)}
  BY <1>1, ListIs
<1>3. \A i \in 1 .. Len(s) : AddrOf(s[i]) = a <=> s[i] = e
  BY <1>2, Cells
<1>4. Places(s, a) = IF Target(s, e) # NoCell THEN Occurs(s, e) ELSE {}
  BY <1>3 DEF Places, Occurs
<1>5. N \in Nat /\ (N # 0 => N = Cardinality(Occurs(s, e)) /\ e \in ToSet(s))
      /\ (N = 0 => e \notin ToSet(s) \/ Target(s, e) = NoCell)
  <2>1. Cardinality({}) = 0
    BY FS_EmptySet
  <2>2. N = IF Target(s, e) # NoCell THEN Cardinality(Occurs(s, e)) ELSE 0
    BY <1>4, <2>1
  <2>3. Cardinality(Occurs(s, e)) \in Nat /\ (e \in ToSet(s) <=> Cardinality(Occurs(s, e)) > 0)
    BY <1>1, OccursFinite
  <2> HIDE DEF N
  <2> QED BY <2>2, <2>3
<1>6. (CHOOSE f \in Elem : AddrOf(f) = a) = e
  BY Cells
<1> HIDE DEF N, a
<1>7. M = [n \in 1 .. N |-> Note(op, s, e)]
  BY <1>6 DEF Messages, Note, N
<1>8. N # 0 => Note(op, s, e) \in Message
  <2> SUFFICES ASSUME N # 0 PROVE Note(op, s, e) \in Message
    OBVIOUS
  <2>1. PICK i \in 1 .. Len(s) : s[i] = e
    BY <1>2, <1>5
  <2>2. Target(s, e) # NoCell
    <3>1. Cardinality({}) = 0
      BY FS_EmptySet
    <3> QED BY <1>4, <3>1 DEF N
  <2>3. \E f \in Elem : Target(s, e) = AddrOf(f)
    BY <2>1, <2>2, TargetIs
  <2>4. Target(s, e) \in Addr
    BY <2>2, <2>3, Cells
  <2> QED BY <1>2, <2>4 DEF Note, Message
<1>9. Len(M) = N /\ \A n \in 1 .. N : M[n] = Note(op, s, e)
  BY <1>5, <1>7
<1>10. M \in Seq(Message)
  <2>1. M \in [1 .. N -> Message]
    BY <1>5, <1>7, <1>8
  <2> QED BY <2>1, <1>5
<1> HIDE DEF M
<1> QED BY <1>5, <1>8, <1>9, <1>10 DEF M, a

\* Cells without an APP get none.
LEMMA NoMessages ==
    ASSUME OneCell, NEW s, Loaded(s), NEW a \in Addr \ Running, NEW op
    PROVE  Messages(op, s, a) = <<>>
<1>1. s \in Lists /\ \A i \in 1 .. Len(s) : s[i] \in Elem /\ AddrOf(s[i]) # NoCell
  BY ListIs DEF Loaded
<1>2. \A i \in 1 .. Len(s) : AddrOf(s[i]) # a
  BY <1>1, Cells
<1>3. Places(s, a) = {}
  BY <1>2 DEF Places
<1>4. Cardinality(Places(s, a)) = 0
  BY <1>3, FS_EmptySet
<1> QED BY <1>4 DEF Messages

\* Messages are for the entries the list makes.
LEMMA NoteLinks ==
    ASSUME NEW op, NEW s, NEW e \in ToSet(s), NEW l \in Link
    PROVE  Links(s, e, l) <=> l = <<Note(op, s, e).source, Note(op, s, e).target>>
BY DEF Links, Note, Link

\* Equal messages at the end of a mailbox.
LEMMA Appended ==
    ASSUME NEW t \in Table, NEW box \in Seq(Message), NEW M \in Seq(Message)
    PROVE  LET q == box \o M IN
           /\ q \in Seq(Message) /\ Len(box) \in Nat /\ Len(M) \in Nat
           /\ Len(q) = Len(box) + Len(M) /\ Len(box) \in 0 .. Len(q)
           /\ \A n \in 1 .. Len(box) : q[n] = box[n]
           /\ \A n \in Len(box) + 1 .. Len(q) : q[n] = M[n - Len(box)] /\ n - Len(box) \in 1 .. Len(M)
           /\ \A n \in 0 .. Len(box) : Worked(t, q)[n] = Worked(t, box)[n]
<1> DEFINE q == box \o M
<1>1. Len(box) \in Nat /\ Len(M) \in Nat
  BY LenProperties
<1>2. q \in Seq(Message) /\ Len(q) = Len(box) + Len(M)
  BY ConcatProperties
<1>3. \A n \in 1 .. Len(q) : q[n] = IF n <= Len(box) THEN box[n] ELSE M[n - Len(box)]
  BY ConcatProperties
<1> HIDE DEF q
<1>4. \A n \in 1 .. Len(box) : q[n] = box[n]
  BY <1>1, <1>2, <1>3
<1>5. \A n \in Len(box) + 1 .. Len(q) : q[n] = M[n - Len(box)] /\ n - Len(box) \in 1 .. Len(M)
  BY <1>1, <1>2, <1>3
<1>6. \A n \in 0 .. Len(box) : Worked(t, q)[n] = Worked(t, box)[n]
  <2>1. Len(box) <= Len(q) /\ \A i \in 1 .. Len(box) : q[i] = box[i]
    BY <1>1, <1>2, <1>4
  <2> QED BY <2>1, <1>2, WorkedPrefix
<1> QED BY <1>1, <1>2, <1>4, <1>5, <1>6 DEF q

\* A start: each of its messages counts one more, and none raises.
LEMMA StartSettles ==
    ASSUME OneCell, NEW s, Loaded(s), NEW e \in Elem, AddrOf(e) # NoCell,
           NEW t \in Table, NEW box \in Seq(Message), NEW l \in Link
    PROVE  LET q == box \o Messages("route_add", s, AddrOf(e)) IN
           /\ Worked(t, q)[Len(q)][l] = Worked(t, box)[Len(box)][l] + Sent(s, e, l)
           /\ \A n \in Len(box) + 1 .. Len(q) : q[n].op = "route_add"
<1> DEFINE M == Messages("route_add", s, AddrOf(e))
           q == box \o M
           m == Note("route_add", s, e)
<1>1. /\ M \in Seq(Message) /\ Len(M) \in Nat
      /\ \A n \in 1 .. Len(M) : M[n] = m /\ m \in Message
      /\ Len(M) # 0 => Len(M) = Cardinality(Occurs(s, e)) /\ e \in ToSet(s)
      /\ Len(M) = 0 => e \notin ToSet(s) \/ Target(s, e) = NoCell
  BY MessagesIs
<1>2. m.op = "route_add"
  BY DEF Note
<1> HIDE DEF M, m
<1>3. /\ q \in Seq(Message) /\ Len(box) \in Nat /\ Len(q) = Len(box) + Len(M)
      /\ Len(box) \in 0 .. Len(q)
      /\ \A n \in Len(box) + 1 .. Len(q) : q[n] = M[n - Len(box)] /\ n - Len(box) \in 1 .. Len(M)
      /\ \A n \in 0 .. Len(box) : Worked(t, q)[n] = Worked(t, box)[n]
  BY <1>1, Appended
<1> HIDE DEF q
<1>4. \A n \in Len(box) + 1 .. Len(q) : q[n] = m
  BY <1>1, <1>3
<1>5. \A n \in Len(box) + 1 .. Len(q) : q[n].op = "route_add"
  BY <1>2, <1>4
<1>6. Worked(t, q)[Len(box)] = Worked(t, box)[Len(box)]
  BY <1>3
<1>7. Worked(t, box)[Len(box)] \in Table /\ Worked(t, box)[Len(box)][l] \in Nat
  <2>1. Worked(t, box)[Len(box)] \in Table
    BY <1>3, WorkedIs
  <2> QED BY <2>1 DEF Table
<1>8. CASE Len(M) = 0
  <2>1. Sent(s, e, l) = 0
    <3>1. ~Links(s, e, l)
      BY <1>1, <1>8, CellAssumption DEF Links, Link
    <3> QED BY <3>1 DEF Sent
  <2>2. Len(q) = Len(box)
    BY <1>3, <1>8
  <2> QED BY <1>5, <1>6, <1>7, <2>1, <2>2 DEF q, M
<1>9. CASE Len(M) # 0
  <2>1. m \in Message /\ e \in ToSet(s)
    BY <1>1, <1>9
  <2>2. Links(s, e, l) <=> l = <<m.source, m.target>>
    BY <2>1, NoteLinks DEF m
  <2> DEFINE W == Worked(t, q)
             x == <<m.source, m.target>>
  <2>3. /\ W[Len(box) + Len(M)][x] = W[Len(box)][x] + Len(M)
        /\ Same(W[Len(box) + Len(M)], W[Len(box)], x)
    <3>1. Len(M) \in 0 .. Len(q) - Len(box)
      BY <1>1, <1>3
    <3> QED BY <3>1, <1>2, <1>3, <1>4, <2>1, AddsRun
  <2> HIDE DEF W, x
  <2>4. W[Len(q)][l] = W[Len(box)][l] + Sent(s, e, l)
    <3>1. CASE l = x
      <4>1. Sent(s, e, l) = Len(M)
        BY <3>1, <1>1, <1>9, <2>2 DEF Sent, x
      <4> QED BY <4>1, <3>1, <2>3, <1>3
    <3>2. CASE l # x
      <4>1. Sent(s, e, l) = 0
        BY <3>2, <2>2 DEF Sent, x
      <4>2. W[Len(q)][l] = W[Len(box)][l]
        BY <3>2, <2>3, <1>3 DEF Same
      <4>3. W[Len(box)][l] \in Nat
        BY <1>6, <1>7 DEF W
      <4> QED BY <4>1, <4>2, <4>3
    <3> QED BY <3>1, <3>2
  <2> QED BY <1>5, <1>6, <2>4 DEF W, q, M
<1> QED BY <1>8, <1>9

\* A stop: each message takes one back, as long as there is one.
LEMMA StopSettles ==
    ASSUME OneCell, NEW s, Loaded(s), NEW e \in Elem, AddrOf(e) # NoCell,
           NEW t \in Table, NEW box \in Seq(Message), NEW l \in Link
    PROVE  LET q == box \o Messages("route_del", s, AddrOf(e))
               v == Worked(t, box)[Len(box)][l]
           IN  /\ v \in Nat /\ Sent(s, e, l) \in Nat
               /\ Worked(t, q)[Len(q)][l] = IF Sent(s, e, l) <= v THEN v - Sent(s, e, l) ELSE 0
               /\ \A n \in Len(box) + 1 .. Len(q) :
                      /\ q[n] = Note("route_del", s, e) /\ q[n] \in Message
                      /\ l = <<q[n].source, q[n].target>> /\ Sent(s, e, l) <= v
                             => Worked(t, q)[n - 1][l] > 0
<1> DEFINE M == Messages("route_del", s, AddrOf(e))
           q == box \o M
           m == Note("route_del", s, e)
           v == Worked(t, box)[Len(box)][l]
<1>1. /\ M \in Seq(Message) /\ Len(M) \in Nat
      /\ \A n \in 1 .. Len(M) : M[n] = m /\ m \in Message
      /\ Len(M) # 0 => Len(M) = Cardinality(Occurs(s, e)) /\ e \in ToSet(s)
      /\ Len(M) = 0 => e \notin ToSet(s) \/ Target(s, e) = NoCell
  BY MessagesIs
<1>2. m.op = "route_del"
  BY DEF Note
<1> HIDE DEF M, m
<1>3. /\ q \in Seq(Message) /\ Len(box) \in Nat /\ Len(q) = Len(box) + Len(M)
      /\ Len(box) \in 0 .. Len(q)
      /\ \A n \in Len(box) + 1 .. Len(q) : q[n] = M[n - Len(box)] /\ n - Len(box) \in 1 .. Len(M)
      /\ \A n \in 0 .. Len(box) : Worked(t, q)[n] = Worked(t, box)[n]
  BY <1>1, Appended
<1> HIDE DEF q
<1>4. \A n \in Len(box) + 1 .. Len(q) : q[n] = m /\ m \in Message
  BY <1>1, <1>3
<1>6. Worked(t, q)[Len(box)] = Worked(t, box)[Len(box)]
  BY <1>3
<1>7. v \in Nat
  <2>1. Worked(t, box)[Len(box)] \in Table
    BY <1>3, WorkedIs
  <2> QED BY <2>1 DEF Table
<1>10. Worked(t, q)[Len(box)][l] = v
  BY <1>6
<1> HIDE DEF v
<1>8. CASE Len(M) = 0
  <2>1. Sent(s, e, l) = 0
    <3>1. ~Links(s, e, l)
      BY <1>1, <1>8, CellAssumption DEF Links, Link
    <3> QED BY <3>1 DEF Sent
  <2>2. Len(q) = Len(box)
    BY <1>3, <1>8
  <2>3. \A n \in Len(box) + 1 .. Len(q) : FALSE
    BY <1>3, <2>2
  <2>4. Worked(t, q)[Len(q)][l] = v
    BY <1>10, <2>2
  <2> QED BY <1>7, <2>1, <2>3, <2>4 DEF q, M, v
<1>9. CASE Len(M) # 0
  <2>1. m \in Message /\ e \in ToSet(s)
    BY <1>1, <1>9
  <2>2. Links(s, e, l) <=> l = <<m.source, m.target>>
    BY <2>1, NoteLinks DEF m
  <2> DEFINE W == Worked(t, q)
             x == <<m.source, m.target>>
  <2>3. \A j \in 0 .. Len(M) :
            /\ W[Len(box) + j][x] = IF j <= W[Len(box)][x] THEN W[Len(box)][x] - j ELSE 0
            /\ Same(W[Len(box) + j], W[Len(box)], x)
    <3>1. Len(q) - Len(box) = Len(M)
      BY <1>1, <1>3
    <3>2. \A n \in Len(box) + 1 .. Len(q) : q[n] = m
      BY <1>4
    <3> QED BY <3>1, <3>2, <1>2, <1>3, <2>1, DropsRun
  <2>4. W[Len(box)][l] = v
    BY <1>10
  <2> HIDE DEF W
  <2>5. CASE l = x
    <3>1. Sent(s, e, l) = Len(M)
      BY <2>5, <1>1, <1>9, <2>2 DEF Sent
    <3>2. W[Len(q)][l] = IF Len(M) <= v THEN v - Len(M) ELSE 0
      <4>1. Len(M) \in 0 .. Len(M)
        BY <1>1
      <4> HIDE DEF x
      <4> QED BY <4>1, <2>3, <2>4, <2>5, <1>3
    <3>3. ASSUME NEW n \in Len(box) + 1 .. Len(q), Len(M) <= v PROVE W[n - 1][l] > 0
      <4> DEFINE j == n - 1 - Len(box)
      <4>1. j \in 0 .. Len(M) /\ j < Len(M) /\ Len(box) + j = n - 1
        BY <1>1, <1>3
      <4> HIDE DEF j, x
      <4>2. W[n - 1][l] = IF j <= v THEN v - j ELSE 0
        BY <4>1, <2>3, <2>4, <2>5
      <4> QED BY <4>1, <4>2, <3>3, <1>1, <1>7
    <3> QED BY <3>1, <3>2, <3>3, <1>1, <1>4, <1>7 DEF q, M, v, W, m
  <2>6. CASE l # x
    <3>1. Sent(s, e, l) = 0
      BY <2>6, <2>2 DEF Sent
    <3>2. W[Len(q)][l] = v
      <4>1. Len(M) \in 0 .. Len(M)
        BY <1>1
      <4> HIDE DEF x
      <4>2. Same(W[Len(q)], W[Len(box)], x)
        BY <4>1, <2>3, <1>3
      <4> QED BY <4>2, <2>4, <2>6 DEF Same
    <3>3. \A n \in Len(box) + 1 .. Len(q) : q[n] = m /\ m \in Message /\ <<q[n].source, q[n].target>> # l
      BY <1>4, <2>6
    <3> QED BY <3>1, <3>2, <3>3, <1>7 DEF q, M, v, W, m
  <2> QED BY <2>5, <2>6
<1> QED BY <1>8, <1>9

-----------------------------------------------------------------------------
(* Places counted over several PIPEs.                                       *)

\* The places e has in the PIPEs of F.
Over(ps, e, F) == UNION {{k} \X Occurs(ps[k].apps, e) : k \in F}

LEMMA OverIs ==
    ASSUME NEW ps, NEW e, NEW F, IsFiniteSet(F), \A k \in F : ps[k].apps \in Lists
    PROVE  /\ IsFiniteSet(Over(ps, e, F)) /\ Cardinality(Over(ps, e, F)) \in Nat
           /\ \A x \in Over(ps, e, F) : x[1] \in F
           /\ F = {} => Cardinality(Over(ps, e, F)) = 0
<1> DEFINE h == [k \in F |-> {k} \X Occurs(ps[k].apps, e)]
           T == {h[k] : k \in F}
<1>1. \A k \in F : h[k] = {k} \X Occurs(ps[k].apps, e)
  OBVIOUS
<1>2. \A k \in F : IsFiniteSet(h[k])
  <2> SUFFICES ASSUME NEW k \in F PROVE IsFiniteSet(h[k])
    OBVIOUS
  <2>1. IsFiniteSet(Occurs(ps[k].apps, e)) /\ IsFiniteSet({k})
    BY OccursFinite, FS_Singleton
  <2>2. IsFiniteSet({k} \X Occurs(ps[k].apps, e))
    BY <2>1, FS_Product
  <2> QED BY <2>2, <1>1
<1>3. h \in Surjection(F, T)
  BY DEF Surjection
<1>4. T = {{k} \X Occurs(ps[k].apps, e) : k \in F}
  BY <1>1
<1>5. Over(ps, e, F) = UNION T
  BY <1>4 DEF Over
<1>6. \A x \in Over(ps, e, F) : x[1] \in F
  BY DEF Over
<1>7. F = {} => Over(ps, e, F) = {}
  BY DEF Over
<1>8. \A x \in T : IsFiniteSet(x)
  BY <1>2
<1> HIDE DEF h, T
<1>9. IsFiniteSet(T)
  BY <1>3, FS_Surjection
<1>10. IsFiniteSet(UNION T)
  BY <1>8, <1>9, FS_UNION
<1>11. Cardinality(Over(ps, e, F)) \in Nat
  BY <1>5, <1>10, FS_CardinalityType
<1>12. Cardinality({}) = 0
  BY FS_EmptySet
<1> QED BY <1>5, <1>6, <1>7, <1>10, <1>11, <1>12

\* One PIPE more counts the places it has.
LEMMA OverOneMore ==
    ASSUME NEW ps, NEW e, NEW F, IsFiniteSet(F), NEW k, k \notin F,
           \A j \in F \cup {k} : ps[j].apps \in Lists
    PROVE  Cardinality(Over(ps, e, F \cup {k}))
               = Cardinality(Over(ps, e, F)) + Cardinality(Occurs(ps[k].apps, e))
<1> DEFINE C == Occurs(ps[k].apps, e)
           S == Over(ps, e, F)
           B == {k} \X C
<1>1. IsFiniteSet(S) /\ Cardinality(S) \in Nat /\ \A x \in S : x[1] \in F
  BY OverIs
<1>2. IsFiniteSet(C) /\ Cardinality(C) \in Nat
  BY OccursFinite
<1>3. Over(ps, e, F \cup {k}) = S \cup B
  BY DEF Over
<1> HIDE DEF C, S
<1>4. IsFiniteSet({k}) /\ Cardinality({k}) = 1
  BY FS_Singleton
<1>5. IsFiniteSet(B) /\ Cardinality(B) = 1 * Cardinality(C)
  BY <1>2, <1>4, FS_Product
<1>6. S \cap B = {}
  BY <1>1
<1>9. 1 * Cardinality(C) = Cardinality(C)
  BY <1>2
<1> HIDE DEF B
<1>7. Cardinality(S \cup B) = Cardinality(S) + Cardinality(B) - Cardinality({})
  BY <1>1, <1>5, <1>6, FS_Union
<1>8. Cardinality({}) = 0
  BY FS_EmptySet
<1>10. Cardinality(Over(ps, e, F \cup {k})) = Cardinality(S) + Cardinality(C) - 0
  BY <1>3, <1>5, <1>7, <1>8, <1>9
<1>11. Cardinality(S) + Cardinality(C) - 0 = Cardinality(S) + Cardinality(C)
  BY <1>1, <1>2
<1> QED BY <1>10, <1>11 DEF S, C

\* Only the lists count.
LEMMA OverSame ==
    ASSUME NEW ps, NEW qs, NEW e, NEW F, \A k \in F : ps[k].apps = qs[k].apps
    PROVE  Over(ps, e, F) = Over(qs, e, F)
BY DEF Over

-----------------------------------------------------------------------------
(* The invariant.                                                           *)

\* PIPEs are made of loaded APPs, finitely many so far.
Made ==
    /\ \A k \in PipeId : HasPipe(k) => Loaded(pipes[k].apps)
    /\ IsFiniteSet({k \in PipeId : HasPipe(k)})

\* Nothing is sent to cells that are not there or known by them.
Idle == \A a \in Addr \ Running : mailbox[a] = <<>> /\ r_table[a] = NoLinks

IInv == TypeOK /\ OneCell /\ Made /\ Idle /\ Counted /\ NeverRaises

LEMMA Pipes ==
    ASSUME TypeOK, NEW k \in PipeId
    PROVE  /\ pipes[k] = NoPipe \/ /\ pipes[k].st \in {"stopped", "started"}
                                   /\ pipes[k] = [st |-> pipes[k].st, apps |-> pipes[k].apps]
                                   /\ pipes[k].apps \in Seq(Elem)
           /\ HasPipe(k) <=> pipes[k] # NoPipe
           /\ HasPipe(k) <=> pipes[k].st \in {"stopped", "started"}
<1>1. pipes[k] \in {NoPipe} \cup [st : {"stopped", "started"}, apps : Seq(Elem)]
  BY DEF TypeOK
<1>2. NoPipe.st = "none"
  BY DEF NoPipe
<1>3. CASE pipes[k] = NoPipe
  BY <1>2, <1>3 DEF HasPipe
<1>4. CASE pipes[k] \in [st : {"stopped", "started"}, apps : Seq(Elem)]
  <2>1. pipes[k].st \in {"stopped", "started"} /\ pipes[k].apps \in Seq(Elem)
        /\ pipes[k] = [st |-> pipes[k].st, apps |-> pipes[k].apps]
    BY <1>4
  <2> QED BY <2>1, <1>2 DEF HasPipe
<1> QED BY <1>1, <1>3, <1>4

\* What feeds an entry is finite, and counted by Over.
LEMMA StartsIs ==
    ASSUME IInv, NEW e \in Elem, NEW l \in Link
    PROVE  /\ Starts(e, l) = Over(pipes, e, Feeding(e, l))
           /\ IsFiniteSet(Feeding(e, l))
           /\ \A k \in Feeding(e, l) : /\ k \in PipeId /\ pipes[k].apps \in Lists
                                       /\ Loaded(pipes[k].apps) /\ HasPipe(k)
           /\ IsFiniteSet(Starts(e, l)) /\ Cardinality(Starts(e, l)) \in Nat
<1>1. Starts(e, l) = Over(pipes, e, Feeding(e, l))
  BY DEF Starts, Over
<1>2. \A k \in Feeding(e, l) : k \in PipeId /\ HasPipe(k)
  BY DEF Feeding, HasPipe
<1>3. IsFiniteSet(Feeding(e, l))
  <2>1. Feeding(e, l) \in SUBSET {k \in PipeId : HasPipe(k)}
    BY <1>2
  <2> QED BY <2>1, FS_Subset DEF IInv, Made
<1>4. \A k \in Feeding(e, l) : Loaded(pipes[k].apps) /\ pipes[k].apps \in Lists
  BY <1>2 DEF IInv, Made, Loaded
<1>5. IsFiniteSet(Over(pipes, e, Feeding(e, l))) /\ Cardinality(Over(pipes, e, Feeding(e, l))) \in Nat
  BY <1>3, <1>4, OverIs
<1> QED BY <1>1, <1>2, <1>3, <1>4, <1>5

\* A start or stop of s keeps the types, and is not sent to cells without an APP.
LEMMA SendKeeps ==
    ASSUME TypeOK, OneCell, Idle, NEW s, Loaded(s), NEW op \in {"route_add", "route_del"},
           SendAll(op, s)
    PROVE  /\ mailbox' \in [Addr -> Seq(Message)]
           /\ \A a \in Addr \ Running : mailbox'[a] = <<>>
           /\ \A a \in Addr : mailbox'[a] = mailbox[a] \o Messages(op, s, a)
<1>1. \A a \in Addr : mailbox'[a] = mailbox[a] \o Messages(op, s, a)
  BY DEF SendAll
<1>2. \A a \in Addr : mailbox[a] \in Seq(Message)
  BY DEF TypeOK
<1>3. ASSUME NEW a \in Addr \ Running PROVE Messages(op, s, a) = <<>> /\ mailbox'[a] = <<>>
  <2>1. Messages(op, s, a) = <<>>
    BY NoMessages
  <2>2. mailbox[a] = <<>>
    BY DEF Idle
  <2> QED BY <1>1, <2>1, <2>2
<1>4. ASSUME NEW a \in Running PROVE Messages(op, s, a) \in Seq(Message)
  <2>1. PICK e \in Elem : a = AddrOf(e)
    BY Cells
  <2>2. AddrOf(e) # NoCell
    BY <2>1 DEF Running
  <2> QED BY <2>1, <2>2, MessagesIs
<1>5. ASSUME NEW a \in Addr PROVE mailbox'[a] \in Seq(Message)
  <2>1. CASE a \in Running
    BY <2>1, <1>1, <1>2, <1>4, ConcatProperties
  <2>2. CASE a \notin Running
    <3>1. mailbox'[a] = <<>>
      BY <2>2, <1>3
    <3>2. <<>> \in Seq(Message)
      BY EmptySeq
    <3> QED BY <3>1, <3>2
  <2> QED BY <2>1, <2>2
<1>6. mailbox' = [a \in Addr |-> mailbox'[a]]
  BY DEF SendAll
<1>7. mailbox' \in [Addr -> Seq(Message)]
  BY <1>5, <1>6
<1> QED BY <1>1, <1>3, <1>7

-----------------------------------------------------------------------------
(* Each action keeps the invariant.                                         *)

LEMMA InitHolds == Init => IInv
<1> SUFFICES ASSUME Init PROVE IInv
  OBVIOUS
<1> USE DEF Init
<1>1. NoLinks \in Table /\ \A l \in Link : NoLinks[l] = 0
  BY DEF NoLinks, Table
<1>2. \A k \in PipeId : ~HasPipe(k) /\ pipes[k] = NoPipe /\ pipes[k].st = "none"
  BY DEF HasPipe, NoPipe
<1>3. TypeOK
  <2>1. <<>> \in Seq(Message)
    BY EmptySeq
  <2> QED BY <1>1, <2>1 DEF TypeOK
<1>4. OneCell
  BY DEF OneCell
<1>5. Made
  <2>1. {k \in PipeId : HasPipe(k)} = {}
    BY <1>2
  <2> QED BY <1>2, <2>1, FS_EmptySet DEF Made
<1>6. Idle
  BY <1>4, Cells DEF Idle
<1>7. Counted
  <2> SUFFICES ASSUME NEW e \in App, AddrOf(e) # NoCell, NEW l \in Link
               PROVE  Settled(AddrOf(e))[l] = Cardinality(Starts(e, l))
    BY DEF Counted
  <2>1. AddrOf(e) \in Addr /\ AddrOf(e) \in Cell
    BY <1>4, Cells
  <2>2. mailbox[AddrOf(e)] = <<>> /\ r_table[AddrOf(e)] = NoLinks
    BY <2>1
  <2>3. Worked(NoLinks, <<>>)[0] = NoLinks
    <3>1. <<>> \in Seq(Message)
      BY EmptySeq
    <3> QED BY <1>1, <3>1, WorkedIs
  <2>4. Settled(AddrOf(e)) = NoLinks
    BY <2>2, <2>3 DEF Settled
  <2>5. Starts(e, l) = {}
    BY <1>2 DEF Starts, Feeding
  <2> QED BY <1>1, <2>4, <2>5, FS_EmptySet
<1>8. NeverRaises
  BY DEF NeverRaises, Addr
<1> QED BY <1>3, <1>4, <1>5, <1>6, <1>7, <1>8 DEF IInv

\* The entries a list makes do not change with the PIPEs.
LEMMA WiringKept ==
    ASSUME addr' = addr
    PROVE  /\ \A e : AddrOf(e)' = AddrOf(e)
           /\ Running' = Running
           /\ (OneCell /\ used \subseteq used' => OneCell')
           /\ \A s, e : Target(s, e)' = Target(s, e)
           /\ \A s, e, l : Links(s, e, l)' <=> Links(s, e, l)
           /\ \A s : Loaded(s)' <=> Loaded(s)
<1>1. \A e : AddrOf(e)' = AddrOf(e)
  BY DEF AddrOf
<1>2. Running' = Running
  BY <1>1 DEF Running
<1>3. OneCell /\ used \subseteq used' => OneCell'
  BY DEF OneCell
<1>4. \A s, e : Target(s, e)' = Target(s, e)
  BY <1>1 DEF Target
<1>5. \A s, e, l : Links(s, e, l)' <=> Links(s, e, l)
  BY <1>4 DEF Links
<1>6. \A s : Loaded(s)' <=> Loaded(s)
  BY <1>1 DEF Loaded
<1> QED BY <1>1, <1>2, <1>3, <1>4, <1>5, <1>6

\* The PIPE k becomes the list s, started or stopped.
Turned(k, st, s) == pipes' = [pipes EXCEPT ![k] = [st |-> st, apps |-> s]]

LEMMA TurnedIs ==
    ASSUME TypeOK, NEW k \in PipeId, NEW st, NEW s, Turned(k, st, s)
    PROVE  /\ pipes'[k] = [st |-> st, apps |-> s] /\ pipes'[k].st = st /\ pipes'[k].apps = s
           /\ \A j \in PipeId : j # k => pipes'[j] = pipes[j]
BY DEF Turned, TypeOK

\* What remains to be shown of a change of one PIPE: the counts.
LEMMA PipeChanged ==
    ASSUME IInv, NEW k \in PipeId, NEW s, Loaded(s), NEW st \in {"stopped", "started"},
           Turned(k, st, s),
           UNCHANGED <<addr, used, r_table>>, cleaned' \in BOOLEAN,
           mailbox' \in [Addr -> Seq(Message)],
           \A a \in Addr \ Running : mailbox'[a] = <<>>
    PROVE  TypeOK' /\ OneCell' /\ Made' /\ Idle'
<1>1. s \in Seq(Elem)
  BY ListIs DEF Loaded
<1>2. TypeOK'
  <2>1. [st |-> st, apps |-> s] \in [st : {"stopped", "started"}, apps : Seq(Elem)]
    BY <1>1
  <2>2. pipes \in [PipeId -> {NoPipe} \cup [st : {"stopped", "started"}, apps : Seq(Elem)]]
    BY DEF IInv, TypeOK
  <2>3. pipes' \in [PipeId -> {NoPipe} \cup [st : {"stopped", "started"}, apps : Seq(Elem)]]
    BY <2>1, <2>2 DEF Turned
  <2> QED BY <2>3 DEF IInv, TypeOK
<1>3. OneCell'
  BY WiringKept DEF IInv
<1>5. \A j \in PipeId : j # k => pipes'[j] = pipes[j]
  BY TurnedIs DEF IInv
<1>6. pipes'[k].apps = s
  BY TurnedIs DEF IInv
<1>4. \A j \in PipeId : HasPipe(j)' => j = k \/ HasPipe(j)
  BY <1>5 DEF HasPipe
<1>7. Made'
  <2>1. ASSUME NEW j \in PipeId, HasPipe(j)' PROVE Loaded(pipes[j].apps)'
    <3>1. Loaded(pipes'[j].apps)
      BY <1>4, <1>5, <1>6, <2>1 DEF IInv, Made
    <3> QED BY <3>1, WiringKept DEF Loaded, AddrOf
  <2> DEFINE D == {j \in PipeId : HasPipe(j)}
             E == {j \in PipeId : HasPipe(j)'}
  <2>2. E \in SUBSET (D \cup {k})
    BY <1>4
  <2>3. IsFiniteSet(D)
    BY DEF IInv, Made
  <2> HIDE DEF D
  <2>4. IsFiniteSet(E)
    BY <2>2, <2>3, FS_AddElement, FS_Subset
  <2> QED BY <2>1, <2>4 DEF Made
<1>8. Idle'
  BY WiringKept DEF Idle, IInv
<1> QED BY <1>2, <1>3, <1>7, <1>8

\* What feeds an entry after one PIPE changed.
LEMMA FeedsChanged ==
    ASSUME IInv, NEW k \in PipeId, NEW s, Loaded(s), NEW st \in {"stopped", "started"},
           pipes'[k] = [st |-> st, apps |-> s], addr' = addr,
           \A j \in PipeId : j # k => pipes'[j] = pipes[j],
           pipes[k].st = "started" => pipes[k].apps = s,
           NEW e \in Elem, NEW l \in Link
    PROVE  LET D == IF Links(s, e, l) /\ pipes[k].st = "started" THEN Sent(s, e, l) ELSE 0
               E == IF Links(s, e, l) /\ st = "started" THEN Sent(s, e, l) ELSE 0
           IN  /\ Cardinality(Starts(e, l)) \in Nat /\ Sent(s, e, l) \in Nat
               /\ D <= Cardinality(Starts(e, l))
               /\ Cardinality(Starts(e, l)') = Cardinality(Starts(e, l)) - D + E
<1> DEFINE F == Feeding(e, l)
           G == F \ {k}
           n == Cardinality(Over(pipes, e, G))
           o == Cardinality(Occurs(s, e))
<1>1. /\ Starts(e, l) = Over(pipes, e, F) /\ IsFiniteSet(F)
      /\ \A j \in F : j \in PipeId /\ pipes[j].apps \in Lists
      /\ Cardinality(Starts(e, l)) \in Nat
  BY StartsIs
<1>2. s \in Lists
  BY DEF Loaded
<1>3. o \in Nat /\ Sent(s, e, l) = IF Links(s, e, l) THEN o ELSE 0
  BY <1>2, OccursFinite DEF Sent
<1>4. /\ pipes'[k].apps = s /\ pipes'[k].st = st
      /\ \A j \in PipeId : j # k => pipes'[j] = pipes[j]
  OBVIOUS
<1>5. Starts(e, l)' = Over(pipes', e, Feeding(e, l)')
  BY DEF Starts, Over
<1>6. Feeding(e, l)' = IF Links(s, e, l) /\ st = "started" THEN G \cup {k} ELSE G
  <2>1. \A j \in PipeId : Links(pipes[j].apps, e, l)' <=> Links(pipes'[j].apps, e, l)
    BY DEF Links, Target, AddrOf
  <2>2. \A j \in PipeId : j \in Feeding(e, l)' <=> pipes'[j].st = "started" /\ Links(pipes'[j].apps, e, l)
    BY <2>1 DEF Feeding
  <2>3. \A j \in PipeId : j # k => (j \in Feeding(e, l)' <=> j \in F)
    BY <1>4, <2>2 DEF Feeding
  <2>4. k \in Feeding(e, l)' <=> st = "started" /\ Links(s, e, l)
    BY <1>4, <2>2
  <2>5. Feeding(e, l)' \subseteq PipeId /\ F \subseteq PipeId
    BY DEF Feeding
  <2> QED BY <2>3, <2>4, <2>5
<1>7. F = IF Links(s, e, l) /\ pipes[k].st = "started" THEN G \cup {k} ELSE G
  BY DEF Feeding
<1>8. IsFiniteSet(G) /\ n \in Nat
  <2>1. IsFiniteSet(G)
    BY <1>1, FS_RemoveElement
  <2> QED BY <2>1, <1>1, OverIs
<1>9. Cardinality(Over(pipes', e, G)) = n
  <2>1. \A j \in G : pipes[j].apps = pipes'[j].apps
    BY <1>1, <1>4
  <2> HIDE DEF G
  <2>2. Over(pipes, e, G) = Over(pipes', e, G)
    BY <2>1, OverSame
  <2> QED BY <2>2
<1>10. Cardinality(Over(pipes', e, G \cup {k})) = n + o
  <2>1. \A j \in G \cup {k} : pipes'[j].apps \in Lists
    BY <1>1, <1>2, <1>4
  <2>2. k \notin G
    OBVIOUS
  <2> HIDE DEF G
  <2>3. Cardinality(Over(pipes', e, G \cup {k}))
            = Cardinality(Over(pipes', e, G)) + Cardinality(Occurs(pipes'[k].apps, e))
    BY <1>8, <2>1, <2>2, OverOneMore
  <2> QED BY <1>4, <1>9, <2>3
<1>11. pipes[k].st = "started" => Cardinality(Over(pipes, e, G \cup {k})) = n + o
  <2> SUFFICES ASSUME pipes[k].st = "started" PROVE Cardinality(Over(pipes, e, G \cup {k})) = n + o
    OBVIOUS
  <2>1. \A j \in G \cup {k} : pipes[j].apps \in Lists
    BY <1>1, <1>2
  <2>2. k \notin G
    OBVIOUS
  <2> HIDE DEF G
  <2> QED BY <1>8, <2>1, <2>2, OverOneMore
<1> HIDE DEF n, o, G
<1>12. Cardinality(Starts(e, l)) = IF Links(s, e, l) /\ pipes[k].st = "started" THEN n + o ELSE n
  BY <1>1, <1>7, <1>11 DEF n
<1>13. Cardinality(Starts(e, l)') = IF Links(s, e, l) /\ st = "started" THEN n + o ELSE n
  BY <1>5, <1>6, <1>9, <1>10
<1> QED BY <1>1, <1>3, <1>8, <1>12, <1>13

\* Starting a PIPE, new or stopped.
LEMMA StartKeeps ==
    ASSUME IInv, NEW k \in PipeId, NEW s, Loaded(s), pipes[k].st # "started",
           Turned(k, "started", s),
           UNCHANGED <<addr, used, r_table, cleaned>>, SendAll("route_add", s)
    PROVE  IInv'
<1>1. TypeOK /\ OneCell /\ Idle /\ Counted /\ NeverRaises
  BY DEF IInv
<1>2. /\ mailbox' \in [Addr -> Seq(Message)]
      /\ \A a \in Addr \ Running : mailbox'[a] = <<>>
      /\ \A a \in Addr : mailbox'[a] = mailbox[a] \o Messages("route_add", s, a)
  BY <1>1, SendKeeps
<1>3. TypeOK' /\ OneCell' /\ Made' /\ Idle'
  BY <1>1, <1>2, PipeChanged DEF TypeOK
<1>4. pipes'[k] = [st |-> "started", apps |-> s] /\ \A j \in PipeId : j # k => pipes'[j] = pipes[j]
  BY <1>1, TurnedIs
<1>5. \A a \in Cell : mailbox[a] \in Seq(Message) /\ r_table[a] \in Table /\ r_table'[a] = r_table[a]
  BY <1>1 DEF TypeOK, Addr
<1>6. Counted'
  <2> SUFFICES ASSUME NEW e \in App, AddrOf(e) # NoCell, NEW l \in Link
               PROVE  Settled(AddrOf(e))'[l] = Cardinality(Starts(e, l)')
    BY DEF Counted, AddrOf
  <2> DEFINE a == AddrOf(e)
             box == mailbox[a]
             q == box \o Messages("route_add", s, a)
  <2>1. a \in Addr /\ a \in Cell /\ e \in Elem
    BY <1>1, Cells
  <2>2. Settled(a)' = Worked(r_table[a], q)[Len(q)]
    <3>1. AddrOf(e)' = AddrOf(e)
      BY WiringKept
    <3> QED BY <3>1, <2>1, <1>2, <1>5 DEF Settled
  <2>3. Worked(r_table[a], q)[Len(q)][l] = Worked(r_table[a], box)[Len(box)][l] + Sent(s, e, l)
    BY <1>1, <1>5, <2>1, StartSettles
  <2>4. Worked(r_table[a], box)[Len(box)][l] = Cardinality(Starts(e, l))
    BY <1>1 DEF Counted, Settled
  <2>5. /\ Cardinality(Starts(e, l)) \in Nat /\ Sent(s, e, l) \in Nat
        /\ Cardinality(Starts(e, l)') = Cardinality(Starts(e, l)) - 0
                                            + (IF Links(s, e, l) THEN Sent(s, e, l) ELSE 0)
    BY <1>4, <2>1, FeedsChanged
  <2>6. Links(s, e, l) \/ Sent(s, e, l) = 0
    BY DEF Sent
  <2> HIDE DEF a, box, q
  <2>7. Settled(a)'[l] = Cardinality(Starts(e, l)) + Sent(s, e, l)
    BY <2>2, <2>3, <2>4
  <2>8. Cardinality(Starts(e, l)') = Cardinality(Starts(e, l)) + Sent(s, e, l)
    BY <2>5, <2>6
  <2> QED BY <2>7, <2>8 DEF a
<1>7. NeverRaises'
  <2> SUFFICES ASSUME ~cleaned, NEW a \in Cell, NEW n \in 1 .. Len(mailbox'[a]),
                      mailbox'[a][n].op = "route_del"
               PROVE  Worked(r_table'[a], mailbox'[a])[n - 1]
                          [<<mailbox'[a][n].source, mailbox'[a][n].target>>] > 0
    BY DEF NeverRaises
  <2> DEFINE box == mailbox[a]
             M == Messages("route_add", s, a)
             q == box \o M
  <2>1. CASE a \in Running
    <3>1. PICK e \in App : a = AddrOf(e)
      BY <1>1, <2>1, Cells
    <3>2. AddrOf(e) # NoCell /\ e \in Elem /\ a \in Addr
      BY <1>1, <2>1, <3>1, Cells DEF Running
    <3>3. M \in Seq(Message)
      BY <1>1, <3>1, <3>2, MessagesIs
    <3>4. \A i \in Len(box) + 1 .. Len(q) : q[i].op = "route_add"
      <4>1. \E l : l \in Link
        <5>1. <<e, a>> \in Link
          BY <3>1, <3>2 DEF Link
        <5> QED BY <5>1
      <4> QED BY <4>1, <1>1, <1>5, <3>1, <3>2, StartSettles
    <3> HIDE DEF M
    <3>5. /\ Len(box) \in Nat /\ Len(q) \in Nat /\ \A i \in 1 .. Len(box) : q[i] = box[i]
          /\ \A i \in 0 .. Len(box) : Worked(r_table[a], q)[i] = Worked(r_table[a], box)[i]
      <4>1. Len(box) \in 0 .. Len(q)
        BY <1>5, <3>3, Appended
      <4> QED BY <1>5, <3>3, <4>1, Appended
    <3>6. mailbox'[a] = q
      BY <1>2, <3>2 DEF M
    <3> HIDE DEF q
    <3>7. n \in 1 .. Len(box) /\ n - 1 \in 0 .. Len(box)
      BY <3>4, <3>5, <3>6
    <3>8. q[n] = box[n] /\ Worked(r_table[a], q)[n - 1] = Worked(r_table[a], box)[n - 1]
      BY <3>5, <3>7
    <3>9. Worked(r_table[a], box)[n - 1][<<box[n].source, box[n].target>>] > 0
      BY <1>1, <3>6, <3>7, <3>8 DEF NeverRaises
    <3> QED BY <3>6, <3>8, <3>9
  <2>2. CASE a \notin Running
    <3>1. mailbox'[a] = <<>>
      BY <1>1, <1>2, <2>2, Cells
    <3>2. Len(<<>>) = 0
      BY EmptySeq
    <3> QED BY <3>1, <3>2
  <2> QED BY <2>1, <2>2
<1> QED BY <1>3, <1>6, <1>7 DEF IInv

\* Stopping a PIPE that runs: what it started is there to be taken back.
LEMMA StopKeeps ==
    ASSUME IInv, NEW k \in PipeId, NEW s, s = pipes[k].apps, pipes[k].st = "started",
           Turned(k, "stopped", s),
           UNCHANGED <<addr, used, r_table, cleaned>>, SendAll("route_del", s)
    PROVE  IInv'
<1>1. TypeOK /\ OneCell /\ Idle /\ Counted /\ NeverRaises
  BY DEF IInv
<1>8. Loaded(s)
  BY DEF IInv, Made, HasPipe
<1>2. /\ mailbox' \in [Addr -> Seq(Message)]
      /\ \A a \in Addr \ Running : mailbox'[a] = <<>>
      /\ \A a \in Addr : mailbox'[a] = mailbox[a] \o Messages("route_del", s, a)
  BY <1>1, <1>8, SendKeeps
<1>3. TypeOK' /\ OneCell' /\ Made' /\ Idle'
  BY <1>1, <1>2, <1>8, PipeChanged DEF TypeOK
<1>4. pipes'[k] = [st |-> "stopped", apps |-> s] /\ \A j \in PipeId : j # k => pipes'[j] = pipes[j]
  BY <1>1, TurnedIs
<1>5. \A a \in Cell : mailbox[a] \in Seq(Message) /\ r_table[a] \in Table /\ r_table'[a] = r_table[a]
  BY <1>1 DEF TypeOK, Addr
<1>9. ASSUME NEW e \in App, AddrOf(e) # NoCell, NEW l \in Link
      PROVE  LET v == Worked(r_table[AddrOf(e)], mailbox[AddrOf(e)])[Len(mailbox[AddrOf(e)])][l]
             IN  /\ v \in Nat /\ Sent(s, e, l) \in Nat /\ Sent(s, e, l) <= v
                 /\ v = Cardinality(Starts(e, l))
                 /\ Cardinality(Starts(e, l)') = v - Sent(s, e, l)
  <2>1. Worked(r_table[AddrOf(e)], mailbox[AddrOf(e)])[Len(mailbox[AddrOf(e)])][l]
            = Cardinality(Starts(e, l))
    BY <1>1, <1>9 DEF Counted, Settled
  <2>2. LET D == IF Links(s, e, l) /\ pipes[k].st = "started" THEN Sent(s, e, l) ELSE 0
            E == IF Links(s, e, l) /\ "stopped" = "started" THEN Sent(s, e, l) ELSE 0
        IN  /\ Cardinality(Starts(e, l)) \in Nat /\ Sent(s, e, l) \in Nat
            /\ D <= Cardinality(Starts(e, l))
            /\ Cardinality(Starts(e, l)') = Cardinality(Starts(e, l)) - D + E
    <3>1. "stopped" \in {"stopped", "started"} /\ pipes[k].apps = s /\ e \in Elem
      BY DEF Elem
    <3> QED BY <1>4, <1>8, <3>1, FeedsChanged
  <2>3. Links(s, e, l) \/ Sent(s, e, l) = 0
    BY DEF Sent
  <2> QED BY <2>1, <2>2, <2>3
<1>6. Counted'
  <2> SUFFICES ASSUME NEW e \in App, AddrOf(e) # NoCell, NEW l \in Link
               PROVE  Settled(AddrOf(e))'[l] = Cardinality(Starts(e, l)')
    BY DEF Counted, AddrOf
  <2> DEFINE a == AddrOf(e)
             box == mailbox[a]
             q == box \o Messages("route_del", s, a)
             v == Worked(r_table[a], box)[Len(box)][l]
  <2>1. a \in Addr /\ a \in Cell /\ e \in Elem
    BY <1>1, Cells
  <2>2. Settled(a)' = Worked(r_table[a], q)[Len(q)]
    <3>1. AddrOf(e)' = AddrOf(e)
      BY WiringKept
    <3> QED BY <3>1, <2>1, <1>2, <1>5 DEF Settled
  <2>3. Worked(r_table[a], q)[Len(q)][l] = IF Sent(s, e, l) <= v THEN v - Sent(s, e, l) ELSE 0
    <3>1. OneCell /\ Loaded(s) /\ r_table[a] \in Table /\ box \in Seq(Message)
      BY <1>1, <1>5, <1>8, <2>1
    <3>2. \A t \in Table : LET b == mailbox[AddrOf(e)] \o Messages("route_del", s, AddrOf(e))
                               w == Worked(t, mailbox[AddrOf(e)])[Len(mailbox[AddrOf(e)])][l]
                           IN  Worked(t, b)[Len(b)][l] = IF Sent(s, e, l) <= w
                                                         THEN w - Sent(s, e, l) ELSE 0
      <4> SUFFICES ASSUME NEW t \in Table
                   PROVE  LET b == mailbox[AddrOf(e)] \o Messages("route_del", s, AddrOf(e))
                              w == Worked(t, mailbox[AddrOf(e)])[Len(mailbox[AddrOf(e)])][l]
                          IN  Worked(t, b)[Len(b)][l] = IF Sent(s, e, l) <= w
                                                        THEN w - Sent(s, e, l) ELSE 0
        OBVIOUS
      <4> QED BY <2>1, <3>1, StopSettles
    <3> QED BY <3>1, <3>2
  <2>4. Sent(s, e, l) <= v /\ Cardinality(Starts(e, l)') = v - Sent(s, e, l)
    BY <1>9
  <2> HIDE DEF a, box, q, v
  <2> QED BY <2>2, <2>3, <2>4 DEF a
<1>7. NeverRaises'
  <2> SUFFICES ASSUME ~cleaned, NEW a \in Cell, NEW n \in 1 .. Len(mailbox'[a]),
                      mailbox'[a][n].op = "route_del"
               PROVE  Worked(r_table'[a], mailbox'[a])[n - 1]
                          [<<mailbox'[a][n].source, mailbox'[a][n].target>>] > 0
    BY DEF NeverRaises
  <2> DEFINE box == mailbox[a]
             M == Messages("route_del", s, a)
             q == box \o M
  <2>1. CASE a \in Running
    <3>1. PICK e \in App : a = AddrOf(e)
      BY <1>1, <2>1, Cells
    <3>2. AddrOf(e) # NoCell /\ e \in Elem /\ a \in Addr
      BY <1>1, <2>1, <3>1, Cells DEF Running
    <3>3. M \in Seq(Message)
      BY <1>1, <1>8, <3>1, <3>2, MessagesIs
    <3>4. ASSUME NEW i \in Len(box) + 1 .. Len(q)
          PROVE  Worked(r_table[a], q)[i - 1][<<q[i].source, q[i].target>>] > 0
      <4>1. <<e, a>> \in Link
        BY <3>1, <3>2 DEF Link
      <4>2. q[i] \in Message
        BY <4>1, <1>1, <1>5, <1>8, <3>1, <3>2, StopSettles
      <4> DEFINE l == <<q[i].source, q[i].target>>
                 v == Worked(r_table[a], box)[Len(box)][l]
      <4>3. l \in Link
        BY <4>2, LinkOf
      <4> HIDE DEF l
      <4>4. Sent(s, e, l) <= v
        BY <1>9, <3>1, <3>2, <4>3
      <4>5. l = <<q[i].source, q[i].target>> /\ Sent(s, e, l) <= v => Worked(r_table[a], q)[i - 1][l] > 0
        <5>1. OneCell /\ Loaded(s) /\ r_table[a] \in Table /\ box \in Seq(Message)
          BY <1>1, <1>5, <1>8, <3>2, <3>1, Cells
        <5>2. \A t \in Table, b \in Seq(Message) :
                 LET p == b \o Messages("route_del", s, AddrOf(e))
                     w == Worked(t, b)[Len(b)][l]
                 IN  \A m \in Len(b) + 1 .. Len(p) :
                         l = <<p[m].source, p[m].target>> /\ Sent(s, e, l) <= w
                             => Worked(t, p)[m - 1][l] > 0
          BY <4>3, <5>1, <3>2, StopSettles
        <5> QED BY <5>1, <5>2, <3>1, <3>4
      <4> QED BY <4>4, <4>5 DEF l
    <3> HIDE DEF M
    <3>5. /\ Len(box) \in Nat /\ Len(q) \in Nat /\ \A i \in 1 .. Len(box) : q[i] = box[i]
          /\ \A i \in 0 .. Len(box) : Worked(r_table[a], q)[i] = Worked(r_table[a], box)[i]
      <4>1. r_table[a] \in Table /\ box \in Seq(Message)
        BY <1>5
      <4> HIDE DEF box
      <4>2. Len(box) \in Nat /\ Len(M) \in Nat /\ Len(q) = Len(box) + Len(M)
        BY <3>3, <4>1, Appended
      <4>3. \A i \in 1 .. Len(box) : q[i] = box[i]
        BY <3>3, <4>1, Appended
      <4>4. \A i \in 0 .. Len(box) : Worked(r_table[a], q)[i] = Worked(r_table[a], box)[i]
        BY <3>3, <4>1, Appended
      <4> QED BY <4>2, <4>3, <4>4
    <3>6. mailbox'[a] = q
      BY <1>2, <3>2 DEF M
    <3> HIDE DEF q
    <3>7. CASE n > Len(box)
      <4>1. n \in Len(box) + 1 .. Len(q)
        BY <3>5, <3>6, <3>7
      <4> QED BY <4>1, <3>4, <3>6
    <3>8. CASE ~ (n > Len(box))
      <4>1. n \in 1 .. Len(box) /\ n - 1 \in 0 .. Len(box)
        BY <3>5, <3>6, <3>8
      <4>2. q[n] = box[n] /\ Worked(r_table[a], q)[n - 1] = Worked(r_table[a], box)[n - 1]
        BY <3>5, <4>1
      <4>3. Worked(r_table[a], box)[n - 1][<<box[n].source, box[n].target>>] > 0
        BY <1>1, <3>6, <4>1, <4>2 DEF NeverRaises
      <4> QED BY <3>6, <4>2, <4>3
    <3> QED BY <3>7, <3>8
  <2>2. CASE a \notin Running
    <3>1. mailbox'[a] = <<>>
      BY <1>1, <1>2, <2>2, Cells
    <3>2. Len(<<>>) = 0
      BY EmptySeq
    <3> QED BY <3>1, <3>2
  <2> QED BY <2>1, <2>2
<1> QED BY <1>3, <1>6, <1>7 DEF IInv

\* Steps that send nothing and leave the running PIPEs as they are.
LEMMA QuietKeeps ==
    ASSUME IInv, TypeOK', Made', UNCHANGED <<addr, used, mailbox, r_table, cleaned>>,
           \A j \in PipeId : pipes[j].st = "started" \/ pipes'[j].st = "started"
                                 => pipes'[j] = pipes[j]
    PROVE  IInv'
<1>1. OneCell' /\ Idle' /\ NeverRaises'
  BY WiringKept DEF IInv, Idle, NeverRaises
<1>2. ASSUME NEW e, NEW l PROVE Starts(e, l)' = Starts(e, l)
  <2>1. \A j \in PipeId : Links(pipes[j].apps, e, l)' <=> Links(pipes'[j].apps, e, l)
    BY DEF Links, Target, AddrOf
  <2>2. Feeding(e, l)' = Feeding(e, l)
    BY <2>1 DEF Feeding
  <2>3. Starts(e, l) = Over(pipes, e, Feeding(e, l)) /\ Starts(e, l)' = Over(pipes', e, Feeding(e, l))
    BY <2>2 DEF Starts, Over
  <2>4. \A j \in Feeding(e, l) : pipes[j].apps = pipes'[j].apps
    BY DEF Feeding
  <2> QED BY <2>3, <2>4, OverSame
<1>3. \A a : Settled(a)' = Settled(a)
  BY DEF Settled
<1>4. Counted'
  BY <1>2, <1>3, WiringKept DEF Counted, IInv
<1> QED BY <1>1, <1>4 DEF IInv

LEMMA PipeNewKeeps ==
    ASSUME IInv, NEW k \in PipeId, NEW s \in Lists, NEW auto \in BOOLEAN, PipeNew(k, s, auto)
    PROVE  IInv'
<1>1. Loaded(s)
  BY ListIs DEF PipeNew, Loaded
<1>2. TypeOK /\ ~HasPipe(k) /\ pipes[k].st # "started"
  BY DEF IInv, PipeNew, HasPipe
<1>3. CASE auto
  BY <1>1, <1>2, <1>3, StartKeeps DEF PipeNew, Turned
<1>4. CASE ~auto
  <2>1. Turned(k, "stopped", s) /\ UNCHANGED <<addr, used, mailbox, r_table, cleaned>>
    BY <1>4 DEF PipeNew, Turned
  <2>2. /\ mailbox' \in [Addr -> Seq(Message)] /\ cleaned' \in BOOLEAN
        /\ \A a \in Addr \ Running : mailbox'[a] = <<>>
    BY <2>1 DEF IInv, TypeOK, Idle
  <2>3. TypeOK' /\ Made'
    BY <1>1, <2>1, <2>2, PipeChanged
  <2>4. \A j \in PipeId : j # k => pipes'[j] = pipes[j]
    BY <1>2, <2>1, TurnedIs
  <2>5. pipes'[k].st = "stopped"
    BY <1>2, <2>1, TurnedIs
  <2> QED BY <1>2, <2>1, <2>3, <2>4, <2>5, QuietKeeps
<1> QED BY <1>3, <1>4

LEMMA PipeStartKeeps ==
    ASSUME IInv, NEW k \in PipeId, PipeStart(k)
    PROVE  IInv'
<1>1. TypeOK /\ pipes[k].st = "stopped" /\ HasPipe(k)
  BY DEF IInv, PipeStart, HasPipe
<1>2. Loaded(pipes[k].apps)
  BY <1>1 DEF IInv, Made
<1>3. Turned(k, "started", pipes[k].apps)
  <2>1. pipes[k] = [st |-> pipes[k].st, apps |-> pipes[k].apps]
    BY <1>1, Pipes
  <2>2. [pipes[k] EXCEPT !.st = "started"] = [st |-> "started", apps |-> pipes[k].apps]
    BY <2>1
  <2>3. pipes' = [pipes EXCEPT ![k] = [pipes[k] EXCEPT !.st = "started"]]
    BY DEF PipeStart
  <2> QED BY <2>2, <2>3 DEF Turned
<1> QED BY <1>1, <1>2, <1>3, StartKeeps DEF PipeStart

LEMMA PipeStopKeeps ==
    ASSUME IInv, NEW k \in PipeId, PipeStop(k)
    PROVE  IInv'
<1>1. TypeOK /\ pipes[k].st = "started" /\ HasPipe(k)
  BY DEF IInv, PipeStop, Stoppable, HasPipe
<1>2. Turned(k, "stopped", pipes[k].apps)
  <2>1. pipes[k] = [st |-> pipes[k].st, apps |-> pipes[k].apps]
    BY <1>1, Pipes
  <2>2. [pipes[k] EXCEPT !.st = "stopped"] = [st |-> "stopped", apps |-> pipes[k].apps]
    BY <2>1
  <2>3. pipes' = [pipes EXCEPT ![k] = [pipes[k] EXCEPT !.st = "stopped"]]
    BY DEF PipeStop
  <2> QED BY <2>2, <2>3 DEF Turned
<1> QED BY <1>1, <1>2, StopKeeps DEF PipeStop

\* Fewer PIPEs, of those there are.
LEMMA FewerPipes ==
    ASSUME IInv, addr' = addr, pipes' \in [PipeId -> {NoPipe} \cup [st : {"stopped", "started"}, apps : Seq(Elem)]],
           \A j \in PipeId : pipes'[j] = pipes[j] \/ pipes'[j] = NoPipe
    PROVE  Made'
<1>1. NoPipe.st = "none"
  BY DEF NoPipe
<1>2. \A j \in PipeId : HasPipe(j)' => HasPipe(j) /\ pipes'[j] = pipes[j]
  BY <1>1 DEF HasPipe
<1>3. \A j \in PipeId : HasPipe(j)' => Loaded(pipes[j].apps)'
  BY <1>2 DEF IInv, Made, Loaded, AddrOf
<1> DEFINE D == {j \in PipeId : HasPipe(j)}
           E == {j \in PipeId : HasPipe(j)'}
<1>4. E \in SUBSET D
  BY <1>2
<1>5. IsFiniteSet(D)
  BY DEF IInv, Made
<1> HIDE DEF D
<1>6. IsFiniteSet(E)
  BY <1>4, <1>5, FS_Subset
<1> QED BY <1>3, <1>6 DEF Made

LEMMA PipeRemoveKeeps ==
    ASSUME IInv, NEW k \in PipeId, PipeRemove(k)
    PROVE  IInv'
<1>1. NoPipe.st = "none" /\ pipes[k].st = "stopped"
  BY DEF NoPipe, PipeRemove
<1>2. TypeOK'
  BY DEF IInv, TypeOK, PipeRemove
<1>3. pipes'[k] = NoPipe /\ \A j \in PipeId : j # k => pipes'[j] = pipes[j]
  BY DEF IInv, TypeOK, PipeRemove
<1>4. Made'
  BY <1>2, <1>3, FewerPipes DEF PipeRemove, TypeOK
<1> QED BY <1>1, <1>2, <1>3, <1>4, QuietKeeps DEF PipeRemove

\* APPs that come or go and are in no PIPE do not change what PIPEs need.
LEMMA OthersKept ==
    ASSUME IInv, NEW i \in App, \A j \in App : j # i => addr'[j] = addr[j], pipes' = pipes,
           \A k \in PipeId : \A n \in 1 .. Len(pipes[k].apps) : HasPipe(k) => pipes[k].apps[n] # i
    PROVE  /\ \A e \in Elem : e # i => AddrOf(e)' = AddrOf(e)
           /\ Made'
           /\ \A e \in Elem, l \in Link : Starts(e, l)' = Starts(e, l)
           /\ \A l \in Link : Starts(i, l) = {}
<1>1. \A e \in Elem : e # i => AddrOf(e)' = AddrOf(e)
  BY DEF AddrOf, Elem
<1>2. ASSUME NEW k \in PipeId, HasPipe(k)
      PROVE  /\ pipes[k].apps \in Lists /\ Loaded(pipes[k].apps)
             /\ \A n \in 1 .. Len(pipes[k].apps) :
                    /\ pipes[k].apps[n] \in Elem
                    /\ AddrOf(pipes[k].apps[n])' = AddrOf(pipes[k].apps[n])
  <2>1. Loaded(pipes[k].apps) /\ pipes[k].apps \in Lists
    BY <1>2 DEF IInv, Made, Loaded
  <2>2. \A n \in 1 .. Len(pipes[k].apps) : pipes[k].apps[n] \in Elem
    BY <2>1, ListIs
  <2> QED BY <1>1, <1>2, <2>1, <2>2
<1>3. Made'
  <2>1. ASSUME NEW k \in PipeId, HasPipe(k) PROVE Loaded(pipes[k].apps)'
    <3>1. \A n \in 1 .. Len(pipes[k].apps) : AddrOf(pipes[k].apps[n])' # NoCell
      BY <1>2, <2>1 DEF Loaded
    <3> QED BY <1>2, <2>1, <3>1 DEF Loaded
  <2> QED BY <2>1 DEF IInv, Made, HasPipe
<1>4. ASSUME NEW e \in Elem, NEW l \in Link, NEW k \in PipeId, pipes[k].st = "started"
      PROVE  Links(pipes[k].apps, e, l)' <=> Links(pipes[k].apps, e, l)
  <2> PICK s : s = pipes[k].apps
    OBVIOUS
  <2>1. HasPipe(k)
    BY <1>4 DEF HasPipe
  <2>5. Links(pipes[k].apps, e, l)' <=> e \in ToSet(s) /\ s[1] = l[1] /\ Target(s, e)' = l[2]
    BY DEF Links, Target, AddrOf
  <2>2. s \in Lists /\ Loaded(s) /\ \A n \in 1 .. Len(s) : AddrOf(s[n])' = AddrOf(s[n])
    BY <1>2, <2>1
  <2>3. ASSUME NEW n \in 1 .. Len(s) PROVE Target(s, s[n])' = Target(s, s[n])
    <3> DEFINE p == LastPlace(s, s[n])
    <3>1. p = Len(s) \/ p + 1 \in 1 .. Len(s)
      BY <2>2, TargetIs
    <3>2. Target(s, s[n]) = IF p = Len(s) THEN NoCell ELSE AddrOf(s[p + 1])
      BY DEF Target
    <3>3. Target(s, s[n])' = IF p = Len(s) THEN NoCell ELSE AddrOf(s[p + 1])'
      BY DEF Target, AddrOf
    <3> HIDE DEF p
    <3>4. p + 1 \in 1 .. Len(s) => AddrOf(s[p + 1])' = AddrOf(s[p + 1])
      BY <2>2
    <3> QED BY <3>1, <3>2, <3>3, <3>4
  <2>4. e \in ToSet(s) => Target(s, e)' = Target(s, e)
    BY <2>2, <2>3, ListIs
  <2> QED BY <2>4, <2>5 DEF Links
<1>5. ASSUME NEW e \in Elem, NEW l \in Link PROVE Starts(e, l)' = Starts(e, l)
  <2>1. Feeding(e, l)' = Feeding(e, l)
    BY <1>4 DEF Feeding
  <2> QED BY <2>1 DEF Starts
<1>6. ASSUME NEW l \in Link PROVE Starts(i, l) = {}
  <2>1. ASSUME NEW k \in PipeId, pipes[k].st = "started", Links(pipes[k].apps, i, l) PROVE FALSE
    <3>1. HasPipe(k)
      BY <2>1 DEF HasPipe
    <3>2. i \in ToSet(pipes[k].apps)
      BY <2>1 DEF Links
    <3> QED BY <1>2, <3>1, <3>2, ListIs
  <2> QED BY <2>1 DEF Starts, Feeding
<1> QED BY <1>1, <1>3, <1>5, <1>6

LEMMA AppNewKeeps ==
    ASSUME IInv, NEW i \in App, AppNew(i)
    PROVE  IInv'
<1>1. TypeOK /\ OneCell /\ Made /\ Idle /\ Counted /\ NeverRaises
  BY DEF IInv
<1>2. PICK c \in Cell \ used : addr' = [addr EXCEPT ![i] = c] /\ used' = used \cup {c}
  BY DEF AppNew
<1>3. /\ addr[i] = NoCell /\ UNCHANGED <<pipes, mailbox, r_table, cleaned>>
      /\ addr'[i] = c /\ \A j \in App : j # i => addr'[j] = addr[j]
  BY <1>1, <1>2 DEF AppNew, TypeOK
<1>4. NoCell \notin Addr /\ Cell \cap SysApp = {} /\ App \cap SysApp = {} /\ i \in Elem
  BY CellAssumption DEF Elem
<1>5. AddrOf(i) = NoCell /\ AddrOf(i)' = c
  BY <1>3, <1>4 DEF AddrOf
<1>6. \A k \in PipeId : \A n \in 1 .. Len(pipes[k].apps) : HasPipe(k) => pipes[k].apps[n] # i
  BY <1>1, <1>5 DEF Made, Loaded
<1>7. /\ \A e \in Elem : e # i => AddrOf(e)' = AddrOf(e)
      /\ Made'
      /\ \A e \in Elem, l \in Link : Starts(e, l)' = Starts(e, l)
      /\ \A l \in Link : Starts(i, l) = {}
  BY <1>3, <1>6, OthersKept
<1>8. TypeOK'
  BY <1>1, <1>2, <1>3 DEF TypeOK
<1>9. OneCell'
  <2>1. addr' \in [App -> Cell \cup {NoCell}]
    BY <1>8 DEF TypeOK
  <2>2. \A j \in App : addr'[j] # NoCell => addr'[j] \in used'
    BY <1>1, <1>2, <1>3 DEF OneCell
  <2>3. \A j, k \in App : addr'[j] = addr'[k] /\ addr'[j] # NoCell => j = k
    BY <1>1, <1>2, <1>3 DEF OneCell
  <2> QED BY <2>1, <2>2, <2>3 DEF OneCell
<1>10. c \in Addr \ Running
  <2>1. ASSUME NEW e \in Elem PROVE AddrOf(e) # c
    <3>1. CASE e \in SysApp
      BY <1>4, <3>1 DEF AddrOf
    <3>2. CASE e \notin SysApp
      <4>1. e \in App /\ AddrOf(e) = addr[e]
        BY <3>2 DEF AddrOf, Elem
      <4> QED BY <1>1, <1>4, <4>1 DEF OneCell, Addr
    <3> QED BY <3>1, <3>2
  <2> QED BY <1>2, <2>1 DEF Running, Addr
<1>11. Running \subseteq Running'
  <2>1. ASSUME NEW e \in Elem, AddrOf(e) # NoCell PROVE AddrOf(e)' = AddrOf(e)
    BY <1>5, <1>7, <2>1
  <2> QED BY <2>1 DEF Running
<1>12. Idle'
  BY <1>1, <1>3, <1>11 DEF Idle
<1>13. Counted'
  <2> SUFFICES ASSUME NEW e \in App, AddrOf(e)' # NoCell, NEW l \in Link
               PROVE  Settled(AddrOf(e))'[l] = Cardinality(Starts(e, l)')
    BY DEF Counted
  <2>1. Settled(AddrOf(e))' = Worked(r_table[AddrOf(e)'], mailbox[AddrOf(e)'])[Len(mailbox[AddrOf(e)'])]
    BY <1>3 DEF Settled
  <2>4. e \in Elem
    BY DEF Elem
  <2>2. CASE e # i
    <3>1. Settled(AddrOf(e))' = Settled(AddrOf(e)) /\ AddrOf(e) # NoCell
      BY <1>7, <2>1, <2>2, <2>4 DEF Settled
    <3> QED BY <1>1, <1>7, <2>4, <3>1 DEF Counted
  <2>3. CASE e = i
    <3>1. mailbox[c] = <<>> /\ r_table[c] = NoLinks
      BY <1>1, <1>10 DEF Idle
    <3>2. Worked(NoLinks, <<>>)[0] = NoLinks
      <4>1. <<>> \in Seq(Message) /\ NoLinks \in Table
        BY EmptySeq DEF NoLinks, Table
      <4> QED BY <4>1, WorkedIs
    <3>3. Settled(AddrOf(e))' = NoLinks
      BY <1>5, <2>1, <2>3, <3>1, <3>2
    <3>4. NoLinks[l] = 0
      BY DEF NoLinks
    <3>5. Cardinality(Starts(e, l)') = 0
      BY <1>7, <2>3, <2>4, FS_EmptySet
    <3> QED BY <3>3, <3>4, <3>5
  <2> QED BY <2>2, <2>3
<1>14. NeverRaises'
  BY <1>1, <1>3 DEF NeverRaises
<1> QED BY <1>7, <1>8, <1>9, <1>12, <1>13, <1>14 DEF IInv

LEMMA AppRemoveKeeps ==
    ASSUME IInv, NEW i \in App, AppRemove(i)
    PROVE  IInv'
<1>1. TypeOK /\ OneCell /\ Made /\ Idle /\ Counted /\ NeverRaises
  BY DEF IInv
<1> DEFINE c == addr[i]
<1>2. /\ c # NoCell /\ UNCHANGED <<pipes, used, cleaned>>
      /\ addr'[i] = NoCell /\ \A j \in App : j # i => addr'[j] = addr[j]
      /\ addr' \in [App -> Cell \cup {NoCell}] /\ c \in Cell /\ c \in Addr
  BY <1>1 DEF AppRemove, TypeOK, Addr
<1>3. /\ mailbox'[c] = <<>> /\ r_table'[c] = NoLinks
      /\ \A a \in Addr : a # c => mailbox'[a] = mailbox[a]
      /\ \A a \in Cell : a # c => r_table'[a] = r_table[a]
      /\ mailbox' \in [Addr -> Seq(Message)] /\ r_table' \in [Cell -> Table]
  <2>1. <<>> \in Seq(Message) /\ NoLinks \in Table
    BY EmptySeq DEF NoLinks, Table
  <2> QED BY <1>1, <1>2, <2>1 DEF AppRemove, TypeOK
<1>4. NoCell \notin Addr /\ App \cap SysApp = {} /\ i \in Elem
  BY CellAssumption DEF Elem
<1>5. AddrOf(i) = c /\ AddrOf(i)' = NoCell
  BY <1>2, <1>4 DEF AddrOf
<1> HIDE DEF c
<1>6. \A k \in PipeId : \A n \in 1 .. Len(pipes[k].apps) : HasPipe(k) => pipes[k].apps[n] # i
  <2> SUFFICES ASSUME NEW k \in PipeId, NEW n \in 1 .. Len(pipes[k].apps), HasPipe(k), pipes[k].apps[n] = i
               PROVE  FALSE
    OBVIOUS
  <2>1. pipes[k].apps \in Lists
    BY <1>1 DEF Made, Loaded
  <2>2. i \in ToSet(pipes[k].apps)
    BY <2>1, ListIs
  <2> QED BY <2>2 DEF AppRemove, Free
<1>7. /\ \A e \in Elem : e # i => AddrOf(e)' = AddrOf(e)
      /\ Made'
      /\ \A e \in Elem, l \in Link : Starts(e, l)' = Starts(e, l)
  BY <1>2, <1>6, OthersKept
<1>8. TypeOK'
  BY <1>1, <1>2, <1>3 DEF TypeOK
<1>9. OneCell'
  BY <1>1, <1>2 DEF OneCell
<1>10. \A a \in Addr \ Running' : a = c \/ a \notin Running
  <2>1. ASSUME NEW e \in Elem, AddrOf(e) # NoCell, AddrOf(e) # c PROVE AddrOf(e) \in Running'
    BY <1>5, <1>7, <2>1 DEF Running
  <2> QED BY <2>1 DEF Running
<1>11. Idle'
  BY <1>1, <1>2, <1>3, <1>10, Cells DEF Idle
<1>12. Counted'
  <2> SUFFICES ASSUME NEW e \in App, AddrOf(e)' # NoCell, NEW l \in Link
               PROVE  Settled(AddrOf(e))'[l] = Cardinality(Starts(e, l)')
    BY DEF Counted
  <2>1. e # i /\ AddrOf(e)' = AddrOf(e) /\ AddrOf(e) # NoCell /\ e \in Elem
    BY <1>5, <1>7 DEF Elem
  <2>2. AddrOf(e) # c /\ AddrOf(e) \in Addr /\ AddrOf(e) \in Cell
    BY <1>1, <1>4, <1>5, <2>1, Cells
  <2>3. Settled(AddrOf(e))' = Settled(AddrOf(e))
    BY <1>3, <2>1, <2>2 DEF Settled
  <2> QED BY <1>1, <1>7, <2>1, <2>3 DEF Counted
<1>13. NeverRaises'
  <2> SUFFICES ASSUME ~cleaned, NEW a \in Cell, NEW n \in 1 .. Len(mailbox'[a]),
                      mailbox'[a][n].op = "route_del"
               PROVE  Worked(r_table'[a], mailbox'[a])[n - 1]
                          [<<mailbox'[a][n].source, mailbox'[a][n].target>>] > 0
    BY <1>2 DEF NeverRaises
  <2>1. a # c
    <3>1. Len(<<>>) = 0
      BY EmptySeq
    <3> QED BY <1>3, <3>1
  <2> QED BY <1>1, <1>2, <1>3, <2>1 DEF NeverRaises, Addr
<1> QED BY <1>7, <1>8, <1>9, <1>11, <1>12, <1>13 DEF IInv

\* A cell takes a message: what will become of its table stays.
LEMMA ReceiveKeeps ==
    ASSUME IInv, NEW b \in Cell, Receive(b)
    PROVE  IInv'
<1>1. TypeOK /\ OneCell /\ Made /\ Idle /\ Counted /\ NeverRaises
  BY DEF IInv
<1> DEFINE box == mailbox[b]
           t == r_table[b]
<1>2. /\ box # <<>> /\ UNCHANGED <<pipes, addr, used, cleaned>>
      /\ r_table'[b] = Apply(t, Head(box)) /\ mailbox'[b] = Tail(box)
      /\ \A a \in Addr : a # b => mailbox'[a] = mailbox[a]
      /\ \A a \in Cell : a # b => r_table'[a] = r_table[a]
      /\ box \in Seq(Message) /\ t \in Table /\ b \in Addr
  BY <1>1 DEF Receive, TypeOK, Addr
<1> HIDE DEF box, t
<1>3. /\ Apply(t, Head(box)) \in Table
      /\ Tail(box) \in Seq(Message) /\ Len(box) \in Nat \ {0} /\ Len(Tail(box)) = Len(box) - 1
      /\ \A n \in 0 .. Len(box) - 1 :
             Worked(Apply(t, Head(box)), Tail(box))[n] = Worked(t, box)[n + 1]
  BY <1>2, WorkedTail
<1>4. TypeOK'
  <2>1. /\ r_table' = [r_table EXCEPT ![b] = Apply(t, Head(box))]
        /\ mailbox' = [mailbox EXCEPT ![b] = Tail(box)]
    BY DEF Receive, t, box
  <2>2. r_table' \in [Cell -> Table] /\ mailbox' \in [Addr -> Seq(Message)]
    BY <1>1, <1>3, <2>1 DEF TypeOK
  <2> QED BY <1>1, <1>2, <2>2 DEF TypeOK
<1>5. /\ \A e : AddrOf(e)' = AddrOf(e)
      /\ Running' = Running /\ OneCell'
      /\ \A s, e, l : Links(s, e, l)' <=> Links(s, e, l)
      /\ \A s : Loaded(s)' <=> Loaded(s)
  BY <1>1, <1>2, WiringKept
<1>6. Made'
  BY <1>1, <1>2, <1>5 DEF Made, HasPipe
<1>7. Idle'
  <2>1. b \in Running
    BY <1>1, <1>2 DEF Idle, box
  <2> QED BY <1>1, <1>2, <1>5, <2>1, Cells DEF Idle
<1>8. \A e, l : Starts(e, l)' = Starts(e, l)
  BY <1>2, <1>5 DEF Starts, Feeding
<1>9. Settled(b)' = Settled(b)
  <2>1. Settled(b)' = Worked(Apply(t, Head(box)), Tail(box))[Len(box) - 1]
    BY <1>2, <1>3 DEF Settled
  <2>2. Len(box) - 1 \in 0 .. Len(box) - 1 /\ Len(box) - 1 + 1 = Len(box)
    BY <1>3
  <2>3. Settled(b)' = Worked(t, box)[Len(box)]
    BY <1>3, <2>1, <2>2
  <2> QED BY <2>3 DEF Settled, t, box
<1>10. Counted'
  <2> SUFFICES ASSUME NEW e \in App, AddrOf(e) # NoCell, NEW l \in Link
               PROVE  Settled(AddrOf(e))'[l] = Cardinality(Starts(e, l))
    BY <1>5, <1>8 DEF Counted
  <2>1. AddrOf(e) \in Addr /\ AddrOf(e) \in Cell
    BY <1>1, Cells
  <2>2. Settled(AddrOf(e))' = Settled(AddrOf(e))
    <3>1. CASE AddrOf(e) = b
      <4>1. AddrOf(e)' = b
        BY <1>5, <3>1
      <4> QED BY <4>1, <1>9, <3>1 DEF Settled
    <3>2. CASE AddrOf(e) # b
      BY <1>2, <1>5, <2>1, <3>2 DEF Settled
    <3> QED BY <3>1, <3>2
  <2> QED BY <1>1, <2>2 DEF Counted
<1>11. NeverRaises'
  <2> SUFFICES ASSUME ~cleaned, NEW a \in Cell, NEW n \in 1 .. Len(mailbox'[a]),
                      mailbox'[a][n].op = "route_del"
               PROVE  Worked(r_table'[a], mailbox'[a])[n - 1]
                          [<<mailbox'[a][n].source, mailbox'[a][n].target>>] > 0
    BY <1>2 DEF NeverRaises
  <2>1. CASE a # b
    BY <1>1, <1>2, <2>1 DEF NeverRaises, Addr
  <2>2. CASE a = b
    <3>1. n \in 1 .. Len(Tail(box)) /\ n + 1 \in 1 .. Len(box) /\ n - 1 \in 0 .. Len(box) - 1
          /\ n - 1 + 1 = n /\ n + 1 - 1 = n
      BY <1>2, <1>3, <2>2
    <3>2. mailbox'[a][n] = box[n + 1]
      <4>1. Tail(box)[n] = box[n + 1]
        BY <1>2, <3>1, HeadTailProperties
      <4> QED BY <1>2, <2>2, <4>1
    <3>3. Worked(r_table'[a], mailbox'[a])[n - 1] = Worked(t, box)[n]
      BY <1>2, <1>3, <2>2, <3>1
    <3>4. Worked(t, box)[n + 1 - 1][<<box[n + 1].source, box[n + 1].target>>] > 0
      BY <1>1, <3>1, <3>2 DEF NeverRaises, t, box
    <3> QED BY <3>1, <3>2, <3>3, <3>4
  <2> QED BY <2>1, <2>2
<1> QED BY <1>4, <1>5, <1>6, <1>7, <1>10, <1>11 DEF IInv

\* A permanent APP takes a message: no table changes.
LEMMA IgnoreKeeps ==
    ASSUME IInv, NEW b \in SysApp, Ignore(b)
    PROVE  IInv'
<1>1. TypeOK /\ OneCell /\ Made /\ Idle /\ Counted /\ NeverRaises
  BY DEF IInv
<1>2. /\ mailbox[b] # <<>> /\ UNCHANGED <<pipes, addr, used, r_table, cleaned>>
      /\ mailbox' = [mailbox EXCEPT ![b] = Tail(mailbox[b])]
      /\ b \in Addr /\ b \notin Cell
  BY CellAssumption DEF Ignore, Addr
<1>3. mailbox' \in [Addr -> Seq(Message)] /\ \A a \in Addr : a # b => mailbox'[a] = mailbox[a]
  <2>1. mailbox[b] \in Seq(Message)
    BY <1>1, <1>2 DEF TypeOK
  <2>2. Tail(mailbox[b]) \in Seq(Message)
    BY <1>2, <2>1, HeadTailProperties
  <2> QED BY <1>1, <1>2, <2>2 DEF TypeOK
<1>4. TypeOK'
  BY <1>1, <1>2, <1>3 DEF TypeOK
<1>5. /\ \A e : AddrOf(e)' = AddrOf(e)
      /\ Running' = Running /\ OneCell'
      /\ \A s, e, l : Links(s, e, l)' <=> Links(s, e, l)
      /\ \A s : Loaded(s)' <=> Loaded(s)
  BY <1>1, <1>2, WiringKept
<1>6. Made'
  BY <1>1, <1>2, <1>5 DEF Made, HasPipe
<1>7. \A a \in Cell : mailbox'[a] = mailbox[a]
  BY <1>2, <1>3 DEF Addr
<1>8. Idle'
  BY <1>1, <1>2, <1>5, <1>7, Cells DEF Idle
<1>9. \A e, l : Starts(e, l)' = Starts(e, l)
  BY <1>2, <1>5 DEF Starts, Feeding
<1>10. Counted'
  <2> SUFFICES ASSUME NEW e \in App, AddrOf(e) # NoCell, NEW l \in Link
               PROVE  Settled(AddrOf(e))'[l] = Cardinality(Starts(e, l))
    BY <1>5, <1>9 DEF Counted
  <2>1. AddrOf(e) \in Cell
    BY <1>1, Cells
  <2>2. Settled(AddrOf(e))' = Settled(AddrOf(e))
    BY <1>2, <1>5, <1>7, <2>1 DEF Settled
  <2> QED BY <1>1, <2>2 DEF Counted
<1>11. NeverRaises'
  BY <1>1, <1>2, <1>7 DEF NeverRaises
<1> QED BY <1>4, <1>5, <1>6, <1>8, <1>10, <1>11 DEF IInv

-----------------------------------------------------------------------------
(* clean.                                                                   *)

\* Stops tells a mailbox after each of the PIPEs of order is stopped.
LEMMA StopsIs ==
    ASSUME NEW a, NEW order, Len(order) \in Nat, mailbox[a] \in Seq(Message),
           \A i \in 1 .. Len(order) : Messages("route_del", pipes[order[i]].apps, a) \in Seq(Message)
    PROVE  LET B == Stops(order, a)
               n == Len(order)
           IN
           /\ B \in [0 .. n -> Seq(Message)] /\ B[0] = mailbox[a]
           /\ \A i \in 1 .. n :
                  B[i] = B[i - 1] \o Messages("route_del", pipes[order[i]].apps, a)
<1> DEFINE n == Len(order)
           M == [i \in 1 .. n |-> Messages("route_del", pipes[order[i]].apps, a)]
           E(f) == [i \in 0 .. Len(order) |->
                       IF i = 0 THEN mailbox[a]
                       ELSE f[i - 1] \o Messages("route_del", pipes[order[i]].apps, a)]
           F == [i \in 1 .. n |-> [x \in Seq(Message) |-> x \o M[i]]]
<1>1. \A i \in 1 .. n : M[i] = Messages("route_del", pipes[order[i]].apps, a) /\ M[i] \in Seq(Message)
  OBVIOUS
<1> HIDE DEF M
<1>2. F \in [1 .. n -> [Seq(Message) -> Seq(Message)]]
  <2> SUFFICES ASSUME NEW i \in 1 .. n, NEW x \in Seq(Message) PROVE x \o M[i] \in Seq(Message)
    OBVIOUS
  <2> QED BY <1>1, ConcatProperties
<1>3. \A i \in 1 .. n, x \in Seq(Message) : F[i][x] = x \o M[i]
  OBVIOUS
<1> HIDE DEF F
<1>4. PICK T \in [0 .. n -> Seq(Message)] :
          T[0] = mailbox[a] /\ \A i \in 1 .. n : T[i] = F[i][T[i - 1]]
  <2> HIDE DEF n
  <2>1. n \in Nat /\ mailbox[a] \in Seq(Message)
    BY DEF n
  <2> DEFINE S == Seq(Message)
             b == mailbox[a]
  <2>2. n \in Nat /\ b \in S /\ F \in [1 .. n -> [S -> S]]
    BY <1>2, <2>1
  <2> HIDE DEF S, b
  <2>3. \E T \in [0 .. n -> S] : T[0] = b /\ \A i \in 1 .. n : T[i] = F[i][T[i - 1]]
    BY <2>2, Recursion
  <2> QED BY <2>3 DEF S, b
<1>5. \A i \in 1 .. n : T[i] = T[i - 1] \o Messages("route_del", pipes[order[i]].apps, a)
  <2> SUFFICES ASSUME NEW i \in 1 .. n
               PROVE  T[i] = T[i - 1] \o Messages("route_del", pipes[order[i]].apps, a)
    OBVIOUS
  <2>1. T[i - 1] \in Seq(Message)
    <3>1. i - 1 \in 0 .. n
      OBVIOUS
    <3> QED BY <3>1, <1>4
  <2> QED BY <2>1, <1>1, <1>3, <1>4
<1>6. \A i \in 0 .. n :
          T[i] = IF i = 0 THEN mailbox[a]
                 ELSE T[i - 1] \o Messages("route_del", pipes[order[i]].apps, a)
  <2> SUFFICES ASSUME NEW i \in 0 .. n
               PROVE  T[i] = IF i = 0 THEN mailbox[a]
                             ELSE T[i - 1] \o Messages("route_del", pipes[order[i]].apps, a)
    OBVIOUS
  <2>1. i # 0 => i \in 1 .. n
    OBVIOUS
  <2> QED BY <2>1, <1>4, <1>5
<1>7. T = E(T)
  <2>1. T = [i \in 0 .. n |-> T[i]]
    BY <1>4
  <2> QED BY <2>1, <1>6, Zenon
<1>8. Stops(order, a) = CHOOSE f : f = E(f)
  BY Zenon DEF Stops
<1>9. ASSUME NEW f, f = E(f)
      PROVE  /\ f \in [0 .. n -> Seq(Message)] /\ f[0] = mailbox[a]
             /\ \A i \in 1 .. n : f[i] = f[i - 1] \o Messages("route_del", pipes[order[i]].apps, a)
  <2>1. \A i \in 0 .. n : f[i] = IF i = 0 THEN mailbox[a]
                                 ELSE f[i - 1] \o Messages("route_del", pipes[order[i]].apps, a)
    BY <1>9, Zenon
  <2>8. f = [i \in 0 .. n |-> f[i]]
    BY <1>9, <2>1, Zenon
  <2> HIDE DEF E
  <2>2. f[0] = mailbox[a]
    BY <2>1
  <2>3. \A i \in 1 .. n : f[i] = f[i - 1] \o Messages("route_del", pipes[order[i]].apps, a)
    <3> SUFFICES ASSUME NEW i \in 1 .. n
                 PROVE  f[i] = f[i - 1] \o Messages("route_del", pipes[order[i]].apps, a)
      OBVIOUS
    <3>1. i \in 0 .. n /\ i # 0
      OBVIOUS
    <3> QED BY <3>1, <2>1, Zenon
  <2> DEFINE S == {i \in 0 .. n : f[i] \in Seq(Message)}
  <2>4. 0 \in S
    BY <2>2
  <2>5. ASSUME NEW i \in 0 .. n, i < n, i \in S PROVE i + 1 \in S
    <3>1. i + 1 \in 1 .. n /\ i + 1 \in 0 .. n /\ i + 1 - 1 = i
      BY <2>5
    <3>2. f[i + 1] = f[i] \o Messages("route_del", pipes[order[i + 1]].apps, a)
      <4> PICK k : k = i + 1
        OBVIOUS
      <4>1. k \in 1 .. n /\ k - 1 = i
        BY <3>1
      <4> HIDE DEF n
      <4>2. f[k] = f[k - 1] \o Messages("route_del", pipes[order[k]].apps, a)
        BY <4>1, <2>3, Zenon
      <4> QED BY <4>1, <4>2
    <3>3. f[i + 1] \in Seq(Message)
      <4>1. f[i] \in Seq(Message)
        BY <2>5
      <4>2. M[i + 1] \in Seq(Message) /\ f[i + 1] = f[i] \o M[i + 1]
        BY <3>1, <3>2, <1>1
      <4> QED BY <4>1, <4>2, ConcatProperties
    <3> QED BY <3>1, <3>3
  <2> HIDE DEF S
  <2>6. \A i \in 0 .. n : i \in S
    BY <2>4, <2>5, Climb
  <2>7. \A i \in 0 .. n : f[i] \in Seq(Message)
    BY <2>6 DEF S
  <2>9. f \in [0 .. n -> Seq(Message)]
    BY <2>7, <2>8
  <2> QED BY <2>2, <2>3, <2>9
<1> HIDE DEF E
<1>10. (CHOOSE f : f = E(f)) = E(CHOOSE f : f = E(f))
  BY <1>7, Zenon
<1> QED BY <1>8, <1>9, <1>10

\* An order has every PIPE, once.
LEMMA OrderIs ==
    ASSUME NEW S, IsFiniteSet(S), NEW order \in SetToSeqs(S)
    PROVE  /\ Len(order) = Cardinality(S) /\ Len(order) \in Nat
           /\ \A i \in 1 .. Len(order) : order[i] \in S
           /\ \A i, j \in 1 .. Len(order) : order[i] = order[j] => i = j
           /\ \A x \in S : \E i \in 1 .. Len(order) : order[i] = x
<1> DEFINE n == Cardinality(S)
<1>1. n \in Nat
  BY FS_CardinalityType
<1>2. order \in [1 .. n -> S] /\ \A i, j \in 1 .. n : i # j => order[i] # order[j]
  BY DEF SetToSeqs
<1> HIDE DEF n
<1>3. Len(order) = n
  BY <1>1, <1>2
<1>4. IsFiniteSet(1 .. n) /\ Cardinality(1 .. n) = n
  <2>1. Cardinality(1 .. n) = IF 1 > n THEN 0 ELSE n - 1 + 1
    BY <1>1, FS_Interval
  <2> QED BY <1>1, <2>1, FS_Interval
<1>5. order \in Injection(1 .. n, S)
  BY <1>2 DEF Injection, IsInjective
<1>6. order \in Surjection(1 .. n, S)
  <2>1. Cardinality(1 .. n) = Cardinality(S)
    BY <1>4 DEF n
  <2> QED BY <1>5, <2>1, FS_Injection
<1>7. \A x \in S : \E i \in 1 .. n : order[i] = x
  BY <1>6 DEF Surjection
<1> QED BY <1>1, <1>2, <1>3, <1>7 DEF n

\* clean takes everything back, though it also stops what does not run.
LEMMA CleanKeeps ==
    ASSUME IInv, Clean
    PROVE  IInv'
<1>1. TypeOK /\ OneCell /\ Made /\ Idle /\ Counted
  BY DEF IInv
<1> DEFINE D == {k \in PipeId : HasPipe(k)}
<1>2. IsFiniteSet(D)
  BY <1>1 DEF Made
<1>3. PICK order \in SetToSeqs(D) : mailbox' = [a \in Addr |-> Stops(order, a)[Len(order)]]
  BY DEF Clean
<1>4. /\ UNCHANGED <<addr, used, r_table>> /\ cleaned' = TRUE
      /\ pipes' = [k \in PipeId |-> NoPipe]
  BY DEF Clean
<1> DEFINE N == Len(order)
<1> HIDE DEF D
<1>5. /\ N \in Nat /\ \A i \in 1 .. N : order[i] \in D
      /\ \A x \in D : \E i \in 1 .. N : order[i] = x
      /\ \A i, j \in 1 .. N : order[i] = order[j] => i = j
  BY <1>2, OrderIs
<1>6. ASSUME NEW i \in 1 .. N PROVE order[i] \in PipeId /\ HasPipe(order[i]) /\ Loaded(pipes[order[i]].apps)
  BY <1>1, <1>5 DEF D, Made
<1>7. ASSUME NEW a \in Addr
      PROVE  LET B == Stops(order, a) IN
             /\ B \in [0 .. N -> Seq(Message)] /\ B[0] = mailbox[a] /\ mailbox'[a] = B[N]
             /\ \A i \in 1 .. N : B[i] = B[i - 1] \o Messages("route_del", pipes[order[i]].apps, a)
  <2>1. ASSUME NEW i \in 1 .. N PROVE Messages("route_del", pipes[order[i]].apps, a) \in Seq(Message)
    <3>1. CASE a \in Running
      <4>1. PICK e \in Elem : a = AddrOf(e)
        BY <1>1, <3>1, Cells
      <4>2. AddrOf(e) # NoCell
        BY <3>1, <4>1 DEF Running
      <4> QED BY <1>1, <1>6, <4>1, <4>2, MessagesIs
    <3>2. CASE a \notin Running
      BY <1>1, <1>6, <3>2, NoMessages, EmptySeq
    <3> QED BY <3>1, <3>2
  <2>2. mailbox[a] \in Seq(Message)
    BY <1>1 DEF TypeOK
  <2>3. mailbox'[a] = Stops(order, a)[N]
    BY <1>3
  <2> QED BY <1>5, <2>1, <2>2, <2>3, StopsIs
<1>8. TypeOK'
  <2>1. \A a \in Addr : mailbox'[a] \in Seq(Message)
    <3> SUFFICES ASSUME NEW a \in Addr PROVE mailbox'[a] \in Seq(Message)
      OBVIOUS
    <3>1. N \in 0 .. N
      BY <1>5
    <3> HIDE DEF N
    <3> QED BY <1>7, <3>1
  <2>2. mailbox' = [a \in Addr |-> mailbox'[a]]
    BY <1>3
  <2>3. mailbox' \in [Addr -> Seq(Message)]
    BY <2>1, <2>2
  <2> QED BY <1>1, <1>4, <2>3 DEF TypeOK
<1>9. OneCell' /\ Running' = Running
  BY <1>1, <1>4, WiringKept
<1>10. \A k \in PipeId : pipes'[k] = NoPipe /\ pipes'[k].st = "none" /\ ~HasPipe(k)'
  BY <1>4 DEF NoPipe, HasPipe
<1>11. Made'
  BY <1>4, <1>8, <1>10, FewerPipes DEF TypeOK
<1>12. Idle'
  <2> SUFFICES ASSUME NEW a \in Addr \ Running PROVE mailbox'[a] = <<>>
    BY <1>1, <1>4, <1>9 DEF Idle
  <2> DEFINE B == Stops(order, a)
             S == {i \in 0 .. N : B[i] = <<>>}
  <2>1. /\ B[0] = <<>> /\ mailbox'[a] = B[N]
        /\ \A i \in 1 .. N : B[i] = B[i - 1] \o Messages("route_del", pipes[order[i]].apps, a)
    BY <1>1, <1>7 DEF Idle
  <2>2. \A i \in 1 .. N : Messages("route_del", pipes[order[i]].apps, a) = <<>>
    BY <1>1, <1>6, NoMessages
  <2> HIDE DEF B, N
  <2>3. 0 \in S
    BY <1>5, <2>1
  <2>4. ASSUME NEW i \in 0 .. N, i < N, i \in S PROVE i + 1 \in S
    <3> PICK k : k = i + 1
      OBVIOUS
    <3>1. k \in 1 .. N /\ k \in 0 .. N /\ k - 1 = i
      BY <1>5, <2>4
    <3>2. B[k] = B[i] \o <<>>
      BY <2>1, <2>2, <3>1
    <3>3. <<>> \o <<>> = <<>>
      OBVIOUS
    <3> QED BY <2>4, <3>1, <3>2, <3>3
  <2> HIDE DEF S
  <2>5. \A i \in 0 .. N : i \in S
    BY <1>5, <2>3, <2>4, Climb
  <2>6. B[N] = <<>>
    BY <1>5, <2>5 DEF S
  <2> QED BY <2>1, <2>6
<1>13. Counted'
  <2> SUFFICES ASSUME NEW e \in App, AddrOf(e) # NoCell, NEW l \in Link
               PROVE  Settled(AddrOf(e))'[l] = Cardinality(Starts(e, l)')
    BY <1>4, WiringKept DEF Counted
  <2> DEFINE a == AddrOf(e)
             t == r_table[a]
             B == Stops(order, a)
             G(i) == Feeding(e, l) \ {order[j] : j \in 1 .. i}
             Left(i) == Cardinality(Over(pipes, e, G(i)))
             V(i) == Worked(t, B[i])[Len(B[i])][l]
             S == {i \in 0 .. N : V(i) \in Nat /\ V(i) <= Left(i)}
  <2>1. a \in Addr /\ a \in Cell /\ e \in Elem
    BY <1>1, Cells
  <2>2. /\ B \in [0 .. N -> Seq(Message)] /\ B[0] = mailbox[a] /\ mailbox'[a] = B[N]
        /\ \A i \in 1 .. N : B[i] = B[i - 1] \o Messages("route_del", pipes[order[i]].apps, a)
    BY <1>7, <2>1
  <2>3. t \in Table
    BY <1>1, <2>1 DEF TypeOK
  <2>4. /\ Starts(e, l) = Over(pipes, e, Feeding(e, l)) /\ IsFiniteSet(Feeding(e, l))
        /\ \A k \in Feeding(e, l) : k \in PipeId /\ pipes[k].apps \in Lists /\ HasPipe(k)
        /\ Cardinality(Starts(e, l)) \in Nat
    BY <2>1, StartsIs
  <2>5. Settled(a)' = Worked(t, B[N])[Len(B[N])]
    <3>1. AddrOf(e)' = AddrOf(e)
      BY <1>4, WiringKept
    <3> QED BY <1>4, <2>1, <2>2, <3>1 DEF Settled
  <2>6. \A i \in 0 .. N : /\ IsFiniteSet(G(i)) /\ Left(i) \in Nat
                          /\ \A k \in G(i) : k \in PipeId /\ pipes[k].apps \in Lists
    <3> SUFFICES ASSUME NEW i \in 0 .. N
                 PROVE  /\ IsFiniteSet(G(i)) /\ Left(i) \in Nat
                        /\ \A k \in G(i) : k \in PipeId /\ pipes[k].apps \in Lists
      OBVIOUS
    <3>1. G(i) \in SUBSET Feeding(e, l)
      OBVIOUS
    <3>2. IsFiniteSet(G(i))
      BY <2>4, <3>1, FS_Subset
    <3>3. \A k \in G(i) : k \in PipeId /\ pipes[k].apps \in Lists
      BY <2>4, <3>1
    <3>4. Left(i) \in Nat
      <4> HIDE DEF G
      <4> QED BY <3>2, <3>3, OverIs
    <3> QED BY <3>2, <3>3, <3>4
  <2>7. 0 \in S
    <3>1. V(0) = Cardinality(Starts(e, l))
      BY <1>1, <2>2 DEF Counted, Settled
    <3>2. G(0) = Feeding(e, l)
      OBVIOUS
    <3>3. Left(0) = Cardinality(Starts(e, l))
      BY <2>4, <3>2
    <3>4. 0 \in 0 .. N
      BY <1>5
    <3> HIDE DEF V, Left
    <3> QED BY <2>4, <3>1, <3>3, <3>4
  <2>8. ASSUME NEW i \in 0 .. N, i < N, i \in S PROVE i + 1 \in S
    <3> PICK n : n = i + 1
      OBVIOUS
    <3>1. n \in 1 .. N /\ n \in 0 .. N /\ n - 1 = i
      BY <1>5, <2>8
    <3> DEFINE k == order[n]
               s == pipes[k].apps
    <3>2. k \in PipeId /\ Loaded(s) /\ s \in Lists
      BY <1>6, <3>1 DEF Loaded
    <3>3. B[n] = B[i] \o Messages("route_del", s, a) /\ B[i] \in Seq(Message)
      BY <2>2, <3>1
    <3>4. /\ V(i) \in Nat /\ Sent(s, e, l) \in Nat
          /\ V(n) = IF Sent(s, e, l) <= V(i) THEN V(i) - Sent(s, e, l) ELSE 0
      <4> HIDE DEF s, B, t
      <4> QED BY <1>1, <2>1, <2>3, <3>2, <3>3, StopSettles
    <3>5. V(i) <= Left(i)
      BY <2>8
    <3>6. G(n) = G(i) \ {k}
      <4>1. {order[j] : j \in 1 .. n} = {order[j] : j \in 1 .. i} \cup {k}
        <5>1. \A j : j \in 1 .. n <=> j \in 1 .. i \/ j = n
          BY <3>1, <1>5
        <5> QED BY <5>1
      <4> QED BY <4>1
    <3>7. Left(i) \in Nat /\ Left(n) \in Nat
      BY <2>6, <3>1
    <3>8. CASE k \in G(i)
      <4>1. Sent(s, e, l) = Cardinality(Occurs(s, e))
        BY <3>8 DEF Sent, Feeding
      <4>2. G(i) = G(n) \cup {k} /\ k \notin G(n)
        BY <3>6, <3>8
      <4>3. IsFiniteSet(G(n)) /\ \A j \in G(n) \cup {k} : pipes[j].apps \in Lists
        BY <2>6, <3>1, <3>2
      <4> HIDE DEF G, k
      <4>4. Left(i) = Left(n) + Sent(s, e, l)
        BY <4>1, <4>2, <4>3, OverOneMore
      <4> HIDE DEF Left, V, s
      <4> QED BY <3>1, <3>4, <3>5, <3>7, <4>4
    <3>9. CASE k \notin G(i)
      <4>1. G(n) = G(i)
        BY <3>6, <3>9
      <4>2. Left(n) = Left(i)
        BY <4>1
      <4> HIDE DEF Left, V, s, G, k
      <4> QED BY <3>1, <3>4, <3>5, <3>7, <4>2
    <3> QED BY <3>8, <3>9
  <2> HIDE DEF S
  <2>9. N \in S
    <3> HIDE DEF N
    <3>1. \A i \in 0 .. N : i \in S
      BY <1>5, <2>7, <2>8, Climb
    <3> QED BY <1>5, <3>1
  <2>10. Left(N) = 0
    <3>1. G(N) = {}
      BY <1>5, <2>4 DEF D
    <3> HIDE DEF G
    <3> QED BY <2>6, <1>5, <3>1, OverIs, FS_EmptySet
  <2>11. V(N) = 0
    <3>1. V(N) \in Nat /\ V(N) <= Left(N)
      BY <2>9 DEF S
    <3> HIDE DEF V, Left
    <3> QED BY <2>10, <3>1
  <2>12. Starts(e, l)' = {}
    BY <1>10 DEF Starts, Feeding
  <2> QED BY <2>5, <2>11, <2>12, FS_EmptySet
<1>14. NeverRaises'
  BY <1>4 DEF NeverRaises
<1> QED BY <1>8, <1>9, <1>11, <1>12, <1>13, <1>14 DEF IInv

-----------------------------------------------------------------------------
LEMMA NextKeeps ==
    ASSUME IInv, [Next]_vars
    PROVE  IInv'
<1>1. CASE UNCHANGED vars
  <2> USE <1>1 DEF vars
  <2>1. TypeOK' /\ OneCell' /\ Made' /\ Idle'
    <3>1. \A k \in PipeId : Loaded(pipes[k].apps)' <=> Loaded(pipes[k].apps)
      BY DEF Loaded, AddrOf
    <3> QED BY <3>1, WiringKept DEF IInv, TypeOK, Made, HasPipe, Idle
  <2> QED BY <2>1, QuietKeeps
<1>2. CASE Next
  <2>1. ASSUME NEW i \in App, AppNew(i) \/ AppRemove(i) PROVE IInv'
    BY <2>1, AppNewKeeps, AppRemoveKeeps
  <2>2. ASSUME NEW k \in PipeId, NEW s \in Lists, NEW auto \in BOOLEAN, PipeNew(k, s, auto)
        PROVE  IInv'
    BY <2>2, PipeNewKeeps
  <2>3. ASSUME NEW k \in PipeId, PipeStart(k) \/ PipeStop(k) \/ PipeRemove(k) PROVE IInv'
    BY <2>3, PipeStartKeeps, PipeStopKeeps, PipeRemoveKeeps
  <2>4. CASE Clean
    BY <2>4, CleanKeeps
  <2>5. ASSUME NEW c \in Cell, Receive(c) PROVE IInv'
    BY <2>5, ReceiveKeeps
  <2>6. ASSUME NEW a \in SysApp, Ignore(a) PROVE IInv'
    BY <2>6, IgnoreKeeps
  <2> QED BY <1>2, <2>1, <2>2, <2>3, <2>4, <2>5, <2>6 DEF Next
<1> QED BY <1>1, <1>2

\* The invariant: every APP has a cell of its own, PIPEs are made of loaded
\* APPs, a cell that is not in use has an empty mailbox and table (an APP that is
\* loaded starts with none), and what the messages on their way will make of the
\* table of a cell is one count for each place the running PIPEs give its APP.
THEOREM Invariant == Spec => []IInv
<1>1. IInv /\ [Next]_vars => IInv'
  BY NextKeeps
<1> QED BY <1>1, InitHolds, PTL DEF Spec

\* Once a cell has worked its mailbox it has exactly the entries of the running
\* PIPEs, one count for each place, however often PIPEs that share an entry were
\* started, stopped, removed or cleaned (start_pipe, stop_pipe and clean of
\* appmgr.lua, route_add and route_del of api.lua); and no route_del finds
\* nothing to take back, but after clean.
THEOREM StartsAreCounted == Spec => []CountsInv
<1>1. IInv => CountsInv
  BY DEF IInv, CountsInv
<1> QED BY <1>1, Invariant, PTL

\* A cell whose table still leads to a cell that is gone has the route_del of that
\* entry in its mailbox.
LEMMA TargetsAreRunning == IInv => TargetsRun
<1> SUFFICES ASSUME IInv, NEW a \in Running \cap Cell, NEW l \in Link,
                    r_table[a][l] > 0, l[2] \notin Running,
                    ~ \E n \in 1 .. Len(mailbox[a]) :
                        mailbox[a][n] = [op |-> "route_del", source |-> l[1], target |-> l[2]]
             PROVE  FALSE
  BY DEF TargetsRun
<1>1. TypeOK /\ OneCell /\ Counted
  BY DEF IInv
<1>2. PICK e \in App : a = AddrOf(e)
  BY <1>1, Cells
<1>3. a \in Addr /\ AddrOf(e) # NoCell
  BY <1>1, <1>2, Cells DEF Running
<1>4. mailbox[a] \in Seq(Message) /\ r_table[a] \in Table
  BY <1>1, <1>3 DEF TypeOK
<1>5. r_table[a][l] <= Settled(a)[l]
  BY <1>4, NoneTakenBack DEF Settled
<1>6. Settled(a)[l] = Cardinality(Starts(e, l))
  BY <1>1, <1>2, <1>3 DEF Counted
<1>7. ASSUME NEW k \in PipeId, pipes[k].st = "started", Links(pipes[k].apps, e, l) PROVE FALSE
  <2> PICK s : s = pipes[k].apps
    OBVIOUS
  <2>1. Loaded(s) /\ s \in Lists
    BY <1>7 DEF IInv, Made, HasPipe, Loaded
  <2>2. PICK i \in 1 .. Len(s) : s[i] = e
    BY <1>7, <2>1, ListIs DEF Links
  <2>3. Target(s, e) = l[2] /\ l[2] \in Addr
    BY <1>7 DEF Links, Link
  <2>4. \E f \in Elem : l[2] = AddrOf(f)
    BY <1>1, <2>1, <2>2, <2>3, TargetIs, Cells
  <2>5. l[2] # NoCell
    BY <1>1, <2>3, Cells
  <2> QED BY <1>1, <2>4, <2>5, Cells
<1>8. Starts(e, l) = {}
  BY <1>7 DEF Starts, Feeding
<1>9. Cardinality(Starts(e, l)) = 0
  BY <1>8, FS_EmptySet
<1>10. r_table[a][l] \in Nat
  BY <1>4 DEF Table
<1> QED BY <1>5, <1>6, <1>9, <1>10

\* No cell goes on sending to a cell that is gone: app_remove only takes APPs of
\* no PIPE, and the route_del messages of the PIPEs they were in are on their way.
THEOREM NoTargetIsGone == Spec => []TargetsRun
BY Invariant, TargetsAreRunning, PTL

-----------------------------------------------------------------------------
(* Where data goes once the mailboxes are worked off.                       *)

\* PIPE k runs, and its list makes the cell of e send data of x to b.
Carries(k, e, x, b) ==
    /\ k \in PipeId /\ pipes[k].st = "started" /\ Loaded(pipes[k].apps)
    /\ e \in ToSet(pipes[k].apps) /\ pipes[k].apps[1] = x
    /\ Target(pipes[k].apps, e) = b

LEMMA EntryIs ==
    ASSUME IInv, Settle, NEW a \in Cell, NEW x \in Elem, NEW b \in Addr
    PROVE  r_table[a][<<x, b>>] > 0 <=>
               \E e \in Elem, k \in PipeId : AddrOf(e) = a /\ Carries(k, e, x, b)
<1> DEFINE l == <<x, b>>
<1>1. TypeOK /\ OneCell /\ Counted /\ Idle /\ l \in Link
  BY DEF IInv, Link
<1>2. CASE a \in Running
  <2>1. PICK e \in App : AddrOf(e) = a
    BY <1>1, <1>2, Cells
  <2>2. AddrOf(e) # NoCell /\ e \in Elem /\ a \in Addr
    BY <1>1, <1>2, <2>1, Cells DEF Running
  <2>3. mailbox[a] = <<>> /\ r_table[a] \in Table
    BY <1>1, <2>2 DEF Settle, TypeOK
  <2>4. Settled(a) = r_table[a]
    <3>1. <<>> \in Seq(Message) /\ Len(<<>>) = 0
      BY EmptySeq
    <3>2. Worked(r_table[a], <<>>)[0] = r_table[a]
      BY <2>3, <3>1, WorkedIs
    <3> QED BY <2>3, <3>1, <3>2 DEF Settled
  <2>5. r_table[a][l] = Cardinality(Starts(e, l))
    BY <1>1, <2>1, <2>2, <2>4 DEF Counted
  <2>6. /\ IsFiniteSet(Starts(e, l)) /\ Cardinality(Starts(e, l)) \in Nat
        /\ \A k \in Feeding(e, l) : k \in PipeId /\ Loaded(pipes[k].apps) /\ pipes[k].apps \in Lists
    BY <1>1, <2>2, StartsIs
  <2>7. r_table[a][l] > 0 <=> Starts(e, l) # {}
    <3>1. Cardinality(Starts(e, l)) = 0 <=> Starts(e, l) = {}
      BY <2>6, FS_EmptySet
    <3> HIDE DEF l
    <3> QED BY <2>5, <2>6, <3>1
  <2>8. Starts(e, l) # {} <=> Feeding(e, l) # {}
    <3>1. ASSUME NEW k \in Feeding(e, l) PROVE Occurs(pipes[k].apps, e) # {}
      <4>1. e \in ToSet(pipes[k].apps)
        BY <3>1 DEF Feeding, Links
      <4> QED BY <2>6, <3>1, <4>1, ListIs DEF Occurs
    <3>2. ASSUME NEW k \in Feeding(e, l) PROVE Starts(e, l) # {}
      <4>1. PICK i : i \in Occurs(pipes[k].apps, e)
        BY <3>1
      <4>2. <<k, i>> \in {k} \X Occurs(pipes[k].apps, e)
        BY <4>1
      <4>3. <<k, i>> \in Starts(e, l)
        BY <4>2 DEF Starts
      <4> QED BY <4>3
    <3>3. Feeding(e, l) = {} => Starts(e, l) = {}
      BY DEF Starts
    <3> QED BY <3>2, <3>3
  <2>9. \A k \in PipeId : k \in Feeding(e, l) <=> Carries(k, e, x, b)
    BY <2>6 DEF Feeding, Links, Carries
  <2>10. Feeding(e, l) # {} <=> \E k \in PipeId : Carries(k, e, x, b)
    BY <2>6, <2>9
  <2>11. \A f \in Elem : AddrOf(f) = a => f = e
    BY <1>1, <2>1, <2>2, Cells
  <2> QED BY <2>1, <2>2, <2>7, <2>8, <2>10, <2>11
<1>3. CASE a \notin Running
  <2>1. r_table[a][l] = 0
    BY <1>1, <1>3 DEF Idle, NoLinks, Addr
  <2>2. ASSUME NEW e \in Elem, AddrOf(e) = a PROVE FALSE
    BY <1>1, <1>3, <2>2, Cells
  <2> QED BY <2>1, <2>2
<1> QED BY <1>2, <1>3

\* An entry leads to the next APP of the list.
LEMMA CarriesOn ==
    ASSUME OneCell, NEW k, NEW e, NEW x, NEW b \in Addr, Carries(k, e, x, b)
    PROVE  LET s == pipes[k].apps
               p == LastPlace(s, e)
           IN  /\ s \in Lists /\ p \in 1 .. Len(s) /\ p + 1 \in 1 .. Len(s) /\ s[p] = e
               /\ s[p + 1] \in Elem /\ AddrOf(s[p + 1]) = b /\ b # NoCell
<1> PICK s : s = pipes[k].apps
  OBVIOUS
<1>1. Loaded(s) /\ s \in Lists /\ e \in ToSet(s) /\ Target(s, e) = b
  BY DEF Carries, Loaded
<1>2. PICK i \in 1 .. Len(s) : s[i] = e
  BY <1>1, ListIs
<1>3. b # NoCell
  BY Cells
<1>4. LastPlace(s, e) \in 1 .. Len(s) /\ s[LastPlace(s, e)] = e
  BY <1>1, <1>2, LastPlaceIs
<1>5. LastPlace(s, e) + 1 \in 1 .. Len(s) /\ Target(s, e) = AddrOf(s[LastPlace(s, e) + 1])
      /\ s[LastPlace(s, e) + 1] \in Elem
  BY <1>1, <1>2, <1>3, TargetIs
<1> QED BY <1>1, <1>3, <1>4, <1>5

\* The other way round.
LEMMA NextCarries ==
    ASSUME IInv, NEW k \in PipeId, pipes[k].st = "started",
           NEW i \in 1 .. Len(pipes[k].apps), i < Len(pipes[k].apps),
           i = LastPlace(pipes[k].apps, pipes[k].apps[i])
    PROVE  LET s == pipes[k].apps IN
           /\ AddrOf(s[i + 1]) \in Addr /\ AddrOf(s[i]) \in Addr /\ s[i] \in Elem /\ s[1] \in Elem
           /\ Carries(k, s[i], s[1], AddrOf(s[i + 1]))
<1> PICK s : s = pipes[k].apps
  OBVIOUS
<1>1. OneCell /\ Loaded(s) /\ s \in Lists
  BY DEF IInv, Made, HasPipe, Loaded
<1>2. Len(s) \in Nat /\ i + 1 \in 1 .. Len(s) /\ s[i] \in Elem /\ s[i + 1] \in Elem /\ s[1] \in Elem
      /\ s[i] \in ToSet(s)
  BY <1>1, ListIs
<1>3. AddrOf(s[i + 1]) # NoCell /\ AddrOf(s[i]) # NoCell
  BY <1>1, <1>2 DEF Loaded
<1>4. AddrOf(s[i + 1]) \in Addr /\ AddrOf(s[i]) \in Addr
  BY <1>1, <1>2, <1>3, Cells
<1>5. Target(s, s[i]) = AddrOf(s[i + 1])
  BY <1>2 DEF Target
<1> QED BY <1>1, <1>2, <1>4, <1>5 DEF Carries

\* In a list without repetition every place is the last one of its APP.
LEMMA PlainPlace ==
    ASSUME NEW s \in Lists, IsInjective(s), NEW i \in 1 .. Len(s)
    PROVE  LastPlace(s, s[i]) = i
<1>1. LastPlace(s, s[i]) \in 1 .. Len(s) /\ s[LastPlace(s, s[i])] = s[i] /\ DOMAIN s = 1 .. Len(s)
  BY ListIs, LastPlaceIs
<1> QED BY <1>1 DEF IsInjective

LEMMA TailIs ==
    ASSUME NEW s \in Lists
    PROVE  \A e : e \in ToSet(Tail(s)) <=> \E i \in 2 .. Len(s) : s[i] = e
<1>1. s \in Seq(Elem) /\ Len(s) \in Nat /\ Len(s) > 1
  BY ListIs
<1>2. s # <<>>
  BY <1>1, EmptySeq
<1>3. /\ Tail(s) \in Seq(Elem) /\ Len(Tail(s)) = Len(s) - 1
      /\ \A i \in 1 .. Len(Tail(s)) : Tail(s)[i] = s[i + 1]
  BY <1>1, <1>2, HeadTailProperties
<1>4. DOMAIN Tail(s) = 1 .. Len(s) - 1
  BY <1>3, LenProperties
<1>5. ASSUME NEW e, e \in ToSet(Tail(s)) PROVE \E i \in 2 .. Len(s) : s[i] = e
  <2>1. PICK j \in 1 .. Len(s) - 1 : Tail(s)[j] = e
    BY <1>4, <1>5 DEF ToSet
  <2>2. j + 1 \in 2 .. Len(s) /\ s[j + 1] = e
    BY <1>1, <1>3, <2>1
  <2> QED BY <2>2
<1>6. ASSUME NEW i \in 2 .. Len(s) PROVE s[i] \in ToSet(Tail(s))
  <2>1. i - 1 \in 1 .. Len(s) - 1 /\ i - 1 + 1 = i
    BY <1>1
  <2>2. Tail(s)[i - 1] = s[i]
    BY <1>3, <2>1
  <2> QED BY <1>4, <2>1, <2>2 DEF ToSet
<1> QED BY <1>5, <1>6

\* From is the least set with B that is closed under Hops.
LEMMA FromLeast ==
    ASSUME NEW s, NEW B \in SUBSET Addr, NEW A \in SUBSET Addr, B \subseteq A, Hops(s, A) \subseteq A
    PROVE  From(s, B) \subseteq A
BY DEF From

LEMMA FlowHolds == IInv => Flow
<1> SUFFICES ASSUME IInv, Settle, \A k \in PipeId : Plain(k), NEW s \in App, addr[s] # NoCell
             PROVE  /\ {AddrOf(e) : e \in Following(s)} \subseteq ReachedBy(s)
                    /\ (\A k \in StartedBy(s) : Following(s) \cap CutOff(pipes[k].apps) = {}) =>
                           ReachedBy(s) \subseteq {AddrOf(e) : e \in Following(s)}
  BY DEF Flow
<1> DEFINE On(k) == k \in PipeId /\ pipes[k].st = "started" /\ s \in ToSet(pipes[k].apps)
           R == {AddrOf(e) : e \in Following(s)}
           Apart == \A k \in StartedBy(s) : Following(s) \cap CutOff(pipes[k].apps) = {}
<1>1. OneCell /\ TypeOK
  BY DEF IInv
<1>2. s \in Elem /\ AddrOf(s) = addr[s] /\ AddrOf(s) # NoCell
  BY CellAssumption DEF AddrOf, Elem
<1>3. AddrOf(s) \in Addr
  BY <1>1, <1>2, Cells
<1>4. /\ \A e : e \in Following(s) <=> \E k : On(k) /\ e \in Followers(s, k)
      /\ \A b : b \in R <=> \E e \in Following(s) : AddrOf(e) = b
      /\ \A b : b \in R <=> \E k, e : On(k) /\ e \in Followers(s, k) /\ AddrOf(e) = b
  BY DEF Following, RunningWith
<1>5. ASSUME NEW k, On(k)
      PROVE  /\ k \in PipeId /\ pipes[k].st = "started"
             /\ pipes[k].apps \in Lists /\ Loaded(pipes[k].apps) /\ IsInjective(pipes[k].apps)
             /\ Len(pipes[k].apps) \in Nat /\ Len(pipes[k].apps) > 1
             /\ \A i \in 1 .. Len(pipes[k].apps) : /\ LastPlace(pipes[k].apps, pipes[k].apps[i]) = i
                                                   /\ pipes[k].apps[i] \in Elem
                                                   /\ AddrOf(pipes[k].apps[i]) # NoCell
                                                   /\ AddrOf(pipes[k].apps[i]) \in Addr
  <2>1. k \in PipeId /\ HasPipe(k) /\ Plain(k)
    BY <1>5 DEF HasPipe
  <2>2. pipes[k].apps \in Lists /\ Loaded(pipes[k].apps) /\ IsInjective(pipes[k].apps)
    BY <2>1 DEF IInv, Made, Loaded, Plain
  <2> PICK q : q = pipes[k].apps
    OBVIOUS
  <2>3. \A i \in 1 .. Len(q) : LastPlace(q, q[i]) = i /\ q[i] \in Elem /\ AddrOf(q[i]) # NoCell
    BY <2>2, ListIs, PlainPlace DEF Loaded
  <2>4. \A i \in 1 .. Len(q) : AddrOf(q[i]) \in Addr
    BY <1>1, <2>3, Cells
  <2> QED BY <1>5, <2>2, <2>3, <2>4, ListIs
<1> HIDE DEF R, Apart
<1>13. ASSUME NEW e \in Elem, NEW k, NEW x, NEW b \in Addr, Carries(k, e, x, b)
       PROVE  LET q == pipes[k].apps
                  p == LastPlace(q, e)
              IN  /\ q \in Lists /\ p \in 1 .. Len(q) /\ p + 1 \in 1 .. Len(q) /\ q[p] = e
                  /\ q[p + 1] \in Elem /\ AddrOf(q[p + 1]) = b
                  /\ k \in PipeId /\ pipes[k].st = "started" /\ e \in ToSet(q) /\ q[1] = x
                  /\ Len(q) \in Nat /\ Len(q) > 1 /\ q[1] \in ToSet(q)
  <2> PICK q : q = pipes[k].apps
    OBVIOUS
  <2>1. /\ q \in Lists /\ LastPlace(q, e) \in 1 .. Len(q) /\ LastPlace(q, e) + 1 \in 1 .. Len(q)
        /\ q[LastPlace(q, e)] = e
        /\ q[LastPlace(q, e) + 1] \in Elem /\ AddrOf(q[LastPlace(q, e) + 1]) = b
    BY <1>1, <1>13, CarriesOn
  <2>2. k \in PipeId /\ pipes[k].st = "started" /\ e \in ToSet(q) /\ q[1] = x
    BY <1>13 DEF Carries
  <2>3. Len(q) \in Nat /\ Len(q) > 1 /\ q[1] \in ToSet(q)
    BY <2>1, ListIs
  <2> QED BY <2>1, <2>2, <2>3
\* An entry of s itself leads to a follower.
<1>6. ASSUME NEW k, NEW x, NEW b \in Addr, Carries(k, s, x, b) PROVE b \in R
  <2> PICK q : q = pipes[k].apps
    OBVIOUS
  <2> PICK p : p = LastPlace(q, s)
    OBVIOUS
  <2>1. /\ q \in Lists /\ p \in 1 .. Len(q) /\ p + 1 \in 1 .. Len(q) /\ q[p] = s
        /\ q[p + 1] \in Elem /\ AddrOf(q[p + 1]) = b
        /\ k \in PipeId /\ pipes[k].st = "started" /\ s \in ToSet(q) /\ q[1] = x
        /\ Len(q) \in Nat /\ Len(q) > 1
    BY <1>2, <1>6, <1>13
  <2>2. On(k) /\ \A i \in 1 .. Len(q) : LastPlace(q, q[i]) = i
    BY <1>5, <2>1
  <2>3. q[p + 1] \in Followers(s, k)
    <3>1. CASE s = q[1]
      <4>1. p = 1
        <5>1. 1 \in 1 .. Len(q)
          BY <2>1
        <5> QED BY <2>2, <3>1, <5>1
      <4>2. 2 \in 2 .. Len(q) /\ \A m \in 1 .. (2 - 1) : m = 1
        BY <2>1
      <4>3. q[1] \notin SysApp
        BY <3>1, CellAssumption
      <4>4. q[2] \in Passed(q)
        BY <4>2, <4>3 DEF Passed
      <4> QED BY <3>1, <4>1, <4>4 DEF Followers, Source
    <3>2. CASE s # q[1]
      <4>1. p < Len(q)
        BY <2>1
      <4> QED BY <3>2, <4>1 DEF Followers, Source
    <3> QED BY <3>1, <3>2
  <2> HIDE DEF On
  <2> QED BY <1>4, <2>1, <2>2, <2>3
\* An entry for data of s, in the cell of a follower that no PIPE of s cuts off.
<1>14. ASSUME Apart, NEW e \in Following(s), e \in Elem, NEW k, NEW b \in Addr,
              AddrOf(e) \in Cell, Carries(k, e, s, b)
       PROVE  b \in R
  <2> PICK q : q = pipes[k].apps
    OBVIOUS
  <2> PICK p : p = LastPlace(q, e)
    OBVIOUS
  <2>1. /\ q \in Lists /\ p \in 1 .. Len(q) /\ p + 1 \in 1 .. Len(q) /\ q[p] = e
        /\ q[p + 1] \in Elem /\ AddrOf(q[p + 1]) = b
        /\ k \in PipeId /\ pipes[k].st = "started" /\ e \in ToSet(q) /\ q[1] = s
        /\ Len(q) \in Nat /\ Len(q) > 1 /\ q[1] \in ToSet(q)
    BY <1>13, <1>14
  <2>2. On(k) /\ k \in StartedBy(s) /\ \A i \in 1 .. Len(q) : LastPlace(q, q[i]) = i
    BY <1>5, <2>1 DEF StartedBy, Source
  <2>3. CASE p = 1
    BY <1>6, <1>14, <2>1, <2>3
  <2>4. CASE p # 1
    <3>1. p \in 2 .. Len(q)
      BY <2>1, <2>4
    <3>2. e \in ToSet(Tail(q))
      BY <2>1, <3>1, TailIs
    <3>3. e \in Passed(q)
      BY <1>14, <2>2, <3>2 DEF Apart, CutOff
    <3>4. PICK i \in 2 .. Len(q) : e = q[i] /\ \A m \in 1 .. (i - 1) : q[m] \notin SysApp
      BY <3>3 DEF Passed
    <3>5. i = p
      <4>1. i \in 1 .. Len(q)
        BY <2>1, <3>4
      <4> QED BY <2>2, <3>4, <4>1
    <3>6. e \notin SysApp
      BY <1>14, CellAssumption DEF AddrOf
    <3>7. \A m \in 1 .. p : q[m] \notin SysApp
      <4>1. \A m \in 1 .. p : m = p \/ m \in 1 .. (p - 1)
        BY <2>1
      <4> QED BY <2>1, <3>4, <3>5, <3>6, <4>1
    <3>8. p + 1 \in 2 .. Len(q)
      BY <2>1, <3>1
    <3>9. q[p + 1] \in Passed(q)
      <4> PICK n : n = p + 1
        OBVIOUS
      <4>3. n \in 2 .. Len(q) /\ n - 1 = p
        BY <2>1, <3>8
      <4>1. \A m \in 1 .. (n - 1) : q[m] \notin SysApp
        BY <3>7, <4>3
      <4>2. q[n] \in Passed(q)
        BY <4>1, <4>3 DEF Passed
      <4> QED BY <4>2
    <3>10. q[p + 1] \in Followers(s, k)
      BY <2>1, <3>9 DEF Followers, Source
    <3> HIDE DEF On
    <3> QED BY <1>4, <2>1, <2>2, <3>10
  <2> QED BY <2>3, <2>4
<1>15. addr[s] \in Cell
  BY <1>1, <1>2, Cells
<1>7. First(s) \subseteq R
  <2> SUFFICES ASSUME NEW b \in Addr, NEW x \in Elem, r_table[AddrOf(s)][<<x, b>>] > 0 PROVE b \in R
    BY DEF First
  <2>1. PICK e \in Elem, k \in PipeId : AddrOf(e) = AddrOf(s) /\ Carries(k, e, x, b)
    BY <1>2, <1>15, EntryIs
  <2>2. e = s
    BY <1>1, <1>2, <2>1, Cells
  <2> QED BY <1>6, <2>1, <2>2
<1>8. R \subseteq Addr /\ Following(s) \subseteq Elem
  <2> SUFFICES ASSUME NEW k, NEW e, On(k), e \in Followers(s, k) PROVE AddrOf(e) \in Addr /\ e \in Elem
    BY <1>4
  <2> PICK q : q = pipes[k].apps
    OBVIOUS
  <2>1. q \in Lists /\ Len(q) \in Nat /\ \A i \in 1 .. Len(q) : AddrOf(q[i]) \in Addr /\ q[i] \in Elem
    BY <1>5
  <2>2. \E i \in 1 .. Len(q) : e = q[i]
    <3>1. CASE s = q[1]
      <4>1. e \in Passed(q)
        BY <3>1 DEF Followers, Source
      <4>2. \A i \in 2 .. Len(q) : i \in 1 .. Len(q)
        BY <2>1
      <4> QED BY <4>1, <4>2 DEF Passed
    <3>2. CASE s # q[1]
      <4>1. /\ e = q[LastPlace(q, s) + 1] /\ LastPlace(q, s) < Len(q)
        BY <3>2 DEF Followers, Source
      <4>2. \E i \in 1 .. Len(q) : q[i] = s
        BY <2>1, ListIs
      <4>3. LastPlace(q, s) \in 1 .. Len(q)
        BY <2>1, <4>2, LastPlaceIs
      <4>4. LastPlace(q, s) + 1 \in 1 .. Len(q)
        BY <2>1, <4>1, <4>3
      <4> QED BY <4>1, <4>4
    <3> QED BY <3>1, <3>2
  <2> QED BY <2>1, <2>2
<1>9. ASSUME Apart PROVE Hops(s, R) \subseteq R
  <2> SUFFICES ASSUME NEW b \in Addr, NEW a \in R \cap Cell, r_table[a][<<s, b>>] > 0 PROVE b \in R
    BY DEF Hops
  <2>1. PICK e \in Elem, k \in PipeId : AddrOf(e) = a /\ Carries(k, e, s, b)
    BY <1>2, EntryIs
  <2>2. PICK f \in Following(s) : AddrOf(f) = a
    BY <1>4
  <2>3. a # NoCell
    BY <1>1, Cells
  <2>4. f = e
    BY <1>1, <1>8, <2>1, <2>2, <2>3, Cells
  <2> QED BY <1>9, <1>14, <2>1, <2>2, <2>4
<1>10. Apart => ReachedBy(s) \subseteq R
  <2>1. First(s) \in SUBSET Addr
    BY DEF First
  <2> QED BY <2>1, <1>7, <1>8, <1>9, FromLeast DEF ReachedBy
<1>11. ASSUME NEW A \in SUBSET Addr, First(s) \cup Hops(s, A) \subseteq A PROVE R \subseteq A
  <2> SUFFICES ASSUME NEW k, NEW e, On(k), e \in Followers(s, k) PROVE AddrOf(e) \in A
    BY <1>4
  <2> PICK q : q = pipes[k].apps
    OBVIOUS
  <2>1. /\ q \in Lists /\ Loaded(q) /\ Len(q) \in Nat /\ Len(q) > 1 /\ k \in PipeId
        /\ pipes[k].st = "started"
        /\ \A i \in 1 .. Len(q) : LastPlace(q, q[i]) = i /\ q[i] \in Elem /\ AddrOf(q[i]) \in Addr
    BY <1>5
  <2> HIDE DEF On
  <2>2. ASSUME NEW i \in 1 .. Len(q), i < Len(q), q[i] \notin SysApp
        PROVE  /\ i + 1 \in 1 .. Len(q) /\ q[1] \in Elem /\ Carries(k, q[i], q[1], AddrOf(q[i + 1]))
               /\ AddrOf(q[i]) \in Cell
               /\ r_table[AddrOf(q[i])][<<q[1], AddrOf(q[i + 1])>>] > 0
    <3>1. i + 1 \in 1 .. Len(q) /\ 1 \in 1 .. Len(q)
      BY <2>1, <2>2
    <3>2. Carries(k, q[i], q[1], AddrOf(q[i + 1]))
      BY <2>1, <2>2, NextCarries
    <3>3. AddrOf(q[i]) \in Cell
      <4>1. q[i] \in App /\ AddrOf(q[i]) # NoCell
        BY <2>1, <2>2 DEF Elem, Loaded
      <4> QED BY <1>1, <4>1, Cells
    <3> QED BY <2>1, <3>1, <3>2, <3>3, EntryIs
  <2>5. s \notin SysApp
    BY CellAssumption
  <2>3. CASE s # q[1]
    <3>1. e = q[LastPlace(q, s) + 1] /\ LastPlace(q, s) < Len(q)
      BY <2>3 DEF Followers, Source
    <3>2. PICK i \in 1 .. Len(q) : q[i] = s
      BY <2>1, ListIs DEF On
    <3>3. i = LastPlace(q, s)
      BY <2>1, <3>2
    <3>4. q[1] \in Elem /\ r_table[AddrOf(s)][<<q[1], AddrOf(e)>>] > 0 /\ AddrOf(e) \in Addr
      BY <2>1, <2>2, <2>5, <3>1, <3>2, <3>3
    <3>5. AddrOf(e) \in First(s)
      BY <3>4 DEF First
    <3> QED BY <1>11, <3>5
  <2>4. CASE s = q[1]
    <3>4. e \in Passed(q)
      BY <2>4 DEF Followers, Source
    <3>5. PICK j \in 2 .. Len(q) : q[j] = e /\ \A m \in 1 .. (j - 1) : q[m] \notin SysApp
      BY <3>4 DEF Passed
    <3> DEFINE S == {i \in 0 .. j - 2 : AddrOf(q[i + 2]) \in A}
    <3>1. 0 \in S
      <4>1. 1 \in 1 .. Len(q) /\ 1 < Len(q) /\ 1 + 1 = 2 /\ 2 \in 1 .. Len(q)
        BY <2>1
      <4>2. r_table[AddrOf(s)][<<s, AddrOf(q[2])>>] > 0 /\ AddrOf(q[2]) \in Addr
        BY <2>1, <2>2, <2>4, <2>5, <4>1
      <4>3. AddrOf(q[2]) \in First(s)
        BY <1>2, <4>2 DEF First
      <4>4. 0 \in 0 .. j - 2 /\ 0 + 2 = 2
        BY <2>1
      <4> QED BY <1>11, <4>3, <4>4
    <3>2. ASSUME NEW i \in 0 .. j - 2, i < j - 2, i \in S PROVE i + 1 \in S
      <4> PICK n : n = i + 2
        OBVIOUS
      <4>1. n \in 1 .. Len(q) /\ n < Len(q) /\ n + 1 \in 1 .. Len(q) /\ i + 1 + 2 = n + 1
            /\ i + 1 \in 0 .. j - 2 /\ n \in 1 .. (j - 1)
        BY <2>1, <3>2
      <4>2. AddrOf(q[n]) \in A
        BY <3>2
      <4>3. /\ r_table[AddrOf(q[n])][<<s, AddrOf(q[n + 1])>>] > 0 /\ AddrOf(q[n + 1]) \in Addr
            /\ AddrOf(q[n]) \in Cell
        BY <2>1, <2>2, <2>4, <3>5, <4>1
      <4>4. AddrOf(q[n + 1]) \in Hops(s, A)
        BY <4>2, <4>3 DEF Hops
      <4> QED BY <1>11, <4>1, <4>4
    <3> HIDE DEF S
    <3>3. \A i \in 0 .. j - 2 : i \in S
      <4> PICK n : n = j - 2
        OBVIOUS
      <4>1. n \in Nat
        BY <2>1
      <4>2. \A i \in 0 .. n : i < n /\ i \in S => i + 1 \in S
        BY <3>2
      <4>3. \A i \in 0 .. n : i \in S
        BY <3>1, <4>1, <4>2, Climb
      <4> QED BY <4>3
    <3>6. j - 2 \in 0 .. j - 2 /\ j - 2 + 2 = j
      BY <2>1
    <3>7. AddrOf(q[j - 2 + 2]) \in A
      BY <3>3, <3>6 DEF S
    <3> QED BY <3>5, <3>6, <3>7
  <2> QED BY <2>3, <2>4
<1>12. R \subseteq ReachedBy(s)
  BY <1>8, <1>11 DEF ReachedBy, From
<1> QED BY <1>10, <1>12 DEF R, Apart

\* Data of every APP reaches the cells its running PIPEs say, up to the first
\* permanent APP, and no other: do_post posts to the targets of all sources,
\* route_data forwards by source (api.lua), the permanent APPs send none on.
THEOREM DataReachesItsPipes == Spec => []Flow
BY Invariant, FlowHolds, PTL

LEMMA NoLoopHolds == IInv => NoLoop
<1> SUFFICES ASSUME IInv, NEW s \in App, Settle, \A j, k \in StartedBy(s) : j = k,
                    NEW a \in Running
             PROVE  a \notin From(s, Hops(s, {a}))
  BY DEF NoLoop
<1>1. OneCell /\ s \in Elem
  BY DEF IInv, Elem
<1>2. a \in Addr
  BY <1>1, Cells
<1>3. PICK e \in Elem : a = AddrOf(e)
  BY <1>1, Cells
<1>4. a # NoCell
  BY DEF Running
\* It is enough that some set is closed under Hops and does not have a.
<1>5. SUFFICES \E A \in SUBSET Addr : Hops(s, {a}) \subseteq A /\ Hops(s, A) \subseteq A /\ a \notin A
  <2>1. Hops(s, {a}) \in SUBSET Addr
    BY DEF Hops
  <2> QED BY <2>1, FromLeast
<1>6. ASSUME NEW c \in Cell, NEW b \in Addr, r_table[c][<<s, b>>] > 0
      PROVE  \E f \in Elem, k \in StartedBy(s) : AddrOf(f) = c /\ Carries(k, f, s, b)
  <2>1. PICK f \in Elem, k \in PipeId : AddrOf(f) = c /\ Carries(k, f, s, b)
    BY <1>1, <1>6, EntryIs
  <2>2. k \in StartedBy(s)
    BY <2>1 DEF StartedBy, Carries, Source
  <2> QED BY <2>1, <2>2
<1>7. CASE a \notin Cell \/ \A b \in Addr : ~ (r_table[a][<<s, b>>] > 0)
  <2>1. Hops(s, {a}) = {} /\ Hops(s, {}) = {}
    BY <1>7 DEF Hops
  <2> QED BY <2>1
<1>8. CASE a \in Cell /\ \E b \in Addr : r_table[a][<<s, b>>] > 0
  <2>1. PICK k \in StartedBy(s), z \in Addr : Carries(k, e, s, z)
    <3>1. PICK b \in Addr, f \in Elem, k \in StartedBy(s) : AddrOf(f) = a /\ Carries(k, f, s, b)
      BY <1>2, <1>6, <1>8
    <3>2. f = e
      BY <1>1, <1>3, <1>4, <3>1, Cells
    <3> QED BY <3>1, <3>2
  <2> PICK q : q = pipes[k].apps
    OBVIOUS
  <2> DEFINE Rank(f) == LastPlace(q, f)
  \* The cells of the APPs that have their last place behind that of e.
             A == {c \in Addr : \E f \in ToSet(q) : AddrOf(f) = c /\ Rank(e) < Rank(f)}
  <2>2. q \in Lists /\ Loaded(q) /\ e \in ToSet(q)
    BY <2>1 DEF Carries, Loaded
  <2>3. ASSUME NEW f \in ToSet(q)
        PROVE  f \in Elem /\ Rank(f) \in 1 .. Len(q) /\ q[Rank(f)] = f /\ AddrOf(f) # NoCell
    <3>1. PICK i \in 1 .. Len(q) : q[i] = f
      BY <2>2, ListIs
    <3> QED BY <2>2, <3>1, ListIs, LastPlaceIs DEF Loaded
  <2>4. ASSUME NEW f \in ToSet(q), NEW b \in Addr, Carries(k, f, s, b)
        PROVE  \E g \in ToSet(q) : AddrOf(g) = b /\ Rank(f) < Rank(g)
    <3> DEFINE p == LastPlace(q, f)
    <3>1. p + 1 \in 1 .. Len(q) /\ AddrOf(q[p + 1]) = b
      BY <1>1, <2>4, CarriesOn
    <3>2. p \in 1 .. Len(q)
      BY <2>3
    <3> HIDE DEF p
    <3>3. p + 1 <= LastPlace(q, q[p + 1])
      BY <2>2, <3>1, LastPlaceIs
    <3>4. q[p + 1] \in ToSet(q)
      BY <2>2, <3>1, ListIs
    <3>5. LastPlace(q, q[p + 1]) \in 1 .. Len(q) /\ Len(q) \in Nat
      BY <2>2, <3>1, LastPlaceIs, ListIs
    <3>6. p < LastPlace(q, q[p + 1])
      BY <3>2, <3>3, <3>5
    <3> QED BY <3>1, <3>4, <3>6 DEF p
  <2> HIDE DEF Rank
  <2>5. ASSUME NEW f \in Elem, NEW b \in Addr, NEW j \in StartedBy(s), Carries(j, f, s, b)
        PROVE  Carries(k, f, s, b) /\ f \in ToSet(q)
    <3>1. j = k
      OBVIOUS
    <3> QED BY <2>5, <3>1 DEF Carries
  <2>6. Hops(s, {a}) \subseteq A
    <3> SUFFICES ASSUME NEW b \in Addr, r_table[a][<<s, b>>] > 0 PROVE b \in A
      BY DEF Hops
    <3>1. PICK f \in Elem, j \in StartedBy(s) : AddrOf(f) = a /\ Carries(j, f, s, b)
      BY <1>6, <1>8
    <3>2. f = e
      BY <1>1, <1>3, <1>4, <3>1, Cells
    <3>3. Carries(k, e, s, b)
      BY <2>5, <3>1, <3>2
    <3> QED BY <2>2, <2>4, <3>3
  <2>7. Hops(s, A) \subseteq A
    <3> SUFFICES ASSUME NEW b \in Addr, NEW c \in A \cap Cell, r_table[c][<<s, b>>] > 0 PROVE b \in A
      BY DEF Hops
    <3>1. PICK f \in Elem, j \in StartedBy(s) : AddrOf(f) = c /\ Carries(j, f, s, b)
      BY <1>6
    <3>2. PICK g \in ToSet(q) : AddrOf(g) = c /\ Rank(e) < Rank(g)
      OBVIOUS
    <3>3. f = g
      BY <1>1, <2>3, <3>1, <3>2, Cells
    <3>4. Carries(k, g, s, b)
      BY <2>5, <3>1, <3>3
    <3>5. PICK h \in ToSet(q) : AddrOf(h) = b /\ Rank(g) < Rank(h)
      BY <2>4, <3>4
    <3>6. Rank(e) < Rank(h)
      <4>1. Rank(e) \in Nat /\ Rank(g) \in Nat /\ Rank(h) \in Nat
        BY <2>2, <2>3
      <4> QED BY <3>2, <3>5, <4>1
    <3> QED BY <3>5, <3>6
  <2>8. a \notin A
    <3> SUFFICES ASSUME NEW f \in ToSet(q), AddrOf(f) = a, Rank(e) < Rank(f) PROVE FALSE
      OBVIOUS
    <3>1. f = e
      BY <1>1, <1>3, <1>4, <2>3, Cells
    <3> QED BY <2>3, <3>1
  <2>9. A \in SUBSET Addr
    OBVIOUS
  <2> HIDE DEF A
  <2> QED BY <2>6, <2>7, <2>8, <2>9
<1> QED BY <1>7, <1>8

\* Data does not go round, not even in a PIPE that lists an APP twice, unless two
\* running PIPEs have the same source: only the last place of an APP has an entry.
THEOREM DataDoesNotGoRound == Spec => []NoLoop
BY Invariant, NoLoopHolds, PTL

-----------------------------------------------------------------------------
(* PipeRoutes implements PipeGraph.                                         *)

LEMMA GraphInit == Init => Graph!Init
<1> SUFFICES ASSUME Init PROVE Graph!Init
  OBVIOUS
<1>1. {i \in App : addr[i] # NoCell} = {}
  BY DEF Init
<1>2. pipes = [k \in PipeId |-> Graph!NoPipe]
  BY DEF Init, NoPipe, Graph!NoPipe
<1> QED BY <1>1, <1>2 DEF Graph!Init

LEMMA GraphNext ==
    ASSUME IInv, [Next]_vars
    PROVE  [Graph!Next]_<<{i \in App : addr[i] # NoCell}, pipes>>
<1> DEFINE up == {i \in App : addr[i] # NoCell}
           upp == {i \in App : addr'[i] # NoCell}
<1>1. TypeOK /\ OneCell /\ Made
  BY DEF IInv
<1>2. NoPipe = Graph!NoPipe
  BY DEF NoPipe, Graph!NoPipe
<1>3. \A e \in Elem : AddrOf(e) # NoCell => e \in up \cup SysApp
  BY DEF AddrOf, Elem
<1>4. CASE UNCHANGED vars
  BY <1>4 DEF vars
<1>5. ASSUME NEW i \in App, AppNew(i) PROVE Graph!AddApp(i)
  <2>1. PICK c \in Cell : addr' = [addr EXCEPT ![i] = c]
    BY <1>5 DEF AppNew
  <2>2. i \notin up /\ c # NoCell /\ pipes' = pipes
    BY <1>5, CellAssumption DEF AppNew, Addr
  <2>3. upp = up \cup {i}
    BY <1>1, <2>1, <2>2 DEF TypeOK
  <2> QED BY <2>2, <2>3 DEF Graph!AddApp
<1>6. ASSUME NEW i \in App, AppRemove(i) PROVE Graph!RemoveApp(i)
  <2>1. i \in up /\ addr' = [addr EXCEPT ![i] = NoCell] /\ pipes' = pipes
    BY <1>6 DEF AppRemove
  <2>2. upp = up \ {i}
    BY <1>1, <2>1 DEF TypeOK
  <2>3. ASSUME NEW k \in PipeId PROVE ~ Graph!Uses(k, i)
    <3>1. DOMAIN pipes[k].apps = 1 .. Len(pipes[k].apps)
      BY <1>1, Pipes, LenProperties DEF NoPipe
    <3>2. i \notin ToSet(pipes[k].apps)
      BY <1>6 DEF AppRemove, Free
    <3> QED BY <3>1, <3>2 DEF Graph!Uses, ToSet
  <2> QED BY <2>1, <2>2, <2>3 DEF Graph!RemoveApp
<1>7. ASSUME NEW k \in PipeId, NEW s \in Lists, NEW auto \in BOOLEAN, PipeNew(k, s, auto)
      PROVE  Graph!AddPipe(k)
  <2> PICK st : st = IF auto THEN "started" ELSE "stopped"
    OBVIOUS
  <2>1. Turned(k, st, s) /\ addr' = addr
    BY <1>7 DEF PipeNew, Turned
  <2>2. pipes'[k] = [st |-> st, apps |-> s]
    BY <1>1, <2>1, TurnedIs
  <2>3. pipes' = [pipes EXCEPT ![k] = pipes'[k]]
    BY <2>1, <2>2 DEF Turned
  <2>4. s \in Seq(Elem) /\ \A n \in 1 .. Len(s) : s[n] \in up \cup SysApp
    BY <1>3, <1>7, ListIs DEF PipeNew
  <2>5. pipes'[k] \in Graph!Pipe /\ pipes'[k].st # "none" /\ pipes'[k].apps = s
    BY <2>2, <2>4 DEF Graph!Pipe, Graph!Elem, Elem
  <2>6. pipes[k] = Graph!NoPipe
    BY <1>1, <1>2, <1>7, Pipes DEF PipeNew
  <2>7. upp = up
    BY <2>1
  <2> QED BY <2>3, <2>4, <2>5, <2>6, <2>7 DEF Graph!AddPipe
<1>8. ASSUME NEW k \in PipeId, PipeStart(k) \/ PipeStop(k) PROVE Graph!SwitchPipe(k)
  <2>1. pipes[k].st # "none" /\ addr' = addr
    BY <1>8 DEF PipeStart, PipeStop, Stoppable
  <2>2. \E st \in {"stopped", "started"} : pipes' = [pipes EXCEPT ![k].st = st]
    BY <1>8 DEF PipeStart, PipeStop
  <2> QED BY <2>1, <2>2 DEF Graph!SwitchPipe
<1>9. ASSUME NEW k \in PipeId, PipeRemove(k) PROVE Graph!RemovePipe(k)
  BY <1>2, <1>9 DEF PipeRemove, Graph!RemovePipe
<1>10. ASSUME Clean PROVE Graph!ForgetPipes
  <2>1. pipes' = [k \in PipeId |-> Graph!NoPipe] /\ addr' = addr
    BY <1>10 DEF Clean, NoPipe, Graph!NoPipe
  <2>2. Graph!ForgetPipes
    BY <2>1 DEF Graph!ForgetPipes
  <2> QED BY <2>2
<1>11. ASSUME NEW a, Receive(a) \/ Ignore(a) PROVE upp = up /\ pipes' = pipes
  BY <1>11 DEF Receive, Ignore
<1>12. CASE Next
  <2>1. Graph!Next \/ (upp = up /\ pipes' = pipes)
    BY <1>5, <1>6, <1>7, <1>8, <1>9, <1>10, <1>11, <1>12 DEF Next, Graph!Next
  <2> QED BY <2>1
<1> QED BY <1>4, <1>12

\* What PipeGraph promises of APPs and PIPEs holds here too: a PIPE is made of APPs
\* that are loaded, an APP of a PIPE is not removed, a PIPE is removed only when
\* stopped (pipe_new, app_remove, pipe_remove), except by clean.
THEOREM ImplementsGraph == Spec => GraphSpec
<1>1. IInv /\ [Next]_vars => [Graph!Next]_<<{i \in App : addr[i] # NoCell}, pipes>>
  BY GraphNext
<1> QED BY <1>1, GraphInit, Invariant, PTL DEF Spec, GraphSpec, Graph!Spec
=============================================================================
