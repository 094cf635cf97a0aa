--------------------------- MODULE AccountingProofs ---------------------------
(***************************************************************************)
(* The statistics for any number of slots, any clock and any number of     *)
(* forks: no tick is counted twice, waits are counted where they were      *)
(* waited, and sys_get_stats answers with the process it is asked for.     *)
(***************************************************************************)
EXTENDS Accounting, SequenceTheorems, TLAPS

(***************************************************************************)
(* Part one: the abstract queues.  What ProcQueues promises, for any       *)
(* number of slots: each process in one place, and nobody overtaken.       *)
(***************************************************************************)

\* The slots are the processes of the queues.
LEMMA SlotsAreProcs ==
  /\ Idle \in Slots /\ Task1 \in Slots /\ Idle # Task1
  /\ Queues!ProcAssumption /\ Slots \subseteq Nat
BY AccountingAssumption DEF Slots, Idle, Task1, Queues!ProcAssumption

Distinct(q) == \A i, j \in 1..Len(q) : q[i] = q[j] => i = j

In(q, p) == \E i \in 1..Len(q) : q[i] = p

\* OnePlaceEach in terms of membership.
OnePlace(run, r, b) ==
  /\ Distinct(r) /\ Distinct(b)
  /\ ~ In(r, run) /\ ~ In(b, run) /\ ~ In(b, Idle)
  /\ \A p : ~ (In(r, p) /\ In(b, p))

\* OnePlaceEach, said with the operators of this module.
LEMMA OnePlaceSame == Queues!OnePlaceEach <=> OnePlace(running, ready, blocked)
BY DEF Queues!OnePlaceEach, OnePlace, Distinct, In

\* Appending a newcomer to a queue without repetitions.
LEMMA AppendOnce ==
  ASSUME NEW q \in Seq(Slots), NEW p \in Slots, Distinct(q), ~ In(q, p)
  PROVE  /\ Append(q, p) \in Seq(Slots) /\ Distinct(Append(q, p))
         /\ \A x : In(Append(q, p), x) <=> In(q, x) \/ x = p
         /\ \A i \in 1..Len(q) : i \in 1..Len(Append(q, p)) /\ Append(q, p)[i] = q[i]
         /\ Append(q, p) # <<>>
<1>1. PICK n \in Nat : n = Len(q)
  OBVIOUS
<1> DEFINE a == Append(q, p)
<1>2. /\ a \in Seq(Slots) /\ Len(a) = n + 1 /\ a[n + 1] = p
      /\ \A i \in 1..n : a[i] = q[i]
  BY <1>1
<1>3. a # <<>>
  BY <1>1, <1>2
<1> HIDE DEF a
<1>4. /\ \A i \in 1..(n + 1) : i \in 1..n \/ i = n + 1
      /\ n + 1 \in 1..(n + 1) /\ \A i \in 1..n : i \in 1..(n + 1)
  BY <1>1
<1>5. \A x : In(a, x) <=> In(q, x) \/ x = p
  BY <1>1, <1>2, <1>4 DEF In
<1>6. \A i \in 1..n : q[i] # p
  BY <1>1 DEF In
<1>7. Distinct(a)
  <2> SUFFICES ASSUME NEW i \in 1..(n + 1), NEW j \in 1..(n + 1), a[i] = a[j]
               PROVE  i = j
    BY <1>2 DEF Distinct
  <2>1. \A k, l \in 1..n : q[k] = q[l] => k = l
    BY <1>1 DEF Distinct
  <2> QED
    BY <1>2, <1>4, <1>6, <2>1
<1> QED
  BY <1>1, <1>2, <1>3, <1>4, <1>5, <1>7 DEF a

\* Taking the first of a queue without repetitions.
LEMMA TailOnce ==
  ASSUME NEW q \in Seq(Slots), Distinct(q), q # <<>>
  PROVE  /\ Head(q) \in Slots /\ In(q, Head(q))
         /\ Tail(q) \in Seq(Slots) /\ Distinct(Tail(q))
         /\ ~ In(Tail(q), Head(q))
         /\ \A x : In(Tail(q), x) => In(q, x)
         /\ \A j \in 1..Len(Tail(q)) :
              j + 1 \in 1..Len(q) /\ Tail(q)[j] = q[j + 1]
<1>1. PICK n \in Nat : n = Len(q) /\ n # 0
  OBVIOUS
<1> DEFINE r == Tail(q)
<1>2. /\ Head(q) = q[1] /\ Head(q) \in Slots
      /\ r \in Seq(Slots) /\ Len(r) = n - 1
      /\ \A j \in 1..(n - 1) : r[j] = q[j + 1]
  BY <1>1
<1> HIDE DEF r
<1>3. /\ 1 \in 1..n
      /\ \A j \in 1..(n - 1) : j + 1 \in 1..n /\ j + 1 # 1
      /\ \A i, j \in 1..(n - 1) : i + 1 = j + 1 => i = j
  BY <1>1
<1>4. \A k, l \in 1..n : q[k] = q[l] => k = l
  BY <1>1 DEF Distinct
<1>5. Distinct(r) /\ ~ In(r, q[1]) /\ In(q, q[1]) /\ \A x : In(r, x) => In(q, x)
  <2>1. Distinct(r)
    BY <1>2, <1>3, <1>4 DEF Distinct
  <2>2. ~ In(r, q[1])
    BY <1>2, <1>3, <1>4 DEF In
  <2>3. In(q, q[1]) /\ \A x : In(r, x) => In(q, x)
    BY <1>1, <1>2, <1>3 DEF In
  <2> QED
    BY <2>1, <2>2, <2>3
<1>6. \A j \in 1..Len(r) : j + 1 \in 1..Len(q) /\ r[j] = q[j + 1]
  BY <1>1, <1>2, <1>3
<1> QED
  BY <1>2, <1>5, <1>6 DEF r

\* What Dispatch does to whom the queue q and the blocked queue b hold: the one
\* that runs next is on neither, and the rest of q only moves forward.
LEMMA DispatchOnce ==
  ASSUME Queues!ProcAssumption, NEW q \in Seq(Slots), NEW b, Distinct(q), Distinct(b),
         ~ In(b, Idle), \A p : ~ (In(q, p) /\ In(b, p)), Queues!Dispatch(q)
  PROVE  /\ running' \in Slots /\ ready' \in Seq(Slots)
         /\ OnePlace(running', ready', b)
         /\ \A j \in 1..Len(ready') :
              j + 1 \in 1..Len(q) /\ ready'[j] = q[j + 1]
<1>1. CASE q # <<>>
  <2>1. running' = Head(q) /\ ready' = Tail(q)
    BY <1>1 DEF Queues!Dispatch
  <2> QED
    BY <1>1, <2>1, TailOnce DEF OnePlace
<1>2. CASE q = <<>>
  <2>1. running' = Idle /\ ready' = <<>>
    BY <1>2 DEF Queues!Dispatch
  <2>2. \A p : ~ In(ready', p)
    BY <2>1 DEF In
  <2>3. Len(ready') = 0 /\ ready' \in Seq(Slots)
    BY <2>1
  <2> QED
    BY <2>1, <2>2, <2>3 DEF Queues!ProcAssumption, OnePlace, Distinct
<1> QED
  BY <1>1, <1>2

\* Queue s starts with the whole of queue q.
Extends(q, s) == \A i \in 1..Len(q) : i \in 1..Len(s) /\ s[i] = q[i]

Forward(q, r) ==
  \A i \in 1..Len(q), j \in 1..Len(r) : q[i] = r[j] => j <= i

\* Nobody in a queue falls back when its first is dispatched.
LEMMA DispatchForward ==
  ASSUME NEW q \in Seq(Slots), NEW s \in Seq(Slots), NEW r \in Seq(Slots),
         Distinct(s), Extends(q, s),
         \A j \in 1..Len(r) : j + 1 \in 1..Len(s) /\ r[j] = s[j + 1]
  PROVE  Forward(q, r)
<1> SUFFICES ASSUME NEW i \in 1..Len(q), NEW j \in 1..Len(r), q[i] = r[j]
             PROVE  j <= i
  BY DEF Forward
<1>1. i \in 1..Len(s) /\ j + 1 \in 1..Len(s) /\ s[i] = s[j + 1]
  BY DEF Extends
<1>2. i = j + 1
  BY <1>1 DEF Distinct
<1> QED
  BY <1>2

\* What holds of the queues q of ready and b of blocked processes just before
\* the CPU is given to the first of q.
Ordered(q, b) ==
  /\ q \in Seq(Slots) /\ Distinct(q) /\ Distinct(b) /\ ~ In(b, Idle)
  /\ \A p : ~ (In(q, p) /\ In(b, p))

\* A preemption is a dispatch from a queue in order.
LEMMA PreemptOnce ==
  ASSUME Queues!ProcAssumption, NEW q, NEW b, Ordered(q, b), running \in Slots,
         ~ In(q, running), ~ In(b, running), Queues!Preempt(q)
  PROVE  \E s : Ordered(s, b) /\ Extends(q, s) /\ Queues!Dispatch(s)
<1> DEFINE a == Append(q, running)
<1>1. /\ a \in Seq(Slots) /\ Distinct(a)
      /\ \A x : In(a, x) <=> In(q, x) \/ x = running
      /\ Extends(q, a)
  BY AppendOnce DEF Ordered, Extends
<1>2. Queues!Dispatch(a) \/ Queues!Dispatch(q)
  BY DEF Queues!Preempt
<1> HIDE DEF a
<1>3. Ordered(a, b)
  BY <1>1 DEF Ordered
<1>4. Extends(q, q)
  BY DEF Extends
<1> QED
  BY <1>1, <1>2, <1>3, <1>4

OrderInv == Queues!TypeOK /\ OnePlace(running, ready, blocked)

\* A step that gives the CPU to the first of s, where s starts with the ready
\* queue.
LEMMA DispatchStep ==
  ASSUME Queues!ProcAssumption, OrderInv, NEW s, Extends(ready, s), Queues!Dispatch(s),
         blocked' \in Seq(Slots), Ordered(s, blocked'),
         Forward(blocked, blocked')
  PROVE  /\ OrderInv'
         /\ Forward(ready, ready') /\ Forward(blocked, blocked')
<1>1. /\ running' \in Slots /\ ready' \in Seq(Slots)
      /\ OnePlace(running', ready', blocked')
      /\ \A j \in 1..Len(ready') : j + 1 \in 1..Len(s) /\ ready'[j] = s[j + 1]
  BY DispatchOnce DEF Ordered
<1>2. Forward(ready, ready')
  BY <1>1, DispatchForward DEF OrderInv, Queues!TypeOK, Ordered
<1>3. OrderInv'
  BY <1>1 DEF OrderInv, Queues!TypeOK, OnePlace, Distinct, In
<1> QED
  BY <1>2, <1>3

\* The queues that a step may leave.
LEMMA Stays ==
  ASSUME NEW q \in Seq(Slots), Distinct(q)
  PROVE  /\ Extends(q, q) /\ Forward(q, q)
         /\ \A p \in Slots : ~ In(q, p) => Forward(q, Append(q, p))
         /\ q # <<>> => Forward(q, Tail(q))
<1>1. Extends(q, q)
  BY DEF Extends
<1>2. Forward(q, q)
  BY DEF Forward, Distinct
<1>3. ASSUME NEW p \in Slots, ~ In(q, p) PROVE Forward(q, Append(q, p))
  <2> DEFINE a == Append(q, p)
  <2>1. PICK n \in Nat : n = Len(q)
    OBVIOUS
  <2>2. Len(a) = n + 1 /\ a[n + 1] = p /\ \A i \in 1..n : a[i] = q[i]
    BY <2>1
  <2> HIDE DEF a
  <2>3. ASSUME NEW i \in 1..n, NEW j \in 1..(n + 1), q[i] = a[j] PROVE j <= i
    <3>1. j # n + 1
      BY <1>3, <2>1, <2>2, <2>3 DEF In
    <3>2. j \in 1..n
      BY <3>1
    <3>3. q[i] = q[j]
      BY <2>2, <2>3, <3>2
    <3>4. i = j
      BY <2>1, <3>2, <3>3 DEF Distinct
    <3> QED
      BY <3>4
  <2> QED
    BY <2>1, <2>2, <2>3 DEF Forward, a
<1>4. ASSUME q # <<>> PROVE Forward(q, Tail(q))
  BY <1>1, <1>4, TailOnce, DispatchForward
<1> QED
  BY <1>1, <1>2, <1>3, <1>4

\* Every step keeps the invariant and lets nobody overtake.
LEMMA QueuesStep ==
  ASSUME Queues!ProcAssumption, OrderInv, Queues!Next
  PROVE  /\ OrderInv'
         /\ Forward(ready, ready') /\ Forward(blocked, blocked')
<1>1. /\ running \in Slots /\ ready \in Seq(Slots) /\ blocked \in Seq(Slots)
      /\ Distinct(ready) /\ Distinct(blocked)
      /\ ~ In(ready, running) /\ ~ In(blocked, running) /\ ~ In(blocked, Idle)
      /\ \A p : ~ (In(ready, p) /\ In(blocked, p))
  BY DEF OrderInv, Queues!TypeOK, OnePlace
<1>2. Extends(ready, ready) /\ Forward(ready, ready) /\ Forward(blocked, blocked)
  BY <1>1, Stays
<1>3. Ordered(ready, blocked)
  BY <1>1 DEF Ordered
<1>4. CASE Queues!Fork
  <2>1. PICK p \in Slots : /\ ready' = Append(ready, p)
                           /\ ~ In(ready, p) /\ ~ In(blocked, p) /\ p # running
    BY <1>4 DEF Queues!Fork, Queues!Alive, Queues!Queued, In
  <2>2. /\ ready' \in Seq(Slots) /\ Distinct(ready')
        /\ \A x : In(ready', x) <=> In(ready, x) \/ x = p
        /\ Forward(ready, ready')
    BY <1>1, <2>1, AppendOnce, Stays
  <2>3. running' = running /\ blocked' = blocked
    BY <1>4 DEF Queues!Fork
  <2>4. OnePlace(running', ready', blocked')
    BY <1>1, <2>1, <2>2, <2>3 DEF OnePlace
  <2>5. OrderInv'
    BY <1>1, <2>2, <2>3, <2>4 DEF OrderInv, Queues!TypeOK, OnePlace, Distinct, In
  <2> QED
    BY <1>2, <2>2, <2>3, <2>5
<1>5. CASE Queues!Exit
  BY <1>1, <1>2, <1>3, <1>5, DispatchStep DEF Queues!Exit
<1>6. CASE Queues!Yield
  <2> DEFINE s == Append(ready, running)
  <2>1. /\ s \in Seq(Slots) /\ Distinct(s) /\ Extends(ready, s)
        /\ \A x : In(s, x) <=> In(ready, x) \/ x = running
    BY <1>1, AppendOnce DEF Extends
  <2>2. Queues!Dispatch(s) /\ blocked' = blocked
    BY <1>6 DEF Queues!Yield
  <2> HIDE DEF s
  <2>3. Ordered(s, blocked)
    BY <1>1, <2>1 DEF Ordered
  <2> QED
    BY <1>1, <1>2, <2>1, <2>2, <2>3, DispatchStep
<1>7. CASE Queues!Block
  <2>1. blocked' = Append(blocked, running) /\ Queues!Dispatch(ready) /\ running # Idle
    BY <1>7 DEF Queues!Block
  <2>2. /\ blocked' \in Seq(Slots) /\ Distinct(blocked')
        /\ \A x : In(blocked', x) <=> In(blocked, x) \/ x = running
        /\ Forward(blocked, blocked')
    BY <1>1, <2>1, AppendOnce, Stays
  <2>3. Ordered(ready, blocked')
    BY <1>1, <2>1, <2>2 DEF Ordered
  <2> QED
    BY <1>2, <2>1, <2>2, <2>3, DispatchStep
<1>8. CASE Queues!Preempt(ready) /\ UNCHANGED blocked
  <2>1. PICK s : Ordered(s, blocked) /\ Extends(ready, s) /\ Queues!Dispatch(s)
    BY <1>1, <1>3, <1>8, PreemptOnce
  <2> QED
    BY <1>1, <1>2, <1>8, <2>1, DispatchStep
<1>9. CASE /\ blocked # <<>>
           /\ blocked' = Tail(blocked)
           /\ LET q == Append(ready, Head(blocked))
              IN  \/ Queues!Preempt(q)
                  \/ ready' = q /\ UNCHANGED running
  <2> DEFINE w == Head(blocked)
             q == Append(ready, w)
  <2>1. /\ w \in Slots /\ In(blocked, w)
        /\ blocked' \in Seq(Slots) /\ Distinct(blocked')
        /\ ~ In(blocked', w)
        /\ \A x : In(blocked', x) => In(blocked, x)
        /\ Forward(blocked, blocked')
    BY <1>1, <1>9, TailOnce, Stays
  <2>2. Queues!Preempt(q) \/ (ready' = q /\ UNCHANGED running)
    BY <1>9
  <2> HIDE DEF w
  <2>3. w # running /\ ~ In(ready, w)
    BY <1>1, <2>1
  <2>4. /\ q \in Seq(Slots) /\ Distinct(q) /\ Extends(ready, q)
        /\ \A x : In(q, x) <=> In(ready, x) \/ x = w
        /\ Forward(ready, q)
    BY <1>1, <2>1, <2>3, AppendOnce, Stays DEF Extends
  <2> HIDE DEF q
  <2>5. Ordered(q, blocked')
    BY <1>1, <2>1, <2>4 DEF Ordered
  <2>6. ~ In(q, running) /\ ~ In(blocked', running)
    BY <1>1, <2>1, <2>3, <2>4
  <2>7. CASE Queues!Preempt(q)
    <3>1. PICK s : Ordered(s, blocked') /\ Extends(q, s) /\ Queues!Dispatch(s)
      BY <1>1, <2>5, <2>6, <2>7, PreemptOnce
    <3>2. Extends(ready, s)
      BY <2>4, <3>1 DEF Extends
    <3> QED
      BY <2>1, <3>1, <3>2, DispatchStep
  <2>8. CASE ready' = q /\ UNCHANGED running
    <3>1. OnePlace(running', ready', blocked')
      BY <2>4, <2>5, <2>6, <2>8 DEF OnePlace, Ordered
    <3>2. OrderInv'
      BY <1>1, <2>1, <2>4, <2>8, <3>1 DEF OrderInv, Queues!TypeOK, OnePlace, Distinct, In
    <3> QED
      BY <2>1, <2>4, <2>8, <3>2
  <2> QED
    BY <2>2, <2>7, <2>8
<1> QED
  BY <1>4, <1>5, <1>6, <1>7, <1>8, <1>9 DEF Queues!Next, Queues!Clock

\* The invariant holds.
LEMMA QueuesInv == Queues!Spec => []OrderInv
<1>1. Queues!Init => OrderInv
  BY SlotsAreProcs DEF Queues!ProcAssumption, Queues!Init, OrderInv, Queues!TypeOK, OnePlace, Distinct, In
<1>2. OrderInv /\ UNCHANGED Queues!vars => OrderInv'
  BY DEF OrderInv, Queues!TypeOK, OnePlace, Distinct, In, Queues!vars
<1>3. OrderInv /\ Queues!Next => OrderInv'
  BY SlotsAreProcs, QueuesStep
<1> QED
  BY <1>1, <1>2, <1>3, PTL DEF Queues!Spec

\* Whatever the processes do, none is in two places: not twice on a queue, not
\* on two queues, not running and queued; and idle never blocks.
THEOREM EachInOnePlace == Queues!Spec => []Queues!OnePlaceEach
<1>1. OrderInv => Queues!OnePlaceEach
  BY OnePlaceSame DEF OrderInv
<1> QED
  BY <1>1, QueuesInv, PTL

\* Whatever the processes do, none is overtaken in a queue it stays on.
THEOREM NobodyIsOvertaken == Queues!Spec => Queues!NobodyOvertakes
<1> DEFINE A == /\ \A i \in 1..Len(ready), j \in 1..Len(ready') :
                     ready[i] = ready'[j] => j <= i
                /\ \A i \in 1..Len(blocked), j \in 1..Len(blocked') :
                     blocked[i] = blocked'[j] => j <= i
<1>1. OrderInv /\ [Queues!Next]_(Queues!vars) => [A]_(Queues!vars)
  BY QueuesStep, SlotsAreProcs DEF Forward
<1> HIDE DEF A
<1>2. Queues!Spec => [][A]_(Queues!vars)
  BY <1>1, QueuesInv, PTL DEF Queues!Spec
<1> QED
  BY <1>2 DEF Queues!NobodyOvertakes, A

-----------------------------------------------------------------------------
(***************************************************************************)
(* Part two: the processes with statistics move through those queues       *)
(***************************************************************************)
LEMMA MembersIn ==
  ASSUME NEW S, NEW q \in Seq(S)
  PROVE  \A p : p \in Members(q) <=> In(q, p)
BY DEF Members, In

LEMMA MembersAppend ==
  ASSUME NEW S, NEW q \in Seq(S), NEW p \in S
  PROVE  Append(q, p) \in Seq(S) /\ Members(Append(q, p)) = Members(q) \cup {p}
<1> DEFINE a == Append(q, p)
           n == Len(q)
<1>1. /\ n \in Nat /\ a \in Seq(S) /\ DOMAIN q = 1..n /\ DOMAIN a = 1..(n + 1)
      /\ a[n + 1] = p /\ \A i \in 1..n : a[i] = q[i]
  OBVIOUS
<1> HIDE DEF a, n
<1>2. \A i : i \in 1..(n + 1) <=> i \in 1..n \/ i = n + 1
  BY <1>1
<1>3. Members(a) = Members(q) \cup {p}
  BY <1>1, <1>2 DEF Members
<1> QED
  BY <1>1, <1>3 DEF a

LEMMA MembersTail ==
  ASSUME NEW S, NEW q \in Seq(S), q # <<>>
  PROVE  /\ Head(q) \in S /\ Tail(q) \in Seq(S)
         /\ Members(q) = {Head(q)} \cup Members(Tail(q))
<1> DEFINE r == Tail(q)
           n == Len(q)
<1>1. /\ n \in Nat \ {0} /\ r \in Seq(S) /\ DOMAIN q = 1..n /\ DOMAIN r = 1..(n - 1)
      /\ Head(q) = q[1] /\ q[1] \in S /\ \A i \in 1..(n - 1) : r[i] = q[i + 1]
  OBVIOUS
<1> HIDE DEF r, n
<1>2. /\ \A i \in 1..n : i = 1 \/ (i - 1 \in 1..(n - 1) /\ (i - 1) + 1 = i)
      /\ \A i \in 1..(n - 1) : i + 1 \in 1..n
      /\ 1 \in 1..n
  BY <1>1
<1>3. ASSUME NEW p \in Members(q) PROVE p \in {q[1]} \cup Members(r)
  <2>1. PICK i \in 1..n : p = q[i]
    BY <1>1, <1>3 DEF Members
  <2>2. CASE i # 1
    <3>1. i - 1 \in 1..(n - 1) /\ r[i - 1] = q[(i - 1) + 1] /\ (i - 1) + 1 = i
      BY <1>1, <1>2, <2>2
    <3> QED
      BY <1>1, <2>1, <3>1 DEF Members
  <2> QED
    BY <2>1, <2>2
<1>4. ASSUME NEW p \in Members(r) PROVE p \in Members(q)
  BY <1>1, <1>2, <1>4 DEF Members
<1>5. Members(q) = {q[1]} \cup Members(r)
  BY <1>1, <1>2, <1>3, <1>4 DEF Members
<1> QED
  BY <1>1, <1>5 DEF r

\* The slots that are not alive are free, each of them once.
QInv ==
  /\ OrderInv
  /\ freequeue \in Seq(Slots) /\ Distinct(freequeue)
  /\ Members(freequeue) = Slots \ Alive
  /\ policy \in Policies

LEMMA QInvIs ==
  ASSUME QInv
  PROVE  /\ running \in Slots /\ ready \in Seq(Slots) /\ blocked \in Seq(Slots)
         /\ Members(ready) \subseteq Slots /\ Members(blocked) \subseteq Slots \ {Idle}
         /\ running \notin Members(ready) \cup Members(blocked)
         /\ Members(ready) \cap Members(blocked) = {}
         /\ Distinct(ready) /\ Distinct(blocked)
         /\ Alive \subseteq Slots
<1>1. /\ running \in Slots /\ ready \in Seq(Slots) /\ blocked \in Seq(Slots)
      /\ OnePlace(running, ready, blocked)
  BY DEF QInv, OrderInv, Queues!TypeOK
<1>2. Members(ready) \subseteq Slots /\ Members(blocked) \subseteq Slots
  BY <1>1 DEF Members
<1> QED
  BY <1>1, <1>2, MembersIn, SlotsAreProcs DEF OnePlace, Alive

\* Whom a switch leaves ready or running.
LEMMA SwitchAlive ==
  ASSUME NEW next, NEW S, NEW q \in Seq(Slots), NEW edge, SwitchTo(next, S, q, edge)
  PROVE  /\ {Idle, running'} \cup Members(ready') = {Idle} \cup Members(q)
         /\ Queues!Dispatch(q)
         /\ running' = (IF q = <<>> THEN Idle ELSE Head(q)) /\ running' \in Slots
<1>1. CASE q = <<>>
  <2>1. running' = Idle /\ ready' = <<>>
    BY <1>1 DEF SwitchTo
  <2> QED
    BY <1>1, <2>1, SlotsAreProcs DEF Queues!Dispatch
<1>2. CASE q # <<>>
  <2>1. running' = Head(q) /\ ready' = Tail(q)
    BY <1>2 DEF SwitchTo
  <2> QED
    BY <1>2, <2>1, MembersTail DEF Queues!Dispatch
<1> QED
  BY <1>1, <1>2

\* What every handler is to the queues: a step of ProcQueues, or none; a fork
\* takes the first free slot, an exit leaves one.
LEMMA TickMoves ==
  ASSUME QInv, NEW edge, NEW wake, Tick(edge, wake)
  PROVE  [Queues!Next]_(Queues!vars) /\ Alive' = Alive /\ UNCHANGED freequeue
<1> DEFINE q == IF wake THEN Append(ready, Head(blocked)) ELSE ready
           S == WokenTo(update_stats(p_stats, running, "user", get_ticks(edge, 1)), wake, edge)
<1>1. /\ wake => blocked # <<>>
      /\ blocked' = (IF wake THEN Tail(blocked) ELSE blocked)
      /\ \/ ready' = q /\ UNCHANGED running
         \/ /\ q # <<>> /\ (policy = "FCFS" => running = Idle)
            /\ SwitchTo(policy, charge_ready(S, running, edge, 5), QueueOf(q), edge)
      /\ UNCHANGED freequeue
  BY DEF Tick
<1>2. /\ running \in Slots /\ ready \in Seq(Slots) /\ blocked \in Seq(Slots)
  BY QInvIs
<1>3. /\ q \in Seq(Slots)
      /\ Members(q) \cup Members(blocked') = Members(ready) \cup Members(blocked)
  <2>1. CASE wake
    <3>1. Head(blocked) \in Slots /\ Members(blocked) = {Head(blocked)} \cup Members(blocked')
      BY <1>1, <1>2, <2>1, MembersTail
    <3> QED
      BY <1>2, <2>1, <3>1, MembersAppend
  <2>2. CASE ~ wake
    BY <1>1, <1>2, <2>2
  <2> QED
    BY <2>1, <2>2
<1> HIDE DEF q, S
<1>4. CASE ready' = q /\ UNCHANGED running
  <2>1. Alive' = Alive
    BY <1>3, <1>4 DEF Alive
  <2>2. [Queues!Next]_(Queues!vars)
    BY <1>1, <1>4 DEF q, Queues!Next, Queues!Clock, Queues!vars
  <2> QED
    BY <1>1, <2>1, <2>2
<1>5. CASE /\ q # <<>> /\ (policy = "FCFS" => running = Idle)
           /\ SwitchTo(policy, charge_ready(S, running, edge, 5), QueueOf(q), edge)
  <2>1. QueueOf(q) \in Seq(Slots) /\ QueueOf(q) \in {q, Append(q, running)}
    BY <1>2, <1>3 DEF QueueOf
  <2>2. /\ {Idle, running'} \cup Members(ready') = {Idle} \cup Members(QueueOf(q))
        /\ Queues!Dispatch(QueueOf(q))
    BY <1>5, <2>1, SwitchAlive
  <2>3. policy # "RR" => running = Idle
    BY <1>5, AccountingAssumption DEF QInv
  <2>4. Members(QueueOf(q)) \cup {Idle} = Members(q) \cup {Idle, running}
    <3>1. CASE policy = "RR"
      BY <1>2, <1>3, <3>1, MembersAppend DEF QueueOf
    <3>2. CASE policy # "RR"
      BY <2>3, <3>2 DEF QueueOf
    <3> QED
      BY <3>1, <3>2
  <2>5. Alive' = Alive
    BY <1>3, <2>2, <2>4 DEF Alive
  <2>6. Queues!Preempt(q)
    BY <1>5, <2>2, <2>3 DEF Queues!Preempt, QueueOf
  <2>7. Queues!Next
    BY <1>1, <2>6 DEF q, Queues!Next, Queues!Clock
  <2> QED
    BY <1>1, <2>5, <2>7
<1> QED
  BY <1>1, <1>4, <1>5

LEMMA ForkMoves ==
  ASSUME QInv, NEW edge, Fork(edge)
  PROVE  LET c == Head(freequeue)
         IN  /\ Queues!Next /\ c \in Slots \ Alive /\ Alive' = Alive \cup {c}
             /\ freequeue # <<>> /\ freequeue' = Tail(freequeue)
<1> DEFINE c == Head(freequeue)
<1>1. /\ freequeue # <<>> /\ freequeue' = Tail(freequeue) /\ running # Idle
      /\ ready' = Append(ready, c) /\ UNCHANGED <<running, blocked>>
  BY DEF Fork
<1>2. c \in Slots \ Alive
  BY <1>1, MembersTail DEF QInv
<1>3. /\ Members(ready') = Members(ready) \cup {c}
  BY <1>1, <1>2, QInvIs, MembersAppend
<1>4. Alive' = Alive \cup {c}
  BY <1>1, <1>3 DEF Alive
<1>5. Alive = Queues!Alive
  BY QInvIs DEF Alive, Queues!Alive, Members, Queues!Queued
<1>6. Queues!Next
  BY <1>1, <1>2, <1>5 DEF Queues!Next, Queues!Fork
<1> QED
  BY <1>1, <1>2, <1>4, <1>6

LEMMA LeaveMoves ==
  ASSUME QInv, NEW edge, Leave(edge)
  PROVE  /\ Queues!Next /\ running # Idle /\ Alive' = Alive \ {running}
         /\ freequeue' = Append(freequeue, running)
<1>1. /\ running # Idle /\ freequeue' = Append(freequeue, running)
      /\ SwitchTo("RR", p_stats, ready, edge) /\ UNCHANGED blocked
  BY DEF Leave
<1>2. /\ {Idle, running'} \cup Members(ready') = {Idle} \cup Members(ready)
      /\ Queues!Dispatch(ready)
  BY <1>1, QInvIs, SwitchAlive
<1>3. Alive' = Alive \ {running}
  BY <1>1, <1>2, QInvIs DEF Alive
<1>4. Queues!Next
  BY <1>1, <1>2 DEF Queues!Next, Queues!Exit
<1> QED
  BY <1>1, <1>3, <1>4

LEMMA YieldMoves ==
  ASSUME QInv, NEW edge, Yield(edge)
  PROVE  Queues!Next /\ Alive' = Alive /\ UNCHANGED freequeue
<1> DEFINE S == update_stats(p_stats, running, "system", get_ticks(edge, 5))
<1>1. /\ running # Idle /\ SwitchTo("RR", S, Append(ready, running), edge)
      /\ UNCHANGED <<freequeue, blocked>>
  BY DEF Yield
<1> HIDE DEF S
<1>2. /\ Append(ready, running) \in Seq(Slots)
      /\ Members(Append(ready, running)) = Members(ready) \cup {running}
  BY QInvIs, MembersAppend
<1>3. /\ {Idle, running'} \cup Members(ready') = {Idle} \cup Members(Append(ready, running))
      /\ Queues!Dispatch(Append(ready, running))
  BY <1>1, <1>2, SwitchAlive
<1>4. Alive' = Alive
  BY <1>1, <1>2, <1>3 DEF Alive
<1>5. Queues!Next
  BY <1>1, <1>3 DEF Queues!Next, Queues!Yield
<1> QED
  BY <1>1, <1>4, <1>5

LEMMA ReadMoves ==
  ASSUME QInv, NEW edge, Read(edge)
  PROVE  Queues!Next /\ Alive' = Alive /\ UNCHANGED freequeue
<1>1. /\ running # Idle /\ SwitchTo(policy, charge_block(p_stats, edge), ready, edge)
      /\ blocked' = Append(blocked, running) /\ UNCHANGED freequeue
  BY DEF Read
<1>2. /\ {Idle, running'} \cup Members(ready') = {Idle} \cup Members(ready)
      /\ Queues!Dispatch(ready)
  BY <1>1, QInvIs, SwitchAlive
<1>3. Members(blocked') = Members(blocked) \cup {running}
  BY <1>1, QInvIs, MembersAppend
<1>4. Alive' = Alive
  BY <1>2, <1>3 DEF Alive
<1>5. Queues!Next
  BY <1>1, <1>2 DEF Queues!Next, Queues!Block
<1> QED
  BY <1>1, <1>4, <1>5

\* A handler that only looks at the clock, and a fork that finds no frames.
LEMMA OthersMove ==
  ASSUME QInv,
         \/ Elapse \/ ForkAgain \/ UNCHANGED vars
         \/ \E edge \in Edges : Keyboard(edge)
  PROVE  /\ UNCHANGED <<running, ready, blocked>> /\ Alive' = Alive
         /\ \/ UNCHANGED freequeue
            \/ freequeue # <<>> /\ freequeue' = Append(Tail(freequeue), Head(freequeue))
BY DEF Elapse, ForkAgain, Keyboard, vars, queues, Alive

LEMMA InitQInv == Init => QInv
<1> SUFFICES ASSUME Init PROVE QInv
  OBVIOUS
<1> DEFINE n == NR_TASKS - 2
<1>1. /\ running = Task1 /\ ready = <<>> /\ blocked = <<>> /\ policy \in Policies
      /\ freequeue = [i \in 1..n |-> i + 1]
  BY DEF Init
<1>2. n \in Nat /\ Slots = 0..(n + 1)
  BY AccountingAssumption DEF Slots
<1> HIDE DEF n
<1>3. OrderInv
  BY <1>1, SlotsAreProcs DEF OrderInv, Queues!TypeOK, OnePlace, Distinct, In
<1>4. /\ freequeue \in Seq(Slots) /\ Len(freequeue) = n /\ DOMAIN freequeue = 1..n
      /\ \A i \in 1..n : freequeue[i] = i + 1
  BY <1>1, <1>2
<1>5. Distinct(freequeue)
  BY <1>4 DEF Distinct
<1>6. Alive = {0, 1}
  BY <1>1 DEF Alive, Members, Idle, Task1
<1>7. Members(freequeue) = {i + 1 : i \in 1..n}
  BY <1>4 DEF Members
<1>8. \A t \in Slots \ {0, 1} : t - 1 \in 1..n /\ (t - 1) + 1 = t
  BY <1>2
<1>9. \A i \in 1..n : i + 1 \in Slots \ {0, 1}
  BY <1>2
<1>10. Members(freequeue) = Slots \ Alive
  BY <1>6, <1>7, <1>8, <1>9
<1> QED
  BY <1>1, <1>3, <1>4, <1>5, <1>10 DEF QInv

LEMMA NextQInv == QInv /\ [Next]_vars => QInv' /\ [Queues!Next]_(Queues!vars)
<1> SUFFICES ASSUME QInv, [Next]_vars PROVE QInv' /\ [Queues!Next]_(Queues!vars)
  OBVIOUS
<1>1. /\ policy' \in Policies
      /\ freequeue \in Seq(Slots) /\ Distinct(freequeue)
      /\ Members(freequeue) = Slots \ Alive
      /\ running \in Slots
  BY QInvIs DEF QInv, Next, vars
<1>2. [Queues!Next]_(Queues!vars) => OrderInv'
  <2>1. UNCHANGED Queues!vars => OrderInv'
    BY DEF QInv, Queues!vars, OrderInv, Queues!TypeOK, OnePlace, Distinct, In
  <2> QED
    BY <2>1, SlotsAreProcs, QueuesStep DEF QInv
<1>3. ASSUME [Queues!Next]_(Queues!vars), Alive' = Alive, UNCHANGED freequeue
      PROVE  QInv' /\ [Queues!Next]_(Queues!vars)
  BY <1>1, <1>2, <1>3 DEF QInv, Members, Distinct
<1>4. CASE \E edge \in Edges, wake \in BOOLEAN : Tick(edge, wake)
  BY <1>3, <1>4, TickMoves
<1>5. CASE \E edge \in Edges : Fork(edge)
  <2> DEFINE c == Head(freequeue)
  <2>1. /\ Queues!Next /\ c \in Slots \ Alive /\ Alive' = Alive \cup {c}
        /\ freequeue # <<>> /\ freequeue' = Tail(freequeue)
    BY <1>5, ForkMoves
  <2>2. /\ Members(freequeue) = {c} \cup Members(freequeue') /\ freequeue' \in Seq(Slots)
    BY <1>1, <2>1, MembersTail
  <2>3. Distinct(freequeue') /\ ~ In(freequeue', c)
    BY <1>1, <2>1, TailOnce
  <2>4. c \notin Members(freequeue')
    BY <2>2, <2>3, MembersIn
  <2>5. Members(freequeue') = Slots \ Alive'
    BY <1>1, <2>1, <2>2, <2>4
  <2> QED
    BY <1>1, <1>2, <2>1, <2>2, <2>3, <2>5 DEF QInv, Members, Distinct
<1>6. CASE \E edge \in Edges : Exit(edge)
  <2>1. /\ Queues!Next /\ running # Idle /\ Alive' = Alive \ {running}
        /\ freequeue' = Append(freequeue, running)
    BY <1>6, LeaveMoves DEF Exit
  <2>2. /\ Members(freequeue') = Members(freequeue) \cup {running}
        /\ freequeue' \in Seq(Slots)
    BY <1>1, <2>1, MembersAppend
  <2>3. running \in Alive /\ ~ In(freequeue, running)
    BY <1>1, MembersIn DEF Alive
  <2>4. Distinct(freequeue')
    BY <1>1, <2>1, <2>3, AppendOnce
  <2>5. Members(freequeue') = Slots \ Alive'
    BY <1>1, <2>1, <2>2, <2>3
  <2> QED
    BY <1>1, <1>2, <2>1, <2>2, <2>4, <2>5 DEF QInv, Members, Distinct
<1>7. CASE \E edge \in Edges : Yield(edge) \/ Read(edge)
  BY <1>3, <1>7, YieldMoves, ReadMoves
<1>8. CASE \/ Elapse \/ ForkAgain \/ UNCHANGED vars
           \/ \E edge \in Edges : Keyboard(edge)
  <2>1. /\ UNCHANGED Queues!vars /\ Alive' = Alive
        /\ \/ UNCHANGED freequeue
           \/ freequeue # <<>> /\ freequeue' = Append(Tail(freequeue), Head(freequeue))
    BY <1>8, OthersMove DEF Queues!vars
  <2>2. CASE UNCHANGED freequeue
    BY <1>3, <2>1, <2>2
  <2>3. CASE freequeue # <<>> /\ freequeue' = Append(Tail(freequeue), Head(freequeue))
    <3> DEFINE r == Tail(freequeue)
               c == Head(freequeue)
    <3>1. /\ c \in Slots /\ r \in Seq(Slots) /\ Members(freequeue) = {c} \cup Members(r)
          /\ Distinct(r) /\ ~ In(r, c)
      BY <1>1, <2>3, MembersTail, TailOnce
    <3>2. freequeue' = Append(r, c)
      BY <2>3
    <3> HIDE DEF r, c
    <3>3. /\ freequeue' \in Seq(Slots) /\ Members(freequeue') = Members(freequeue)
          /\ Distinct(freequeue')
      BY <3>1, <3>2, MembersAppend, AppendOnce
    <3> QED
      BY <1>1, <1>2, <2>1, <3>3 DEF QInv, Members, Distinct
  <2> QED
    BY <2>1, <2>2, <2>3
<1> QED
  BY <1>4, <1>5, <1>6, <1>7, <1>8 DEF Next

\* Under the accounts the processes move between the queues as ProcQueues says:
\* the handlers, with whatever they charge.
THEOREM AccountsFollowQueues == Spec => ImplementsQueues
<1>1. Init => Queues!Init
  BY DEF Init, Queues!Init
<1>2. QInv /\ [Next]_vars => [Queues!Next]_(Queues!vars)
  BY NextQInv
<1> QED
  BY <1>1, <1>2, InitQInv, NextQInv, PTL DEF Spec, ImplementsQueues, Queues!Spec

\* So the processes with statistics are each in one place, and nobody is
\* overtaken on console_blocked or on readyqueue: what the abstract queues
\* promise, of the handlers of sched.c and sys.c.
COROLLARY QueuesKeepOrder == Spec => []Queues!OnePlaceEach /\ Queues!NobodyOvertakes
BY AccountsFollowQueues, EachInOnePlace, NobodyIsOvertaken, PTL DEF ImplementsQueues

-----------------------------------------------------------------------------
(***************************************************************************)
(* The identifiers                                                         *)
(***************************************************************************)

\* The identifiers given are those up to the last one; as long as every fork has
\* found its frames the slots that are not alive have none, and no two of the
\* living have the same.
PidInv ==
  /\ global_PID \in Nat
  /\ PID \in [Slots -> -1..global_PID]
  /\ ~ forkfailed =>
       /\ \A t \in Slots : t \in Alive <=> PID[t] # -1
       /\ \A t, u \in Alive : PID[t] = PID[u] => t = u

LEMMA InitPidInv == Init => PidInv
<1> SUFFICES ASSUME Init PROVE PidInv
  OBVIOUS
<1>1. Alive = {Idle, Task1}
  BY DEF Init, Alive, Members
<1> QED
  BY <1>1, SlotsAreProcs DEF Init, PidInv, Idle, Task1

LEMMA NextPidInv == PidInv /\ QInv /\ [Next]_vars => PidInv'
<1> SUFFICES ASSUME PidInv, QInv, [Next]_vars PROVE PidInv'
  OBVIOUS
<1>1. /\ global_PID \in Nat /\ PID \in [Slots -> -1..global_PID]
      /\ running \in Alive /\ Alive \subseteq Slots
  BY QInvIs DEF PidInv, Alive
<1>2. ASSUME UNCHANGED <<PID, global_PID, forkfailed>>, Alive' = Alive PROVE PidInv'
  BY <1>2 DEF PidInv
<1>3. CASE UNCHANGED forkfailed /\ \E edge \in Edges, wake \in BOOLEAN : Tick(edge, wake)
  BY <1>2, <1>3, TickMoves DEF Tick
<1>4. CASE UNCHANGED forkfailed /\ \E edge \in Edges : Yield(edge) \/ Read(edge)
  BY <1>2, <1>4, YieldMoves, ReadMoves DEF Yield, Read
<1>5. CASE \/ UNCHANGED forkfailed /\ (Elapse \/ \E edge \in Edges : Keyboard(edge))
           \/ UNCHANGED vars
  BY <1>2, <1>5, OthersMove DEF Elapse, Keyboard, vars
<1>6. CASE UNCHANGED forkfailed /\ \E edge \in Edges : Fork(edge)
  <2> DEFINE c == Head(freequeue)
  <2>1. /\ c \in Slots \ Alive /\ Alive' = Alive \cup {c}
        /\ PID' = [PID EXCEPT ![c] = global_PID + 1] /\ global_PID' = global_PID + 1
        /\ UNCHANGED forkfailed
    BY <1>6, ForkMoves DEF Fork
  <2> HIDE DEF c
  <2>2. /\ PID' \in [Slots -> -1..global_PID'] /\ global_PID' \in Nat
        /\ \A t \in Slots : PID'[t] = IF t = c THEN global_PID + 1 ELSE PID[t]
        /\ \A t \in Slots : PID[t] # global_PID + 1
    BY <1>1, <2>1
  <2>3. ASSUME ~ forkfailed
        PROVE  /\ \A t \in Slots : t \in Alive' <=> PID'[t] # -1
               /\ \A t, u \in Alive' : PID'[t] = PID'[u] => t = u
    BY <1>1, <2>1, <2>2, <2>3 DEF PidInv
  <2> QED
    BY <2>1, <2>2, <2>3 DEF PidInv
<1>7. CASE UNCHANGED forkfailed /\ \E edge \in Edges : Exit(edge)
  <2>1. /\ Alive' = Alive \ {running} /\ PID' = [PID EXCEPT ![running] = -1]
        /\ UNCHANGED <<global_PID, forkfailed>>
    BY <1>7, LeaveMoves DEF Exit, Leave
  <2>2. /\ PID' \in [Slots -> -1..global_PID]
        /\ \A t \in Slots : PID'[t] = IF t = running THEN -1 ELSE PID[t]
    BY <1>1, <2>1
  <2>3. ASSUME ~ forkfailed
        PROVE  /\ \A t \in Slots : t \in Alive' <=> PID'[t] # -1
               /\ \A t, u \in Alive' : PID'[t] = PID'[u] => t = u
    BY <1>1, <2>1, <2>2, <2>3 DEF PidInv
  <2> QED
    BY <1>1, <2>1, <2>2, <2>3 DEF PidInv
<1>8. CASE ForkAgain
  <2>1. /\ forkfailed' /\ global_PID' = global_PID
        /\ PID' = [PID EXCEPT ![Head(freequeue)] = PID[running]]
    BY <1>8 DEF ForkAgain
  <2>2. PID' \in [Slots -> -1..global_PID]
    BY <1>1, <2>1
  <2> QED
    BY <1>1, <2>1, <2>2 DEF PidInv
<1> QED
  BY <1>3, <1>4, <1>5, <1>6, <1>7, <1>8 DEF Next

LEMMA FoundIsOwner == PidInv /\ QInv => StatsOfTheLiving
<1> SUFFICES ASSUME PidInv, QInv, ~ forkfailed, NEW pid \in 0..global_PID
             PROVE  LET owner == {t \in Alive : PID[t] = pid}
                    IN  IF owner = {} THEN sys_get_stats(pid) = ESRCH
                        ELSE {sys_get_stats(pid)} = owner
  BY DEF StatsOfTheLiving
<1> DEFINE owner == {t \in Alive : PID[t] = pid}
           found == {s \in Slots : PID[s] = pid}
<1>1. found = owner
  BY QInvIs DEF PidInv
<1>2. CASE owner = {}
  BY <1>1, <1>2 DEF sys_get_stats
<1>3. CASE owner # {}
  <2>1. PICK t \in Slots : owner = {t}
    BY <1>3, QInvIs DEF PidInv
  <2>2. t <= t
    BY SlotsAreProcs
  <2>3. (CHOOSE s \in found : \A u \in found : s <= u) = t
    <3>1. found = {t}
      BY <1>1, <2>1
    <3> HIDE DEF found
    <3> QED
      BY <2>2, <3>1
  <2>4. sys_get_stats(pid) = t
    BY <1>1, <1>3, <2>3 DEF sys_get_stats
  <2> QED
    BY <1>3, <2>1, <2>4
<1> QED
  BY <1>2, <1>3

\* Identifiers are not given twice and die with their process: unless a fork has
\* failed behind alloc_frame, sys_get_stats never answers with a slot that was
\* used again, nor with a process that has left.
THEOREM StatsAreOfTheLiving == Spec => []StatsOfTheLiving
BY InitQInv, NextQInv, InitPidInv, NextPidInv, FoundIsOwner, PTL DEF Spec

-----------------------------------------------------------------------------
(***************************************************************************)
(* One charge                                                              *)
(***************************************************************************)
Stat == [user : Int, system : Int, blocked : Int, ready : Int, elapsed : Int]

\* The time since s.elapsed up to r1 on one counter, the interval restarted at r2.
Charged(s, counter, r1, r2) ==
  [s EXCEPT ![counter] = @ + r1 - s.elapsed, !.elapsed = r2]

\* No counter has run below zero, and together they have no more than the time
\* up to the beginning of the interval.
Sound(s) ==
  /\ s.user >= 0 /\ s.system >= 0 /\ s.blocked >= 0 /\ s.ready >= 0
  /\ Total(s) <= s.elapsed

LEMMA ChargedIs ==
  ASSUME NEW s \in Stat, NEW counter \in Counters, NEW r1 \in Int, NEW r2 \in Int
  PROVE  LET z == Charged(s, counter, r1, r2)
         IN  /\ z \in Stat /\ z.elapsed = r2
             /\ Total(z) = Total(s) + (r1 - s.elapsed)
             /\ z.blocked = s.blocked + (IF counter = "blocked" THEN r1 - s.elapsed ELSE 0)
             /\ z.ready = s.ready + (IF counter = "ready" THEN r1 - s.elapsed ELSE 0)
             /\ Sound(s) /\ s.elapsed <= r1 /\ r1 <= r2 => Sound(z)
<1> DEFINE z == Charged(s, counter, r1, r2)
           d == r1 - s.elapsed
<1>1. d \in Int
  BY DEF Stat
<1>2. ASSUME counter = "user"
      PROVE  z = [s EXCEPT !.user = s.user + d, !.elapsed = r2]
  BY <1>2 DEF Stat, Charged
<1>3. ASSUME counter = "system"
      PROVE  z = [s EXCEPT !.system = s.system + d, !.elapsed = r2]
  BY <1>3 DEF Stat, Charged
<1>4. ASSUME counter = "blocked"
      PROVE  z = [s EXCEPT !.blocked = s.blocked + d, !.elapsed = r2]
  BY <1>4 DEF Stat, Charged
<1>5. ASSUME counter = "ready"
      PROVE  z = [s EXCEPT !.ready = s.ready + d, !.elapsed = r2]
  BY <1>5 DEF Stat, Charged
<1> HIDE DEF z, d
<1>7. /\ s.user \in Int /\ s.system \in Int /\ s.blocked \in Int /\ s.ready \in Int
  BY DEF Stat
<1>8. /\ s.user + d \in Int /\ s.system + d \in Int
      /\ s.blocked + d \in Int /\ s.ready + d \in Int
  BY <1>1, <1>7
<1>6. /\ z \in Stat /\ z.elapsed = r2
      /\ z.user = s.user + (IF counter = "user" THEN d ELSE 0)
      /\ z.system = s.system + (IF counter = "system" THEN d ELSE 0)
      /\ z.blocked = s.blocked + (IF counter = "blocked" THEN d ELSE 0)
      /\ z.ready = s.ready + (IF counter = "ready" THEN d ELSE 0)
  <2>1. CASE counter = "user"
    <3>1. /\ z \in Stat /\ z.elapsed = r2 /\ z.user = s.user + d
          /\ z.system = s.system /\ z.blocked = s.blocked /\ z.ready = s.ready
      BY <1>2, <1>8, <2>1 DEF Stat
    <3> QED
      BY <1>7, <2>1, <3>1
  <2>2. CASE counter = "system"
    <3>1. /\ z \in Stat /\ z.elapsed = r2 /\ z.system = s.system + d
          /\ z.user = s.user /\ z.blocked = s.blocked /\ z.ready = s.ready
      BY <1>3, <1>8, <2>2 DEF Stat
    <3> QED
      BY <1>7, <2>2, <3>1
  <2>3. CASE counter = "blocked"
    <3>1. /\ z \in Stat /\ z.elapsed = r2 /\ z.blocked = s.blocked + d
          /\ z.user = s.user /\ z.system = s.system /\ z.ready = s.ready
      BY <1>4, <1>8, <2>3 DEF Stat
    <3> QED
      BY <1>7, <2>3, <3>1
  <2>4. CASE counter = "ready"
    <3>1. /\ z \in Stat /\ z.elapsed = r2 /\ z.ready = s.ready + d
          /\ z.user = s.user /\ z.system = s.system /\ z.blocked = s.blocked
      BY <1>5, <1>8, <2>4 DEF Stat
    <3> QED
      BY <1>7, <2>4, <3>1
  <2> QED
    BY <2>1, <2>2, <2>3, <2>4 DEF Counters
<1>9. Total(z) = Total(s) + d
  BY <1>1, <1>6, <1>7 DEF Total, Counters
<1>10. ASSUME Sound(s), s.elapsed <= r1, r1 <= r2 PROVE Sound(z)
  <2>1. s.elapsed \in Int /\ Total(s) \in Int
    BY <1>7 DEF Stat, Total
  <2>2. d >= 0 /\ Total(s) + d <= r2
    BY <1>10, <2>1 DEF Sound, d
  <2>3. Total(z) <= z.elapsed
    BY <1>6, <1>9, <2>2
  <2>4. s.user >= 0 /\ s.system >= 0 /\ s.blocked >= 0 /\ s.ready >= 0
    BY <1>10 DEF Sound
  <2>5. z.user >= 0 /\ z.system >= 0 /\ z.blocked >= 0 /\ z.ready >= 0
    BY <1>1, <1>6, <1>7, <2>2, <2>4
  <2> QED
    BY <2>3, <2>5 DEF Sound
<1> QED
  BY <1>6, <1>9, <1>10 DEF z, d

\* update_stats and the charges done in line change one slot.
LEMMA ChargesOne ==
  ASSUME NEW S \in [Slots -> Stat], NEW t \in Slots, NEW counter \in Counters,
         NEW r1 \in Int, NEW r2 \in Int
  PROVE  LET C == charge(S, t, counter, r1, r2)
         IN  /\ C \in [Slots -> Stat]
             /\ \A u \in Slots :
                  C[u] = IF u = t THEN Charged(S[u], counter, r1, r2) ELSE S[u]
             /\ update_stats(S, t, counter, r2) = charge(S, t, counter, r2, r2)
<1> DEFINE C == charge(S, t, counter, r1, r2)
<1>1. C = [S EXCEPT ![t] = Charged(S[t], counter, r1, r2)]
  BY DEF charge, Charged
<1>3. update_stats(S, t, counter, r2) = charge(S, t, counter, r2, r2)
  BY DEF charge, update_stats
<1>2. S[t] \in Stat /\ Charged(S[t], counter, r1, r2) \in Stat
  BY ChargedIs
<1> QED
  BY <1>1, <1>2, <1>3

-----------------------------------------------------------------------------
(***************************************************************************)
(* No tick twice                                                           *)
(***************************************************************************)
StatsInv ==
  /\ now \in Nat
  /\ p_stats \in [Slots -> Stat]
  /\ \A t \in Slots : p_stats[t].elapsed <= now
  /\ \A t \in Slots : Sound(p_stats[t])

\* The ticks of the interval that are on no counter.
Lost(S, t) ==
  (S[t].elapsed - p_stats[t].elapsed) - (Total(S[t]) - Total(p_stats[t]))

\* What a handler has made of the accounts by the time of the call: the interval
\* begins no later than the clock stands, and a tick has gone missing only if
\* the edge has come by then.
Good(S, edge, call) ==
  /\ S \in [Slots -> Stat]
  /\ \A t \in Slots :
       /\ S[t].elapsed <= get_ticks(edge, call)
       /\ Total(S[t]) >= Total(p_stats[t])
       /\ \/ Lost(S, t) = 0
          \/ Lost(S, t) = 1 /\ edge <= call
       /\ Sound(S[t])

LEMMA TotalIsInt == ASSUME NEW s \in Stat PROVE Total(s) \in Int /\ s.elapsed \in Int
<1>1. /\ s.user \in Int /\ s.system \in Int /\ s.blocked \in Int /\ s.ready \in Int
      /\ s.elapsed \in Int
  BY DEF Stat
<1> QED
  BY <1>1 DEF Total

LEMMA ClockIs ==
  ASSUME StatsInv, NEW edge \in Edges, NEW c \in Int
  PROVE  /\ edge \in Int /\ get_ticks(edge, c) \in {now, now + 1} /\ get_ticks(edge, c) \in Int
         /\ \A d \in Int : c <= d => get_ticks(edge, c) <= get_ticks(edge, d)
         /\ get_ticks(edge, c + 1) # get_ticks(edge, c) => edge = c + 1
         /\ get_ticks(edge, c + 1) <= get_ticks(edge, c) + 1
         /\ Passes(edge) /\ c <= LastCall => get_ticks(edge, c) <= now' /\ now' \in Nat
<1>1. now \in Nat /\ edge \in 1..10
  BY DEF StatsInv, Edges, NoEdge, LastCall
<1> QED
  BY <1>1 DEF get_ticks, Passes, NoEdge, LastCall

LEMMA GoodStart ==
  ASSUME StatsInv, NEW edge \in Edges, NEW c \in Int
  PROVE  Good(p_stats, edge, c)
<1>1. /\ now \in Nat /\ p_stats \in [Slots -> Stat]
      /\ \A t \in Slots : p_stats[t].elapsed <= now /\ Sound(p_stats[t])
  BY DEF StatsInv
<1>2. \A t \in Slots : Total(p_stats[t]) \in Int /\ p_stats[t].elapsed \in Int
  BY <1>1, TotalIsInt
<1>3. get_ticks(edge, c) >= now
  BY <1>1 DEF get_ticks
<1>4. get_ticks(edge, c) \in Int
  BY ClockIs
<1>5. ASSUME NEW t \in Slots
      PROVE  /\ p_stats[t].elapsed <= get_ticks(edge, c)
             /\ Total(p_stats[t]) >= Total(p_stats[t])
             /\ Lost(p_stats, t) = 0
  BY <1>1, <1>2, <1>3, <1>4 DEF Lost
<1> QED
  BY <1>1, <1>2, <1>4, <1>5 DEF Good

\* A charge between two calls that follow each other, or within one.
LEMMA GoodCharge ==
  ASSUME StatsInv, NEW edge \in Edges, NEW c \in Int, NEW d \in Int, c <= d,
         NEW S, Good(S, edge, c), NEW t \in Slots, NEW counter \in Counters,
         NEW e \in {d, d + 1}
  PROVE  Good(charge(S, t, counter, get_ticks(edge, d), get_ticks(edge, e)), edge, e)
<1> DEFINE r1 == get_ticks(edge, d)
           r2 == get_ticks(edge, e)
           r0 == get_ticks(edge, c)
           C == charge(S, t, counter, r1, r2)
<1>1. /\ edge \in Int /\ e \in Int /\ r0 \in Int /\ r1 \in Int /\ r2 \in Int
      /\ r0 <= r1 /\ r1 <= r2 /\ r2 <= r1 + 1 /\ (r2 # r1 => edge = e /\ e = d + 1)
  BY ClockIs
<1>2. S \in [Slots -> Stat] /\ p_stats \in [Slots -> Stat]
  BY DEF Good, StatsInv
<1>3. /\ C \in [Slots -> Stat]
      /\ \A u \in Slots : C[u] = IF u = t THEN Charged(S[u], counter, r1, r2) ELSE S[u]
  BY <1>1, <1>2, ChargesOne
<1>4. \A u \in Slots : /\ S[u].elapsed <= r0 /\ Total(S[u]) >= Total(p_stats[u])
                       /\ \/ Lost(S, u) = 0
                          \/ Lost(S, u) = 1 /\ edge <= c
  BY DEF Good
<1>5. \A u \in Slots : /\ Total(S[u]) \in Int /\ S[u].elapsed \in Int
                       /\ Total(p_stats[u]) \in Int /\ p_stats[u].elapsed \in Int
                       /\ Total(C[u]) \in Int /\ C[u].elapsed \in Int
  BY <1>2, <1>3, TotalIsInt
<1>6. /\ C[t].elapsed = r2 /\ Total(C[t]) = Total(S[t]) + (r1 - S[t].elapsed)
      /\ Sound(S[t]) /\ S[t].elapsed <= r1 => Sound(C[t])
  BY <1>1, <1>2, <1>3, ChargedIs
<1>8. \A u \in Slots : Sound(C[u])
  <2>1. S[t].elapsed <= r1
    BY <1>1, <1>4, <1>5
  <2>2. \A u \in Slots : Sound(S[u])
    BY DEF Good
  <2> QED
    BY <1>3, <1>6, <2>1, <2>2
<1> HIDE DEF C, r0, r1, r2
<1>7. ASSUME NEW u \in Slots
      PROVE  /\ C[u].elapsed <= r2 /\ Total(C[u]) >= Total(p_stats[u])
             /\ \/ Lost(C, u) = 0
                \/ Lost(C, u) = 1 /\ edge <= e
  <2>1. CASE u = t
    <3>1. C[u].elapsed = r2 /\ Total(C[u]) = Total(S[u]) + (r1 - S[u].elapsed)
      BY <1>6, <2>1
    <3>2. Lost(C, u) = Lost(S, u) + (r2 - r1) /\ Lost(S, u) \in Int
      BY <1>1, <1>5, <3>1 DEF Lost
    <3>3. CASE r2 = r1
      BY <1>1, <1>4, <1>5, <3>1, <3>2, <3>3
    <3>4. CASE r2 # r1
      <4>1. edge = e /\ e = d + 1 /\ ~ edge <= c
        BY <1>1, <3>4
      <4>2. r2 = r1 + 1
        BY <1>1, <3>4
      <4>3. Lost(S, u) = 0
        BY <1>4, <4>1
      <4>4. Lost(C, u) = 1
        BY <3>2, <4>2, <4>3, <1>1
      <4> QED
        BY <1>1, <1>4, <1>5, <3>1, <4>1, <4>4
    <3> QED
      BY <3>3, <3>4
  <2>2. CASE u # t
    <3>1. C[u] = S[u] /\ Lost(C, u) = Lost(S, u)
      BY <1>3, <2>2 DEF Lost
    <3> QED
      BY <1>1, <1>4, <1>5, <3>1
  <2> QED
    BY <2>1, <2>2
<1> QED
  BY <1>3, <1>7, <1>8 DEF Good, r1, r2, C

\* The same for update_stats.
LEMMA GoodUpdate ==
  ASSUME StatsInv, NEW edge \in Edges, NEW c \in Int, NEW d \in Int, c <= d,
         NEW S, Good(S, edge, c), NEW t \in Slots, NEW counter \in Counters
  PROVE  Good(update_stats(S, t, counter, get_ticks(edge, d)), edge, d)
<1>1. S \in [Slots -> Stat] /\ get_ticks(edge, d) \in Int
  BY ClockIs DEF Good
<1> QED
  BY <1>1, GoodCharge, ChargesOne

LEMMA GoodLater ==
  ASSUME StatsInv, NEW edge \in Edges, NEW c \in Int, NEW d \in Int, c <= d,
         NEW S, Good(S, edge, c)
  PROVE  Good(S, edge, d)
<1>1. /\ edge \in Int /\ get_ticks(edge, c) \in Int /\ get_ticks(edge, d) \in Int
      /\ get_ticks(edge, c) <= get_ticks(edge, d)
  BY ClockIs
<1>2. S \in [Slots -> Stat] /\ \A t \in Slots : S[t].elapsed \in Int
  BY TotalIsInt DEF Good
<1>3. ASSUME NEW t \in Slots
      PROVE  /\ S[t].elapsed <= get_ticks(edge, d) /\ Total(S[t]) >= Total(p_stats[t])
             /\ \/ Lost(S, t) = 0
                \/ Lost(S, t) = 1 /\ edge <= d
             /\ Sound(S[t])
  BY <1>1, <1>2 DEF Good
<1> QED
  BY <1>2, <1>3 DEF Good

\* sched_next of either policy, with the way out behind it.
LEMMA GoodSwitch ==
  ASSUME StatsInv, NEW edge \in Edges, NEW S, Good(S, edge, 5), running \in Slots,
         NEW next, NEW q \in Seq(Slots), SwitchTo(next, S, q, edge)
  PROVE  Good(p_stats', edge, LastCall)
<1> DEFINE t == IF q = <<>> THEN Idle ELSE Head(q)
           S1 == IF next = "RR" THEN stats_next_rr(S, t, edge)
                 ELSE stats_next_fcfs(S, t, edge)
<1>1. t \in Slots
  BY SwitchAlive DEF SwitchTo
<1>2. p_stats' = system_to_user(S1, t, edge)
  BY DEF SwitchTo
<1> HIDE DEF t
<1>3. Good(S1, edge, 7)
  <2>1. CASE next = "RR"
    <3> DEFINE R == update_stats(S, running, "system", get_ticks(edge, 6))
    <3>1. Good(R, edge, 6)
      BY GoodUpdate DEF Counters
    <3> HIDE DEF R
    <3>2. Good(update_stats(R, t, "ready", get_ticks(edge, 7)), edge, 7)
      BY <1>1, <3>1, GoodUpdate DEF Counters
    <3> QED
      BY <2>1, <3>2 DEF R, stats_next_rr
  <2>2. CASE next # "RR"
    <3>1. Good(charge(S, t, "ready", get_ticks(edge, 6), get_ticks(edge, 7)), edge, 7)
      BY <1>1, GoodCharge DEF Counters
    <3> QED
      BY <2>2, <3>1 DEF stats_next_fcfs
  <2> QED
    BY <2>1, <2>2
<1> HIDE DEF S1
<1>4. CASE t \in inclock
  <2>1. Good(update_stats(S1, t, "system", get_ticks(edge, LastCall)), edge, LastCall)
    BY <1>1, <1>3, GoodUpdate DEF Counters, LastCall
  <2> QED
    BY <1>2, <1>4, <2>1 DEF system_to_user
<1>5. CASE t \notin inclock
  BY <1>2, <1>3, <1>5, GoodLater DEF system_to_user, LastCall
<1> QED
  BY <1>4, <1>5

LEMMA GoodWoken ==
  ASSUME StatsInv, QInv, NEW edge \in Edges, NEW S, Good(S, edge, 1),
         NEW wake, wake => blocked # <<>>
  PROVE  Good(WokenTo(S, wake, edge), edge, 4)
<1> DEFINE w == Head(blocked)
           R == charge(S, w, "blocked", get_ticks(edge, 2), get_ticks(edge, 3))
<1>1. CASE ~ wake
  BY <1>1, GoodLater DEF WokenTo
<1>2. CASE wake
  <2>1. w \in Slots
    BY <1>2, QInvIs, MembersTail
  <2>2. Good(R, edge, 3)
    BY <2>1, GoodCharge DEF Counters
  <2> HIDE DEF R, w
  <2>3. Good(update_stats(R, w, "system", get_ticks(edge, 4)), edge, 4) /\ Good(R, edge, 4)
    BY <2>1, <2>2, GoodUpdate, GoodLater DEF Counters
  <2>4. Good(charge_ready(R, w, edge, 4), edge, 4)
    BY <2>3 DEF charge_ready
  <2> QED
    BY <1>2, <2>4 DEF WokenTo, R, w
<1> QED
  BY <1>1, <1>2

\* The step of a handler that is Good to its end.
Fair(S) == \A t \in Alive : t \in Alive' =>
  LET told == S[t].elapsed - p_stats[t].elapsed
  IN  Total(S[t]) - Total(p_stats[t]) \in {told - 1, told} \cap Nat

LEMMA GoodIsFair ==
  ASSUME StatsInv, QInv, NEW edge \in Edges, NEW S, Good(S, edge, LastCall)
  PROVE  /\ Fair(S)
         /\ Passes(edge) => \A t \in Slots : S[t].elapsed <= now'
<1>1. /\ get_ticks(edge, LastCall) \in Int
      /\ Passes(edge) => get_ticks(edge, LastCall) <= now' /\ now' \in Nat
      /\ S \in [Slots -> Stat] /\ p_stats \in [Slots -> Stat]
      /\ \A t \in Slots : S[t].elapsed <= get_ticks(edge, LastCall)
  BY ClockIs DEF Good, StatsInv, LastCall
<1>2. \A t \in Slots : /\ Total(S[t]) \in Int /\ S[t].elapsed \in Int
                       /\ Total(p_stats[t]) \in Int /\ p_stats[t].elapsed \in Int
  BY <1>1, TotalIsInt
<1>3. ASSUME NEW t \in Alive
      PROVE  Total(S[t]) - Total(p_stats[t]) \in
               {(S[t].elapsed - p_stats[t].elapsed) - 1,
                S[t].elapsed - p_stats[t].elapsed} \cap Nat
  <2>1. t \in Slots
    BY QInvIs
  <2>2. Total(S[t]) >= Total(p_stats[t]) /\ (Lost(S, t) = 0 \/ Lost(S, t) = 1)
    BY <2>1 DEF Good
  <2> QED
    BY <1>2, <2>1, <2>2 DEF Lost
<1> QED
  BY <1>1, <1>2, <1>3 DEF Fair

\* The accounts of the living are left alone.
LEMMA SameIsFair ==
  ASSUME StatsInv, QInv, NEW S, \A t \in Alive : S[t] = p_stats[t]
  PROVE  Fair(S)
<1>1. ASSUME NEW t \in Alive
      PROVE  /\ S[t] = p_stats[t]
             /\ Total(p_stats[t]) \in Int /\ p_stats[t].elapsed \in Int
  BY QInvIs, TotalIsInt DEF StatsInv
<1> QED
  BY <1>1 DEF Fair

LEMMA GoodEnds ==
  ASSUME StatsInv, QInv, NEW edge \in Edges, Passes(edge), Good(p_stats', edge, LastCall)
  PROVE  Fair(p_stats') /\ StatsInv'
<1>1. now' \in Nat
  BY ClockIs DEF LastCall
<1> QED
  BY <1>1, GoodIsFair DEF StatsInv, Good

LEMMA TickIsFair ==
  ASSUME StatsInv, QInv, NEW edge \in Edges, NEW wake, Tick(edge, wake)
  PROVE  Fair(p_stats') /\ StatsInv'
<1> DEFINE S0 == update_stats(p_stats, running, "user", get_ticks(edge, 1))
           S == WokenTo(S0, wake, edge)
           S5 == charge_ready(S, running, edge, 5)
           q == IF wake THEN Append(ready, Head(blocked)) ELSE ready
<1>1. running \in Slots /\ ready \in Seq(Slots)
  BY QInvIs
<1>2. /\ Passes(edge) /\ (wake => blocked # <<>>)
      /\ \/ p_stats' = update_stats(S, running, "system", get_ticks(edge, LastCall))
         \/ SwitchTo(policy, S5, QueueOf(q), edge)
  BY DEF Tick
<1>3. Good(S0, edge, 1)
  BY <1>1, GoodStart, GoodUpdate DEF Counters
<1> HIDE DEF S0
<1>4. Good(S, edge, 4)
  BY <1>2, <1>3, GoodWoken
<1> HIDE DEF S
<1>5. Good(S5, edge, 5)
  BY <1>1, <1>4, GoodUpdate, GoodLater DEF charge_ready, Counters
<1>6. QueueOf(q) \in Seq(Slots)
  <2>1. q \in Seq(Slots)
    BY <1>1, <1>2, QInvIs, MembersTail, MembersAppend
  <2> QED
    BY <1>1, <2>1, MembersAppend DEF QueueOf
<1> HIDE DEF S5, q
<1>7. CASE p_stats' = update_stats(S, running, "system", get_ticks(edge, LastCall))
  <2>1. Good(update_stats(S, running, "system", get_ticks(edge, LastCall)), edge, LastCall)
    BY <1>1, <1>4, GoodUpdate DEF Counters, LastCall
  <2> QED
    BY <1>2, <1>7, <2>1, GoodEnds
<1>8. CASE SwitchTo(policy, S5, QueueOf(q), edge)
  BY <1>1, <1>2, <1>5, <1>6, <1>8, GoodSwitch, GoodEnds
<1> QED
  BY <1>2, <1>7, <1>8

\* The handlers that are not called by the clock.
LEMMA CallIsFair ==
  ASSUME StatsInv, QInv, NEW edge \in Edges,
         Keyboard(edge) \/ Exit(edge) \/ Yield(edge) \/ Read(edge)
  PROVE  Fair(p_stats') /\ StatsInv'
<1>1. running \in Slots /\ ready \in Seq(Slots) /\ Append(ready, running) \in Seq(Slots)
  BY QInvIs, MembersAppend
<1>2. Passes(edge)
  BY DEF Keyboard, Exit, Leave, Yield, Read
<1>3. CASE Keyboard(edge)
  <2> DEFINE S == update_stats(p_stats, running, "user", get_ticks(edge, 1))
  <2>1. Good(S, edge, 1)
    BY <1>1, GoodStart, GoodUpdate DEF Counters
  <2>2. p_stats' = update_stats(S, running, "system", get_ticks(edge, LastCall))
    BY <1>3 DEF Keyboard
  <2> HIDE DEF S
  <2>3. Good(update_stats(S, running, "system", get_ticks(edge, LastCall)), edge, LastCall)
    BY <1>1, <2>1, GoodUpdate DEF Counters, LastCall
  <2> QED
    BY <1>2, <2>2, <2>3, GoodEnds
<1>4. CASE Exit(edge)
  <2>1. SwitchTo("RR", p_stats, ready, edge)
    BY <1>4 DEF Exit, Leave
  <2> QED
    BY <1>1, <1>2, <2>1, GoodStart, GoodSwitch, GoodEnds
<1>5. CASE Yield(edge)
  <2> DEFINE S == update_stats(p_stats, running, "system", get_ticks(edge, 5))
  <2>1. SwitchTo("RR", S, Append(ready, running), edge)
    BY <1>5 DEF Yield
  <2>2. Good(S, edge, 5)
    BY <1>1, GoodStart, GoodUpdate DEF Counters
  <2> HIDE DEF S
  <2> QED
    BY <1>1, <1>2, <2>1, <2>2, GoodSwitch, GoodEnds
<1>6. CASE Read(edge)
  <2> DEFINE S == charge_block(p_stats, edge)
  <2>1. SwitchTo(policy, S, ready, edge)
    BY <1>6 DEF Read
  <2>2. Good(p_stats, edge, 2)
    BY GoodStart
  <2>3. Good(S, edge, 3)
    BY <1>1, <2>2, GoodCharge DEF Counters, charge_block
  <2> HIDE DEF S
  <2>4. Good(S, edge, 5)
    BY <2>3, GoodLater
  <2> QED
    BY <1>1, <1>2, <2>1, <2>4, GoodSwitch, GoodEnds
<1> QED
  BY <1>3, <1>4, <1>5, <1>6

\* A fork fills the slot it takes and no other.
LEMMA ForkIsFair ==
  ASSUME StatsInv, QInv, ForkAgain \/ \E edge \in Edges : Fork(edge)
  PROVE  Fair(p_stats') /\ StatsInv'
<1> DEFINE c == Head(freequeue)
<1>1. /\ now \in Nat /\ p_stats \in [Slots -> Stat]
      /\ \A t \in Slots : /\ p_stats[t].elapsed <= now /\ p_stats[t].elapsed \in Int
                          /\ Sound(p_stats[t])
      /\ running \in Slots /\ c \in Slots \ Alive
  <2>1. freequeue # <<>>
    BY DEF Fork, ForkAgain
  <2> QED
    BY <2>1, QInvIs, MembersTail, TotalIsInt DEF QInv, StatsInv
<1>2. PICK s \in Stat : /\ p_stats' = [p_stats EXCEPT ![c] = s] /\ s.elapsed <= now' /\ Sound(s)
                        /\ now' \in Nat /\ now <= now'
  <2>1. CASE ForkAgain
    <3>1. p_stats' = [p_stats EXCEPT ![c] = p_stats[running]] /\ now' = now
      BY <2>1 DEF ForkAgain
    <3>2. PICK r \in Stat : r = p_stats[running] /\ r.elapsed <= now /\ Sound(r)
      BY <1>1
    <3>3. p_stats' = [p_stats EXCEPT ![c] = r] /\ r.elapsed <= now' /\ Sound(r)
      BY <3>1, <3>2
    <3>4. now' \in Nat /\ now <= now'
      BY <1>1, <3>1
    <3> QED
      BY <3>3, <3>4
  <2>2. ASSUME NEW edge \in Edges, Fork(edge)
        PROVE  \E s \in Stat : /\ p_stats' = [p_stats EXCEPT ![c] = s] /\ s.elapsed <= now'
                               /\ Sound(s)
                               /\ now' \in Nat /\ now <= now'
    <3>1. /\ p_stats' = [p_stats EXCEPT ![c] = init_stats(get_ticks(edge, 1))]
          /\ Passes(edge)
      BY <2>2 DEF Fork
    <3>2. /\ get_ticks(edge, 1) \in Nat /\ get_ticks(edge, 1) <= now' /\ now' \in Nat
          /\ now <= now'
      <4>1. /\ get_ticks(edge, 1) \in {now, now + 1} /\ get_ticks(edge, 1) <= now'
            /\ now' \in Nat
        BY <3>1, ClockIs DEF LastCall
      <4>2. now <= now'
        BY <1>1, <3>1 DEF Passes
      <4> QED
        BY <1>1, <4>1, <4>2
    <3>3. /\ init_stats(get_ticks(edge, 1)) \in Stat
          /\ init_stats(get_ticks(edge, 1)).elapsed = get_ticks(edge, 1)
          /\ Sound(init_stats(get_ticks(edge, 1)))
      BY <3>2 DEF init_stats, Stat, Sound, Total
    <3> QED
      BY <3>1, <3>2, <3>3
  <2> QED
    BY <2>1, <2>2
<1> HIDE DEF c
<1>3. /\ p_stats' \in [Slots -> Stat]
      /\ \A t \in Slots : p_stats'[t] = IF t = c THEN s ELSE p_stats[t]
  BY <1>1, <1>2
<1>4. \A t \in Alive : p_stats'[t] = p_stats[t]
  BY <1>1, <1>3, QInvIs
<1>5. ASSUME NEW t \in Slots PROVE p_stats'[t].elapsed <= now' /\ Sound(p_stats'[t])
  BY <1>1, <1>2, <1>3
<1> QED
  BY <1>2, <1>3, <1>4, <1>5, SameIsFair DEF StatsInv

LEMMA InitStatsInv == Init => StatsInv
BY DEF Init, StatsInv, init_stats, Stat, Sound, Total

LEMMA NextIsFair == StatsInv /\ QInv /\ [Next]_vars => Fair(p_stats') /\ StatsInv'
<1> SUFFICES ASSUME StatsInv, QInv, [Next]_vars PROVE Fair(p_stats') /\ StatsInv'
  OBVIOUS
<1>1. CASE Elapse \/ UNCHANGED vars
  <2>1. p_stats' = p_stats /\ now' \in Nat /\ now <= now'
    BY <1>1 DEF Elapse, vars, StatsInv
  <2>2. \A t \in Slots : p_stats[t].elapsed \in Int
    BY TotalIsInt DEF StatsInv
  <2>3. StatsInv'
    BY <2>1, <2>2 DEF StatsInv
  <2> QED
    BY <2>1, <2>3, SameIsFair
<1> QED
  BY <1>1, TickIsFair, CallIsFair, ForkIsFair DEF Next

\* In any number of handlers, whatever they pass through and wherever the edges
\* of the clock fall, no tick of a process is on two counters, and one handler
\* loses one at most.
THEOREM NoTickTwice == Spec => TicksCountedOnce
<1>1. StatsInv /\ QInv /\ [Next]_vars => [Fair(p_stats')]_vars
  BY NextIsFair
<1> QED
  BY <1>1, InitQInv, NextQInv, InitStatsInv, NextIsFair, PTL
  DEF Spec, TicksCountedOnce, Fair

-----------------------------------------------------------------------------
(***************************************************************************)
(* Waits                                                                   *)
(***************************************************************************)

\* Who waits has been charged when it came to its queue, at one of the readings
\* of the clock in the handler that put it there, and not since.
WaitInv ==
  /\ since \in [Slots -> Int]
  /\ \A t \in Slots \ {Idle} :
       t \in Members(ready) \cup Members(blocked) =>
         p_stats[t].elapsed \in {since[t], since[t] + 1}

\* The body of WaitsCounted, for any accounts at the end of the step.
Waits(S) == \A t \in Alive \ {Idle} : t \in Alive' =>
  \A queue \in {"blocked", "ready"} :
    S[t][queue] - p_stats[t][queue] \in
      Near(IF Place(t) = queue /\ Place(t)' # queue THEN now - since[t] ELSE 0)

LEMMA FieldsAreInt ==
  ASSUME NEW s \in Stat
  PROVE  s.blocked \in Int /\ s.ready \in Int /\ s.elapsed \in Int
BY DEF Stat

LEMMA ChargeFields ==
  ASSUME NEW S \in [Slots -> Stat], NEW t \in Slots, NEW counter \in Counters,
         NEW r1 \in Int, NEW r2 \in Int
  PROVE  LET C == charge(S, t, counter, r1, r2)
         IN  /\ C \in [Slots -> Stat]
             /\ \A u \in Slots :
                  /\ C[u].elapsed = IF u = t THEN r2 ELSE S[u].elapsed
                  /\ C[u].blocked = S[u].blocked + (IF u = t /\ counter = "blocked"
                                                    THEN r1 - S[u].elapsed ELSE 0)
                  /\ C[u].ready = S[u].ready + (IF u = t /\ counter = "ready"
                                                THEN r1 - S[u].elapsed ELSE 0)
<1> DEFINE C == charge(S, t, counter, r1, r2)
<1>1. /\ C \in [Slots -> Stat]
      /\ \A u \in Slots : C[u] = IF u = t THEN Charged(S[u], counter, r1, r2) ELSE S[u]
  BY ChargesOne
<1> HIDE DEF C
<1>2. ASSUME NEW u \in Slots
      PROVE  /\ C[u].elapsed = IF u = t THEN r2 ELSE S[u].elapsed
             /\ C[u].blocked = S[u].blocked + (IF u = t /\ counter = "blocked"
                                               THEN r1 - S[u].elapsed ELSE 0)
             /\ C[u].ready = S[u].ready + (IF u = t /\ counter = "ready"
                                           THEN r1 - S[u].elapsed ELSE 0)
  <2>1. CASE u = t
    BY <1>1, <2>1, ChargedIs
  <2>2. CASE u # t
    BY <1>1, <2>2, FieldsAreInt
  <2> QED
    BY <2>1, <2>2
<1> QED
  BY <1>1, <1>2 DEF C

LEMMA UpdateFields ==
  ASSUME NEW S \in [Slots -> Stat], NEW t \in Slots, NEW counter \in Counters,
         NEW r \in Int
  PROVE  LET C == update_stats(S, t, counter, r)
         IN  /\ C \in [Slots -> Stat]
             /\ \A u \in Slots :
                  /\ C[u].elapsed = IF u = t THEN r ELSE S[u].elapsed
                  /\ C[u].blocked = S[u].blocked + (IF u = t /\ counter = "blocked"
                                                    THEN r - S[u].elapsed ELSE 0)
                  /\ C[u].ready = S[u].ready + (IF u = t /\ counter = "ready"
                                                THEN r - S[u].elapsed ELSE 0)
<1>1. update_stats(S, t, counter, r) = charge(S, t, counter, r, r)
  BY ChargesOne
<1> QED
  BY <1>1, ChargeFields

Placed ==
  \A t \in Alive \ {Idle} :
    /\ Place(t) \in {"running", "ready", "blocked"}
    /\ Place(t) = "ready" <=> t \in Members(ready)
    /\ Place(t) = "blocked" <=> t \in Members(blocked)

LEMMA PlaceIs == QInv => Placed
<1> SUFFICES ASSUME QInv, NEW t \in Alive \ {Idle}
             PROVE  /\ Place(t) \in {"running", "ready", "blocked"}
                    /\ Place(t) = "ready" <=> t \in Members(ready)
                    /\ Place(t) = "blocked" <=> t \in Members(blocked)
  BY DEF Placed
<1>1. /\ t = running => t \notin Members(ready) /\ t \notin Members(blocked)
      /\ t \in Members(ready) => t \notin Members(blocked)
      /\ t = running \/ t \in Members(ready) \/ t \in Members(blocked)
      /\ t \notin Members(freequeue)
  BY QInvIs DEF Alive, QInv
<1>2. ASSUME t = running PROVE Place(t) = "running"
  BY <1>1, <1>2 DEF Place
<1>3. ASSUME t \in Members(ready) PROVE Place(t) = "ready"
  BY <1>1, <1>3 DEF Place
<1>4. ASSUME t \in Members(blocked) PROVE Place(t) = "blocked"
  BY <1>1, <1>4 DEF Place
<1> QED
  BY <1>1, <1>2, <1>3, <1>4

\* No process is in two places.
Apart ==
  /\ running \in Alive /\ running \notin Members(ready) /\ running \notin Members(blocked)
  /\ Members(ready) \cap Members(blocked) = {}
  /\ Members(ready) \subseteq Alive /\ Members(blocked) \subseteq Alive

LEMMA ApartIs == QInv => Apart
BY QInvIs DEF Alive, Apart

LEMMA PlaceWillBe == QInv' => Placed' /\ Apart'
BY PlaceIs, ApartIs, PTL

\* The way of every process through a handler that wakes the processes W: nobody
\* leaves readyqueue but for the CPU nor console_blocked unless woken, and only
\* the process that ran and those that were woken come to a queue.
Routes(W) ==
  \A u \in Slots \ {Idle} :
    /\ u \in Members(ready) => u \in Members(ready') \/ u = running'
    /\ u \in W => u \in Members(ready') \/ u = running'
    /\ u \in Members(blocked) => u \in W \/ u \in Members(blocked')
    /\ u \in Members(ready') => u \in Members(ready) \/ u \in W \/ u = running
    /\ u \in Members(blocked') => u \in Members(blocked) \/ u = running
    /\ u = running' => u \in Members(ready) \/ u \in W \/ u = running

\* What it is charged on the way.
Bills(W) ==
  \A u \in Slots \ {Idle} : u \in Alive' =>
    /\ p_stats'[u].blocked - p_stats[u].blocked \in
         IF u \in W THEN {now - p_stats[u].elapsed, now + 1 - p_stats[u].elapsed} ELSE {0}
    /\ p_stats'[u].ready - p_stats[u].ready \in
         IF u = running' /\ u \in Members(ready)
         THEN {now - p_stats[u].elapsed, now + 1 - p_stats[u].elapsed}
         ELSE -1..1
    /\ p_stats'[u].elapsed \in
         IF u \in W \cup {running, running'} THEN {now, now + 1} ELSE {p_stats[u].elapsed}

LEMMA BillsAreWaits ==
  ASSUME QInv, QInv', StatsInv, StatsInv', WaitInv, Moved,
         NEW W, W \subseteq Members(blocked), Routes(W), Bills(W)
  PROVE  Waits(p_stats') /\ WaitInv'
<1>1. /\ now \in Nat /\ p_stats \in [Slots -> Stat] /\ p_stats' \in [Slots -> Stat]
      /\ since \in [Slots -> Int]
      /\ since' = [t \in Slots |-> IF Place(t)' # Place(t) THEN now ELSE since[t]]
      /\ Alive \subseteq Slots
  BY QInvIs DEF StatsInv, WaitInv, Moved
<1>2. /\ since' \in [Slots -> Int]
      /\ \A t \in Slots : since'[t] = IF Place(t)' # Place(t) THEN now ELSE since[t]
  BY <1>1
<1>3. /\ running \notin Members(ready) /\ running \notin Members(blocked)
      /\ Members(ready) \cap Members(blocked) = {}
      /\ Members(ready) \subseteq Alive /\ Members(blocked) \subseteq Alive
      /\ running \in Alive
  BY ApartIs DEF Apart
<1>4. /\ running' \notin Members(ready') /\ running' \notin Members(blocked')
      /\ Members(ready') \cap Members(blocked') = {}
      /\ Members(ready') \subseteq Alive' /\ Members(blocked') \subseteq Alive'
  BY PlaceWillBe DEF Apart
<1>5. ASSUME NEW t \in Alive \ {Idle}, t \in Alive'
      PROVE  /\ p_stats'[t].blocked - p_stats[t].blocked \in
                  Near(IF t \in Members(blocked) /\ t \notin Members(blocked')
                       THEN now - since[t] ELSE 0)
             /\ p_stats'[t].ready - p_stats[t].ready \in
                  Near(IF t \in Members(ready) /\ t \notin Members(ready')
                       THEN now - since[t] ELSE 0)
  <2>1. /\ t \in Slots \ {Idle} /\ since[t] \in Int
        /\ p_stats[t].elapsed \in Int
        /\ t \in Members(ready) \cup Members(blocked) =>
             p_stats[t].elapsed \in {since[t], since[t] + 1}
    BY <1>1, <1>5, FieldsAreInt DEF WaitInv
  <2>2. t \in W <=> t \in Members(blocked) /\ t \notin Members(blocked')
    BY <1>4, <2>1 DEF Routes
  <2>3. t \in Members(ready) /\ t \notin Members(ready') <=> t = running' /\ t \in Members(ready)
    BY <1>4, <2>1 DEF Routes
  <2> DEFINE b == p_stats'[t].blocked - p_stats[t].blocked
             r == p_stats'[t].ready - p_stats[t].ready
             e == p_stats[t].elapsed
             s == since[t]
  <2>4. /\ b \in IF t \in W THEN {now - e, now + 1 - e} ELSE {0}
        /\ r \in IF t = running' /\ t \in Members(ready)
                 THEN {now - e, now + 1 - e} ELSE -1..1
    BY <1>5, <2>1 DEF Bills
  <2>5. b \in Int /\ r \in Int
    <3>1. p_stats[t] \in Stat /\ p_stats'[t] \in Stat
      BY <1>1, <2>1
    <3> QED
      BY <3>1, FieldsAreInt
  <2>6. t \in W \/ t \in Members(ready) => e \in {s, s + 1}
    BY <2>1
  <2>7. now \in Int /\ e \in Int /\ s \in Int
    BY <1>1, <2>1
  <2> HIDE DEF b, r, e, s
  <2>8. b \in Near(IF t \in W THEN now - s ELSE 0)
    BY <2>4, <2>5, <2>6, <2>7 DEF Near
  <2>9. r \in Near(IF t = running' /\ t \in Members(ready) THEN now - s ELSE 0)
    BY <2>4, <2>5, <2>6, <2>7 DEF Near
  <2> QED
    BY <2>2, <2>3, <2>8, <2>9 DEF b, r, s
<1>6. Waits(p_stats')
  <2> SUFFICES ASSUME NEW t \in Alive \ {Idle}, t \in Alive', NEW queue \in {"blocked", "ready"}
               PROVE  p_stats'[t][queue] - p_stats[t][queue] \in
                        Near(IF Place(t) = queue /\ Place(t)' # queue
                             THEN now - since[t] ELSE 0)
    BY DEF Waits
  <2>1. /\ Place(t) = "ready" <=> t \in Members(ready)
        /\ Place(t) = "blocked" <=> t \in Members(blocked)
        /\ Place(t)' = "ready" <=> t \in Members(ready')
        /\ Place(t)' = "blocked" <=> t \in Members(blocked')
    BY PlaceIs, PlaceWillBe DEF Placed
  <2> QED
    BY <1>5, <2>1
<1>7. ASSUME NEW t \in Slots \ {Idle}, t \in Members(ready') \cup Members(blocked')
      PROVE  p_stats'[t].elapsed \in {since'[t], since'[t] + 1}
  <2>1. t \in Alive' /\ t # running'
    BY <1>4, <1>7
  <2>2. /\ p_stats'[t].elapsed \in
             IF t \in W \cup {running} THEN {now, now + 1} ELSE {p_stats[t].elapsed}
    BY <2>1 DEF Bills
  <2>3. CASE t \in Members(ready') /\ t \in Members(ready)
    BY <1>1, <1>2, <1>3, <2>1, <2>2, <2>3, PlaceIs, PlaceWillBe DEF Placed, WaitInv
  <2>4. CASE t \in Members(blocked') /\ t \in Members(blocked)
    <3>1. t \notin W
      BY <1>4, <2>1, <2>4 DEF Routes
    <3> QED
      BY <1>1, <1>2, <1>3, <2>1, <2>2, <2>4, <3>1, PlaceIs, PlaceWillBe DEF Placed, WaitInv
  <2>5. CASE \/ t \in Members(ready') /\ t \notin Members(ready)
             \/ t \in Members(blocked') /\ t \notin Members(blocked)
    <3>1. t \in W \cup {running} /\ t \in Alive
      BY <1>3, <2>5 DEF Routes
    <3>2. Place(t)' # Place(t)
      BY <2>1, <2>5, <3>1, PlaceIs, PlaceWillBe DEF Placed
    <3> QED
      BY <1>2, <2>2, <3>1, <3>2
  <2> QED
    BY <1>7, <2>3, <2>4, <2>5
<1> QED
  BY <1>2, <1>6, <1>7 DEF WaitInv

\* What a switch makes of the accounts S.
Switched(S) ==
  \A u \in Slots :
    /\ p_stats'[u].blocked = S[u].blocked
    /\ p_stats'[u].ready - S[u].ready \in
         IF u # running' THEN {0}
         ELSE IF u = running THEN {now - S[u].elapsed, now + 1 - S[u].elapsed} \cup -1..1
         ELSE {now - S[u].elapsed, now + 1 - S[u].elapsed}
    /\ p_stats'[u].elapsed \in
         IF u = running' THEN {now, now + 1}
         ELSE IF u = running THEN {S[u].elapsed, now, now + 1}
         ELSE {S[u].elapsed}

LEMMA SwitchFields ==
  ASSUME StatsInv, NEW edge \in Edges, NEW S \in [Slots -> Stat], running \in Slots,
         NEW next, NEW q \in Seq(Slots), SwitchTo(next, S, q, edge)
  PROVE  Switched(S) /\ running' \in Slots
<1> DEFINE t == IF q = <<>> THEN Idle ELSE Head(q)
           g6 == get_ticks(edge, 6)
           g7 == get_ticks(edge, 7)
           g8 == get_ticks(edge, LastCall)
           R == update_stats(S, running, "system", g6)
           S1 == IF next = "RR" THEN stats_next_rr(S, t, edge)
                 ELSE stats_next_fcfs(S, t, edge)
<1>1. t \in Slots /\ running' = t
  BY SwitchAlive DEF SwitchTo
<1>2. p_stats' = system_to_user(S1, t, edge)
  BY DEF SwitchTo
<1>3. now \in Int /\ g6 \in {now, now + 1} /\ g7 \in {now, now + 1} /\ g8 \in {now, now + 1}
  <2>1. now \in Int /\ LastCall \in Int
    BY DEF StatsInv, LastCall
  <2>2. \A c \in Int : get_ticks(edge, c) \in {now, now + 1}
    BY ClockIs
  <2> QED
    BY <2>1, <2>2
<1>4. S1 = IF next = "RR" THEN update_stats(R, t, "ready", g7)
           ELSE charge(S, t, "ready", g6, g7)
  BY DEF stats_next_rr, stats_next_fcfs
<1>5. p_stats' = IF t \in inclock THEN update_stats(S1, t, "system", g8) ELSE S1
  BY <1>2 DEF system_to_user
<1> HIDE DEF t, g6, g7, g8, R, S1
<1>6. /\ R \in [Slots -> Stat]
      /\ \A u \in Slots : /\ R[u].elapsed = IF u = running THEN g6 ELSE S[u].elapsed
                          /\ R[u].blocked = S[u].blocked /\ R[u].ready = S[u].ready
  <2>1. g6 \in Int
    BY <1>3
  <2>2. \A u \in Slots : S[u].blocked \in Int /\ S[u].ready \in Int
    BY FieldsAreInt
  <2> QED
    BY <2>1, <2>2, UpdateFields DEF Counters, R
<1>7. /\ S1 \in [Slots -> Stat]
      /\ \A u \in Slots :
           /\ S1[u].elapsed = IF u = t THEN g7
                              ELSE IF u = running /\ next = "RR" THEN g6 ELSE S[u].elapsed
           /\ S1[u].blocked = S[u].blocked
           /\ S1[u].ready = S[u].ready +
                (IF u # t THEN 0
                 ELSE IF next = "RR" THEN g7 - R[u].elapsed ELSE g6 - S[u].elapsed)
  <2>1. g6 \in Int /\ g7 \in Int
    BY <1>3
  <2>2. \A u \in Slots : S[u].blocked \in Int /\ S[u].ready \in Int
    BY FieldsAreInt
  <2>3. CASE next = "RR"
    <3>1. S1 = update_stats(R, t, "ready", g7)
      BY <1>4, <2>3
    <3>2. /\ S1 \in [Slots -> Stat]
          /\ \A u \in Slots :
               /\ S1[u].elapsed = IF u = t THEN g7 ELSE R[u].elapsed
               /\ S1[u].blocked = R[u].blocked + 0
               /\ S1[u].ready = R[u].ready + (IF u = t THEN g7 - R[u].elapsed ELSE 0)
      BY <1>1, <1>6, <2>1, <3>1, UpdateFields DEF Counters
    <3> QED
      BY <1>6, <2>2, <2>3, <3>2
  <2>4. CASE next # "RR"
    <3>1. S1 = charge(S, t, "ready", g6, g7)
      BY <1>4, <2>4
    <3>2. /\ S1 \in [Slots -> Stat]
          /\ \A u \in Slots :
               /\ S1[u].elapsed = IF u = t THEN g7 ELSE S[u].elapsed
               /\ S1[u].blocked = S[u].blocked + 0
               /\ S1[u].ready = S[u].ready + (IF u = t THEN g6 - S[u].elapsed ELSE 0)
      BY <1>1, <2>1, <3>1, ChargeFields DEF Counters
    <3> QED
      BY <2>2, <2>4, <3>2
  <2> QED
    BY <2>3, <2>4
<1>8. \A u \in Slots :
        /\ p_stats'[u].elapsed = IF u = t /\ t \in inclock THEN g8 ELSE S1[u].elapsed
        /\ p_stats'[u].blocked = S1[u].blocked /\ p_stats'[u].ready = S1[u].ready
  <2>1. g8 \in Int
    BY <1>3
  <2>2. \A u \in Slots : S1[u].blocked \in Int /\ S1[u].ready \in Int
    BY <1>7, FieldsAreInt
  <2>3. CASE t \in inclock
    <3> DEFINE P == update_stats(S1, t, "system", g8)
    <3>1. \A u \in Slots :
             /\ P[u].elapsed = IF u = t THEN g8 ELSE S1[u].elapsed
             /\ P[u].blocked = S1[u].blocked + 0
             /\ P[u].ready = S1[u].ready + 0
      BY <1>1, <1>7, <2>1, UpdateFields DEF Counters
    <3> HIDE DEF P
    <3>2. p_stats' = P
      BY <1>5, <2>3 DEF P
    <3> QED
      BY <2>2, <2>3, <3>1, <3>2
  <2>4. CASE t \notin inclock
    BY <1>5, <2>4
  <2> QED
    BY <2>3, <2>4
<1>9. ASSUME NEW u \in Slots
      PROVE  /\ p_stats'[u].blocked = S[u].blocked
             /\ p_stats'[u].ready - S[u].ready \in
                  IF u # t THEN {0}
                  ELSE IF u = running THEN {now - S[u].elapsed, now + 1 - S[u].elapsed} \cup -1..1
                  ELSE {now - S[u].elapsed, now + 1 - S[u].elapsed}
             /\ p_stats'[u].elapsed \in
                  IF u = t THEN {now, now + 1}
                  ELSE IF u = running THEN {S[u].elapsed, now, now + 1}
                  ELSE {S[u].elapsed}
  <2>1. S[u].ready \in Int /\ S[u].elapsed \in Int /\ R[u].elapsed \in Int
    BY <1>6, FieldsAreInt
  <2>2. p_stats'[u].ready - S[u].ready =
          IF u # t THEN 0
          ELSE IF next = "RR" THEN g7 - R[u].elapsed ELSE g6 - S[u].elapsed
    <3>1. g6 \in Int /\ g7 \in Int
      BY <1>3
    <3>2. p_stats'[u].ready = S1[u].ready
      BY <1>8
    <3>3. S1[u].ready = S[u].ready +
            IF u # t THEN 0
            ELSE IF next = "RR" THEN g7 - R[u].elapsed ELSE g6 - S[u].elapsed
      BY <1>7, <2>1, <3>1
    <3> QED
      BY <2>1, <3>1, <3>2, <3>3
  <2>3. p_stats'[u].blocked = S[u].blocked
    BY <1>7, <1>8
  <2>4. p_stats'[u].elapsed \in
          IF u = t THEN {now, now + 1}
          ELSE IF u = running THEN {S[u].elapsed, now, now + 1}
          ELSE {S[u].elapsed}
    BY <1>3, <1>7, <1>8
  <2>5. R[u].elapsed = IF u = running THEN g6 ELSE S[u].elapsed
    BY <1>6
  <2>6. CASE u # t
    BY <2>1, <2>2, <2>3, <2>4, <2>6
  <2>7. CASE u = t /\ u # running
    BY <1>3, <2>1, <2>2, <2>3, <2>4, <2>5, <2>7
  <2>8. CASE u = t /\ u = running
    <3>1. \/ p_stats'[u].ready - S[u].ready = g7 - g6
          \/ p_stats'[u].ready - S[u].ready = g6 - S[u].elapsed
      BY <2>2, <2>5, <2>8
    <3>2. g7 - g6 \in -1..1 /\ g6 \in {now, now + 1}
      BY <1>3
    <3>3. p_stats'[u].ready - S[u].ready \in
            {now - S[u].elapsed, now + 1 - S[u].elapsed} \cup -1..1
      <4>1. g6 - S[u].elapsed \in {now - S[u].elapsed, now + 1 - S[u].elapsed}
        <5>1. CASE g6 = now
          BY <5>1
        <5>2. CASE g6 = now + 1
          <6>1. (now + 1) - S[u].elapsed = now + 1 - S[u].elapsed
            BY <1>3, <2>1
          <6>2. g6 - S[u].elapsed = (now + 1) - S[u].elapsed
            BY <5>2
          <6> QED
            BY <6>1, <6>2
        <5> QED
          BY <3>2, <5>1, <5>2
      <4> QED
        BY <3>1, <3>2, <4>1
    <3> QED
      BY <2>3, <2>4, <2>8, <3>3
  <2> QED
    BY <2>6, <2>7, <2>8
<1> QED
  BY <1>1, <1>9 DEF Switched

\* What a handler that wakes the processes W has made of the accounts before it
\* leaves or switches.
Served(S, W) ==
  /\ S \in [Slots -> Stat]
  /\ \A u \in Slots \ {Idle} :
       /\ S[u].blocked - p_stats[u].blocked \in
            IF u \in W THEN {now - p_stats[u].elapsed, now + 1 - p_stats[u].elapsed} ELSE {0}
       /\ S[u].ready = p_stats[u].ready
       /\ u # running =>
            S[u].elapsed \in IF u \in W THEN {now, now + 1} ELSE {p_stats[u].elapsed}

LEMMA SwitchBills ==
  ASSUME StatsInv, QInv, NEW edge \in Edges, NEW S, NEW W,
         W \subseteq Members(blocked), Served(S, W), Routes(W),
         running \in Alive' \ {Idle} => S[running].elapsed \in {now, now + 1},
         NEW next, NEW q \in Seq(Slots), SwitchTo(next, S, q, edge)
  PROVE  Bills(W)
<1>1. /\ S \in [Slots -> Stat] /\ p_stats \in [Slots -> Stat] /\ now \in Int
      /\ running \in Slots
  BY QInvIs DEF Served, StatsInv
<1>2. Switched(S) /\ running' \in Slots
  BY <1>1, SwitchFields
<1>3. ASSUME NEW u \in Slots \ {Idle}, u \in Alive'
      PROVE  /\ p_stats'[u].blocked - p_stats[u].blocked \in
                  IF u \in W THEN {now - p_stats[u].elapsed, now + 1 - p_stats[u].elapsed}
                  ELSE {0}
             /\ p_stats'[u].ready - p_stats[u].ready \in
                  IF u = running' /\ u \in Members(ready)
                  THEN {now - p_stats[u].elapsed, now + 1 - p_stats[u].elapsed}
                  ELSE -1..1
             /\ p_stats'[u].elapsed \in
                  IF u \in W \cup {running, running'} THEN {now, now + 1}
                  ELSE {p_stats[u].elapsed}
  <2> DEFINE P == p_stats'[u]
  <2>1. /\ S[u].ready \in Int /\ S[u].elapsed \in Int /\ S[u].blocked \in Int
        /\ p_stats[u].elapsed \in Int /\ p_stats[u].ready \in Int
    BY <1>1, FieldsAreInt
  <2>2. /\ P.blocked = S[u].blocked
        /\ P.ready - S[u].ready \in
             IF u # running' THEN {0}
             ELSE IF u = running THEN {now - S[u].elapsed, now + 1 - S[u].elapsed} \cup -1..1
             ELSE {now - S[u].elapsed, now + 1 - S[u].elapsed}
        /\ P.elapsed \in
             IF u = running' THEN {now, now + 1}
             ELSE IF u = running THEN {S[u].elapsed, now, now + 1}
             ELSE {S[u].elapsed}
    BY <1>2 DEF Switched
  <2> HIDE DEF P
  <2>3. /\ S[u].blocked - p_stats[u].blocked \in
             IF u \in W THEN {now - p_stats[u].elapsed, now + 1 - p_stats[u].elapsed} ELSE {0}
        /\ S[u].ready = p_stats[u].ready
        /\ u # running =>
             S[u].elapsed \in IF u \in W THEN {now, now + 1} ELSE {p_stats[u].elapsed}
        /\ u = running => S[u].elapsed \in {now, now + 1}
    BY <1>3 DEF Served
  <2>4. /\ u = running' => u \in Members(ready) \/ u \in W \/ u = running
        /\ u \in Members(ready) => u \notin W /\ u # running
    BY ApartIs DEF Routes, Apart
  <2>5. P.blocked - p_stats[u].blocked \in
          IF u \in W THEN {now - p_stats[u].elapsed, now + 1 - p_stats[u].elapsed} ELSE {0}
    BY <2>2, <2>3
  <2>6. P.elapsed \in
          IF u \in W \cup {running, running'} THEN {now, now + 1} ELSE {p_stats[u].elapsed}
    BY <2>2, <2>3
  <2>7. P.ready - p_stats[u].ready \in
          IF u = running' /\ u \in Members(ready)
          THEN {now - p_stats[u].elapsed, now + 1 - p_stats[u].elapsed} ELSE -1..1
    <3>1. CASE u # running'
      BY <2>1, <2>2, <2>3, <3>1
    <3>2. CASE u = running' /\ u \in Members(ready)
      <4>1. S[u].elapsed = p_stats[u].elapsed /\ u # running
        BY <2>3, <2>4, <3>2
      <4> QED
        BY <2>2, <2>3, <3>2, <4>1
    <3>3. CASE u = running' /\ u \notin Members(ready)
      <4>1. S[u].elapsed \in {now, now + 1}
        BY <2>3, <2>4, <3>3
      <4>2. P.ready - S[u].ready \in -1..1
        BY <1>1, <2>1, <2>2, <3>3, <4>1
      <4> QED
        BY <2>3, <3>3, <4>2
    <3> QED
      BY <3>1, <3>2, <3>3
  <2> QED
    BY <2>5, <2>6, <2>7 DEF P
<1> QED
  BY <1>3 DEF Bills

\* Charging the running process for its time in the system or in user mode.
LEMMA ServedRunning ==
  ASSUME StatsInv, QInv, NEW S, NEW W, Served(S, W), NEW counter \in {"user", "system"},
         NEW r1 \in Int, NEW r2 \in Int
  PROVE  LET C == charge(S, running, counter, r1, r2)
         IN  /\ Served(C, W) /\ C[running].elapsed = r2
             /\ update_stats(S, running, counter, r2) = charge(S, running, counter, r2, r2)
<1> DEFINE C == charge(S, running, counter, r1, r2)
<1>1. S \in [Slots -> Stat] /\ counter \in Counters /\ running \in Slots
  BY QInvIs DEF Served, Counters
<1>2. /\ C \in [Slots -> Stat]
      /\ \A u \in Slots : /\ C[u].elapsed = IF u = running THEN r2 ELSE S[u].elapsed
                          /\ C[u].blocked = S[u].blocked + 0
                          /\ C[u].ready = S[u].ready + 0
  BY <1>1, ChargeFields
<1>3. update_stats(S, running, counter, r2) = charge(S, running, counter, r2, r2)
  BY <1>1, ChargesOne
<1> HIDE DEF C
<1>4. \A u \in Slots : C[u].blocked = S[u].blocked /\ C[u].ready = S[u].ready
  BY <1>1, <1>2, FieldsAreInt
<1>5. Served(C, W) /\ C[running].elapsed = r2
  BY <1>1, <1>2, <1>4 DEF Served
<1> QED
  BY <1>3, <1>5 DEF C

LEMMA ServedUpdate ==
  ASSUME StatsInv, QInv, NEW S, NEW W, Served(S, W), NEW counter \in {"user", "system"},
         NEW r \in Int
  PROVE  LET C == update_stats(S, running, counter, r)
         IN  Served(C, W) /\ C[running].elapsed = r
BY ServedRunning

LEMMA ServedStart == StatsInv => Served(p_stats, {})
<1> SUFFICES ASSUME StatsInv PROVE Served(p_stats, {})
  OBVIOUS
<1>1. /\ p_stats \in [Slots -> Stat]
      /\ \A u \in Slots : p_stats[u].blocked \in Int
  BY FieldsAreInt DEF StatsInv
<1> QED
  BY <1>1 DEF Served

LEMMA ServedWoken ==
  ASSUME StatsInv, QInv, NEW edge \in Edges, NEW S, Served(S, {}),
         NEW wake, wake => blocked # <<>>
  PROVE  LET W == IF wake THEN {Head(blocked)} ELSE {}
         IN  Served(WokenTo(S, wake, edge), W) /\ W \subseteq Members(blocked)
<1>1. CASE ~ wake
  BY <1>1 DEF WokenTo
<1>2. CASE wake
  <2> DEFINE w == Head(blocked)
             g2 == get_ticks(edge, 2)
             g3 == get_ticks(edge, 3)
             g4 == get_ticks(edge, 4)
             R == charge(S, w, "blocked", g2, g3)
             R4 == charge_ready(R, w, edge, 4)
  <2>1. /\ w \in Members(blocked) /\ w \in Slots /\ w # running /\ w # Idle
        /\ S \in [Slots -> Stat] /\ p_stats \in [Slots -> Stat] /\ now \in Int
    BY <1>2, QInvIs, MembersTail DEF Served, StatsInv
  <2>2. g2 \in {now, now + 1} /\ g3 \in {now, now + 1} /\ g4 \in {now, now + 1}
    BY ClockIs
  <2>3. WokenTo(S, wake, edge) = R4
    BY <1>2 DEF WokenTo
  <2>4. R4 = IF policy = "RR" THEN update_stats(R, w, "system", g4) ELSE R
    BY DEF charge_ready
  <2> HIDE DEF w, g2, g3, g4, R, R4
  <2>5. \A u \in Slots : /\ S[u].blocked \in Int /\ S[u].ready \in Int /\ S[u].elapsed \in Int
                         /\ p_stats[u].elapsed \in Int /\ p_stats[u].blocked \in Int
    BY <2>1, FieldsAreInt
  <2>6. /\ R \in [Slots -> Stat]
        /\ \A u \in Slots :
             /\ R[u].elapsed = IF u = w THEN g3 ELSE S[u].elapsed
             /\ R[u].blocked = S[u].blocked + (IF u = w THEN g2 - S[u].elapsed ELSE 0)
             /\ R[u].ready = S[u].ready + 0
    BY <2>1, <2>2, ChargeFields DEF R, Counters
  <2>7. /\ R4 \in [Slots -> Stat]
        /\ \A u \in Slots :
             /\ R4[u].elapsed = IF u = w THEN (IF policy = "RR" THEN g4 ELSE g3)
                                ELSE S[u].elapsed
             /\ R4[u].blocked = R[u].blocked /\ R4[u].ready = R[u].ready
    <3>1. CASE policy = "RR"
      <4> DEFINE P == update_stats(R, w, "system", g4)
      <4>1. /\ P \in [Slots -> Stat]
            /\ \A u \in Slots : /\ P[u].elapsed = IF u = w THEN g4 ELSE R[u].elapsed
                                /\ P[u].blocked = R[u].blocked + 0
                                /\ P[u].ready = R[u].ready + 0
        BY <2>1, <2>2, <2>6, UpdateFields DEF Counters
      <4> HIDE DEF P
      <4>2. R4 = P
        BY <2>4, <3>1 DEF P
      <4>3. \A u \in Slots : R[u].blocked \in Int /\ R[u].ready \in Int
        BY <2>6, FieldsAreInt
      <4> QED
        BY <2>6, <3>1, <4>1, <4>2, <4>3
    <3>2. CASE policy # "RR"
      BY <2>4, <2>6, <3>2
    <3> QED
      BY <3>1, <3>2
  <2>8. ASSUME NEW u \in Slots \ {Idle}
        PROVE  /\ R4[u].blocked - p_stats[u].blocked \in
                    IF u \in {w} THEN {now - p_stats[u].elapsed, now + 1 - p_stats[u].elapsed}
                    ELSE {0}
               /\ R4[u].ready = p_stats[u].ready
               /\ u # running =>
                    R4[u].elapsed \in IF u \in {w} THEN {now, now + 1} ELSE {p_stats[u].elapsed}
    <3>1. /\ S[u].blocked - p_stats[u].blocked = 0 /\ S[u].ready = p_stats[u].ready
          /\ u # running => S[u].elapsed = p_stats[u].elapsed
      BY DEF Served
    <3>2. /\ R4[u].ready = p_stats[u].ready
          /\ R4[u].blocked = S[u].blocked + (IF u = w THEN g2 - S[u].elapsed ELSE 0)
          /\ R4[u].elapsed = IF u = w THEN (IF policy = "RR" THEN g4 ELSE g3)
                             ELSE S[u].elapsed
      BY <2>5, <2>6, <2>7, <3>1
    <3>3. CASE u = w
      <4>1. R4[u].blocked - p_stats[u].blocked = g2 - p_stats[u].elapsed
        <5>1. /\ S[u].blocked \in Int /\ p_stats[u].blocked \in Int /\ g2 \in Int
              /\ S[u].elapsed = p_stats[u].elapsed /\ p_stats[u].elapsed \in Int
          BY <2>1, <2>2, <2>5, <3>1, <3>3
        <5>2. R4[u].blocked = S[u].blocked + (g2 - p_stats[u].elapsed)
          BY <3>2, <3>3, <5>1
        <5> QED
          BY <3>1, <5>1, <5>2
      <4>2. R4[u].blocked - p_stats[u].blocked \in
              {now - p_stats[u].elapsed, now + 1 - p_stats[u].elapsed}
        <5>1. CASE g2 = now
          BY <4>1, <5>1
        <5>2. CASE g2 = now + 1
          <6>1. now \in Int /\ p_stats[u].elapsed \in Int
            BY <2>1, <2>5
          <6>2. R4[u].blocked - p_stats[u].blocked = (now + 1) - p_stats[u].elapsed
            BY <4>1, <5>2
          <6> QED
            BY <6>1, <6>2
        <5> QED
          BY <2>2, <5>1, <5>2
      <4>3. R4[u].elapsed \in {now, now + 1}
        BY <2>2, <3>2, <3>3
      <4> QED
        BY <3>2, <3>3, <4>2, <4>3
    <3>4. CASE u # w
      <4>1. R4[u].blocked - p_stats[u].blocked = 0
        BY <2>5, <3>1, <3>2, <3>4
      <4>2. u # running => R4[u].elapsed = p_stats[u].elapsed
        BY <3>1, <3>2, <3>4
      <4> QED
        BY <3>2, <3>4, <4>1, <4>2
    <3> QED
      BY <3>3, <3>4
  <2>9. Served(R4, {w})
    BY <2>7, <2>8 DEF Served
  <2> QED
    BY <1>2, <2>1, <2>3, <2>9 DEF w
<1> QED
  BY <1>1, <1>2

LEMMA SwitchRoutes ==
  ASSUME NEW edge, NEW S, NEW W, NEW next, NEW q \in Seq(Slots), SwitchTo(next, S, q, edge),
         Members(ready) \cup W \subseteq Members(q),
         Members(q) \subseteq Members(ready) \cup W \cup {running},
         Members(blocked) \subseteq W \cup Members(blocked'),
         Members(blocked') \subseteq Members(blocked) \cup {running}
  PROVE  Routes(W)
<1>1. {Idle, running'} \cup Members(ready') = {Idle} \cup Members(q)
  BY SwitchAlive
<1> QED
  BY <1>1 DEF Routes

LEMMA TickCounts ==
  ASSUME QInv, QInv', StatsInv, StatsInv', WaitInv,
         NEW edge \in Edges, NEW wake, Tick(edge, wake)
  PROVE  Waits(p_stats') /\ WaitInv'
<1> DEFINE W == IF wake THEN {Head(blocked)} ELSE {}
           S0 == update_stats(p_stats, running, "user", get_ticks(edge, 1))
           S == WokenTo(S0, wake, edge)
           S5 == charge_ready(S, running, edge, 5)
           q == IF wake THEN Append(ready, Head(blocked)) ELSE ready
           g == get_ticks(edge, LastCall)
<1>1. /\ running \in Slots /\ ready \in Seq(Slots) /\ blocked \in Seq(Slots)
      /\ Moved /\ (wake => blocked # <<>>)
      /\ blocked' = IF wake THEN Tail(blocked) ELSE blocked
      /\ \/ /\ p_stats' = update_stats(S, running, "system", g)
            /\ ready' = q /\ running' = running
         \/ /\ SwitchTo(policy, S5, QueueOf(q), edge)
            /\ policy = "FCFS" => running = Idle
  BY QInvIs DEF Tick
<1>2. \A c \in Int : get_ticks(edge, c) \in {now, now + 1} /\ get_ticks(edge, c) \in Int
  BY ClockIs
<1>3. Served(S0, {})
  <2>1. get_ticks(edge, 1) \in Int
    BY <1>2
  <2> QED
    BY <2>1, ServedStart, ServedUpdate
<1> HIDE DEF S0
<1>4. Served(S, W) /\ W \subseteq Members(blocked)
  BY <1>1, <1>3, ServedWoken
<1> HIDE DEF S
<1>5. /\ q \in Seq(Slots) /\ Members(q) = Members(ready) \cup W
      /\ Members(blocked) = W \cup Members(blocked')
  BY <1>1, MembersTail, MembersAppend
<1> HIDE DEF q, W
<1>6. CASE /\ p_stats' = update_stats(S, running, "system", g)
           /\ ready' = q /\ running' = running
  <2>1. g \in {now, now + 1} /\ g \in Int
    BY <1>2 DEF LastCall
  <2> HIDE DEF g
  <2>2. Served(p_stats', W) /\ p_stats'[running].elapsed = g
    BY <1>4, <1>6, <2>1, ServedUpdate
  <2>3. Routes(W)
    BY <1>5, <1>6 DEF Routes
  <2>4. running \notin Members(ready) /\ \A u \in Slots : p_stats[u].ready \in Int
    BY QInvIs, FieldsAreInt DEF StatsInv
  <2>5. ASSUME NEW u \in Slots \ {Idle}
        PROVE  /\ p_stats'[u].ready - p_stats[u].ready = 0
               /\ u = running => p_stats'[u].elapsed = g
    <3>1. p_stats[u].ready \in Int /\ p_stats'[u].ready = p_stats[u].ready
      BY <2>2, <2>4 DEF Served
    <3> QED
      BY <2>2, <3>1
  <2>6. Bills(W)
    <3> SUFFICES ASSUME NEW u \in Slots \ {Idle}, u \in Alive'
                 PROVE  /\ p_stats'[u].blocked - p_stats[u].blocked \in
                             IF u \in W THEN {now - p_stats[u].elapsed,
                                             now + 1 - p_stats[u].elapsed} ELSE {0}
                        /\ p_stats'[u].ready - p_stats[u].ready \in
                             IF u = running' /\ u \in Members(ready)
                             THEN {now - p_stats[u].elapsed, now + 1 - p_stats[u].elapsed}
                             ELSE -1..1
                        /\ p_stats'[u].elapsed \in
                             IF u \in W \cup {running, running'} THEN {now, now + 1}
                             ELSE {p_stats[u].elapsed}
      BY DEF Bills
    <3>1. /\ p_stats'[u].blocked - p_stats[u].blocked \in
               IF u \in W THEN {now - p_stats[u].elapsed, now + 1 - p_stats[u].elapsed}
               ELSE {0}
          /\ u # running =>
               p_stats'[u].elapsed \in IF u \in W THEN {now, now + 1} ELSE {p_stats[u].elapsed}
      BY <2>2 DEF Served
    <3>2. ~ (u = running' /\ u \in Members(ready))
      BY <1>6, <2>4
    <3> QED
      BY <1>6, <2>1, <2>5, <3>1, <3>2
  <2> QED
    BY <1>1, <1>4, <2>3, <2>6, BillsAreWaits
<1>7. CASE /\ SwitchTo(policy, S5, QueueOf(q), edge)
           /\ policy = "FCFS" => running = Idle
  <2>1. Served(S5, W) /\ (running # Idle => S5[running].elapsed \in {now, now + 1})
    <3>1. CASE policy = "RR"
      <4>1. get_ticks(edge, 5) \in Int /\ get_ticks(edge, 5) \in {now, now + 1}
        BY <1>2
      <4> QED
        BY <1>4, <3>1, <4>1, ServedUpdate DEF charge_ready
    <3>2. CASE policy # "RR"
      BY <1>4, <1>7, <3>2, AccountingAssumption DEF charge_ready, QInv
    <3> QED
      BY <3>1, <3>2
  <2> HIDE DEF S5
  <2>2. QueueOf(q) \in Seq(Slots) /\ Members(QueueOf(q)) = Members(q) \cup
          (IF policy = "RR" THEN {running} ELSE {})
    BY <1>1, <1>5, MembersAppend DEF QueueOf
  <2>3. Routes(W)
    BY <1>1, <1>5, <1>7, <2>2, SwitchRoutes
  <2> QED
    BY <1>1, <1>4, <1>7, <2>1, <2>2, <2>3, SwitchBills, BillsAreWaits
<1> QED
  BY <1>1, <1>6, <1>7

LEMMA CallCounts ==
  ASSUME QInv, QInv', StatsInv, StatsInv', WaitInv,
         NEW edge \in Edges, Exit(edge) \/ Yield(edge) \/ Read(edge)
  PROVE  Waits(p_stats') /\ WaitInv'
<1>1. /\ running \in Slots /\ ready \in Seq(Slots) /\ blocked \in Seq(Slots)
      /\ Served(p_stats, {}) /\ {} \subseteq Members(blocked)
  BY QInvIs, ServedStart
<1>2. \A c \in Int : get_ticks(edge, c) \in {now, now + 1} /\ get_ticks(edge, c) \in Int
  BY ClockIs
<1>3. CASE Exit(edge)
  <2>1. /\ SwitchTo("RR", p_stats, ready, edge) /\ Moved /\ UNCHANGED blocked
        /\ running # Idle
    BY <1>3 DEF Exit, Leave
  <2>2. Routes({})
    BY <1>1, <2>1, SwitchRoutes
  <2>3. running \notin Alive'
    BY <1>3, LeaveMoves DEF Exit
  <2>4. Bills({})
    BY <1>1, <2>1, <2>2, <2>3, SwitchBills
  <2> QED
    BY <1>1, <2>1, <2>2, <2>4, BillsAreWaits
<1>4. CASE Yield(edge)
  <2> DEFINE S == update_stats(p_stats, running, "system", get_ticks(edge, 5))
             q == Append(ready, running)
  <2>1. SwitchTo("RR", S, q, edge) /\ Moved /\ UNCHANGED blocked
    BY <1>4 DEF Yield
  <2>2. Served(S, {}) /\ S[running].elapsed \in {now, now + 1}
    <3>1. get_ticks(edge, 5) \in Int /\ get_ticks(edge, 5) \in {now, now + 1}
      BY <1>2
    <3> QED
      BY <1>1, <3>1, ServedUpdate
  <2>3. q \in Seq(Slots) /\ Members(q) = Members(ready) \cup {running}
    BY <1>1, MembersAppend
  <2> HIDE DEF S, q
  <2>4. Routes({})
    BY <2>1, <2>3, SwitchRoutes
  <2>5. Bills({})
    BY <1>1, <2>1, <2>2, <2>3, <2>4, SwitchBills
  <2> QED
    BY <1>1, <2>1, <2>4, <2>5, BillsAreWaits
<1>5. CASE Read(edge)
  <2> DEFINE S == charge_block(p_stats, edge)
  <2>1. SwitchTo(policy, S, ready, edge) /\ Moved /\ blocked' = Append(blocked, running)
    BY <1>5 DEF Read
  <2>2. Served(S, {}) /\ S[running].elapsed \in {now, now + 1}
    <3>1. /\ get_ticks(edge, 2) \in Int /\ get_ticks(edge, 3) \in Int
          /\ get_ticks(edge, 3) \in {now, now + 1}
      BY <1>2
    <3> QED
      BY <1>1, <3>1, ServedRunning DEF charge_block
  <2>3. Members(blocked') = Members(blocked) \cup {running}
    BY <1>1, <2>1, MembersAppend
  <2> HIDE DEF S
  <2>4. Routes({})
    BY <1>1, <2>1, <2>3, SwitchRoutes
  <2>5. Bills({})
    BY <1>1, <2>1, <2>2, <2>4, SwitchBills
  <2> QED
    BY <1>1, <2>1, <2>4, <2>5, BillsAreWaits
<1> QED
  BY <1>3, <1>4, <1>5

\* Nobody moves, and nothing is charged to a wait.
LEMMA StillWaits ==
  ASSUME QInv, QInv', StatsInv, WaitInv, UNCHANGED <<running, ready, blocked, since>>,
         \A u \in Alive \ {Idle} :
           /\ p_stats'[u].blocked = p_stats[u].blocked
           /\ p_stats'[u].ready = p_stats[u].ready
           /\ u # running => p_stats'[u].elapsed = p_stats[u].elapsed
  PROVE  Waits(p_stats') /\ WaitInv'
<1>1. ASSUME NEW t \in Alive \ {Idle}, t \in Alive', NEW queue \in {"blocked", "ready"}
      PROVE  p_stats'[t][queue] - p_stats[t][queue] \in
               Near(IF Place(t) = queue /\ Place(t)' # queue THEN now - since[t] ELSE 0)
  <2>1. /\ p_stats'[t][queue] = p_stats[t][queue] /\ p_stats[t][queue] \in Int
    BY <1>1, QInvIs, FieldsAreInt DEF StatsInv
  <2>2. ~ (Place(t) = queue /\ Place(t)' # queue)
    BY <1>1, PlaceIs, PlaceWillBe DEF Placed
  <2> QED
    BY <2>1, <2>2 DEF Near
<1>2. ASSUME NEW t \in Slots \ {Idle}, t \in Members(ready') \cup Members(blocked')
      PROVE  p_stats'[t].elapsed \in {since'[t], since'[t] + 1}
  <2>1. t \in Members(ready) \cup Members(blocked) /\ t \in Alive /\ t # running
    BY <1>2, ApartIs DEF Apart
  <2> QED
    BY <2>1 DEF WaitInv
<1> QED
  BY <1>1, <1>2 DEF Waits, WaitInv

LEMMA OthersCount ==
  ASSUME QInv, QInv', StatsInv, WaitInv,
         \/ Elapse \/ ForkAgain \/ UNCHANGED vars
         \/ \E edge \in Edges : Keyboard(edge)
  PROVE  Waits(p_stats') /\ WaitInv'
<1>1. UNCHANGED <<running, ready, blocked, since>>
  BY DEF Elapse, ForkAgain, Keyboard, vars, queues
<1>2. CASE Elapse \/ UNCHANGED vars
  BY <1>1, <1>2, StillWaits DEF Elapse, vars
<1>3. CASE ForkAgain
  <2>1. p_stats' = [p_stats EXCEPT ![Head(freequeue)] = p_stats[running]]
    BY <1>3 DEF ForkAgain
  <2>2. Head(freequeue) \notin Alive
    BY <1>3, MembersTail DEF QInv, ForkAgain
  <2>3. \A u \in Alive : p_stats'[u] = p_stats[u]
    BY <2>1, <2>2, QInvIs DEF StatsInv
  <2> QED
    BY <1>1, <2>3, StillWaits
<1>4. ASSUME NEW edge \in Edges, Keyboard(edge)
      PROVE  Waits(p_stats') /\ WaitInv'
  <2> DEFINE S == update_stats(p_stats, running, "user", get_ticks(edge, 1))
             g == get_ticks(edge, LastCall)
  <2>1. get_ticks(edge, 1) \in Int /\ g \in Int
    BY ClockIs DEF LastCall
  <2>2. Served(S, {})
    BY <2>1, ServedStart, ServedUpdate
  <2>3. p_stats' = update_stats(S, running, "system", g)
    BY <1>4 DEF Keyboard
  <2> HIDE DEF S, g
  <2>4. Served(p_stats', {})
    BY <2>1, <2>2, <2>3, ServedUpdate
  <2>5. \A u \in Slots \ {Idle} :
          /\ p_stats'[u].blocked - p_stats[u].blocked = 0
          /\ p_stats'[u].ready = p_stats[u].ready
          /\ u # running => p_stats'[u].elapsed = p_stats[u].elapsed
    BY <2>4 DEF Served
  <2>6. \A u \in Slots : p_stats'[u].blocked \in Int /\ p_stats[u].blocked \in Int
    BY <2>4, FieldsAreInt DEF Served, StatsInv
  <2>7. \A u \in Slots \ {Idle} : p_stats'[u].blocked = p_stats[u].blocked
    BY <2>5, <2>6
  <2> QED
    BY <1>1, <2>5, <2>7, QInvIs, StillWaits
<1> QED
  BY <1>2, <1>3, <1>4

LEMMA ForkCounts ==
  ASSUME QInv, QInv', StatsInv, WaitInv, NEW edge \in Edges, Fork(edge)
  PROVE  Waits(p_stats') /\ WaitInv'
<1>0. PICK c : c = Head(freequeue)
  OBVIOUS
<1> DEFINE s == init_stats(get_ticks(edge, 1))
<1>1. /\ freequeue # <<>> /\ Moved /\ ready' = Append(ready, c)
      /\ p_stats' = [p_stats EXCEPT ![c] = s]
      /\ UNCHANGED <<running, blocked>>
  BY <1>0 DEF Fork
<1>2. /\ c \in Slots \ Alive /\ c \in Members(freequeue) /\ Alive' = Alive \cup {c}
      /\ Members(ready') = Members(ready) \cup {c} /\ Alive \subseteq Slots
  BY <1>0, <1>1, QInvIs, ForkMoves, MembersTail, MembersAppend DEF QInv
<1>3. s.elapsed \in {now, now + 1}
  BY ClockIs DEF init_stats
<1> HIDE DEF s
<1>4. /\ since \in [Slots -> Int] /\ p_stats \in [Slots -> Stat] /\ now \in Int
      /\ \A u \in Alive : p_stats'[u] = p_stats[u]
      /\ p_stats'[c] = s
      /\ since' = [t \in Slots |-> IF Place(t)' # Place(t) THEN now ELSE since[t]]
  BY <1>1, <1>2 DEF StatsInv, WaitInv, Moved
<1>5. ASSUME NEW t \in Alive \ {Idle}, t \in Alive'
      PROVE  /\ \A queue \in {"blocked", "ready"} :
                  /\ p_stats'[t][queue] - p_stats[t][queue] = 0
                  /\ ~ (Place(t) = queue /\ Place(t)' # queue)
             /\ Place(t)' = Place(t)
  <2>1. p_stats'[t] = p_stats[t] /\ p_stats[t].blocked \in Int /\ p_stats[t].ready \in Int
    BY <1>2, <1>4, FieldsAreInt
  <2>2. Place(t)' = Place(t)
    BY <1>1, <1>2, <1>5, PlaceIs, PlaceWillBe DEF Placed
  <2> QED
    BY <2>1, <2>2
<1>6. Waits(p_stats')
  BY <1>5 DEF Waits, Near
<1>7. Place(c)' # Place(c)
  <2>1. /\ c # running /\ c \notin Members(ready) /\ c \notin Members(blocked) /\ c # Idle
    BY <1>2 DEF Alive
  <2>2. Place(c) = "free"
    BY <1>2, <2>1 DEF Place
  <2>3. Place(c)' = "ready"
    BY <1>2, <2>1, PlaceWillBe DEF Placed
  <2> QED
    BY <2>2, <2>3
<1>8. ASSUME NEW t \in Slots \ {Idle}, t \in Members(ready') \cup Members(blocked')
      PROVE  p_stats'[t].elapsed \in {since'[t], since'[t] + 1}
  <2>1. CASE t = c
    BY <1>2, <1>3, <1>4, <1>7, <2>1
  <2>2. CASE t # c
    <3>1. t \in Members(ready) \cup Members(blocked) /\ t \in Alive /\ t \in Alive'
      BY <1>1, <1>2, <1>8, <2>2, ApartIs DEF Apart
    <3>2. since'[t] = since[t] /\ p_stats'[t] = p_stats[t]
      BY <1>4, <1>5, <3>1
    <3> QED
      BY <3>1, <3>2 DEF WaitInv
  <2> QED
    BY <2>1, <2>2
<1>9. since' \in [Slots -> Int]
  BY <1>4
<1> QED
  BY <1>6, <1>8, <1>9 DEF WaitInv

LEMMA InitWaitInv == Init => WaitInv
BY DEF Init, WaitInv, Members

LEMMA NextCounts ==
  WaitInv /\ StatsInv /\ QInv /\ [Next]_vars => Waits(p_stats') /\ WaitInv'
<1> SUFFICES ASSUME WaitInv, StatsInv, QInv, [Next]_vars PROVE Waits(p_stats') /\ WaitInv'
  OBVIOUS
<1>1. QInv' /\ StatsInv'
  BY NextQInv, NextIsFair
<1> QED
  BY <1>1, TickCounts, CallCounts, ForkCounts, OthersCount DEF Next

\* blocked_ticks and ready_ticks are the stays on the queues under either policy:
\* every handler that takes a process off its queue charges the stay to that
\* counter, to within a tick, and no handler charges a stay there was not.
THEOREM WaitsAreCounted == Spec => WaitsCounted
<1>1. WaitInv /\ StatsInv /\ QInv /\ [Next]_vars => [Waits(p_stats')]_vars
  BY NextCounts
<1> QED
  BY <1>1, InitQInv, NextQInv, InitStatsInv, NextIsFair, InitWaitInv, NextCounts, PTL
  DEF Spec, WaitsCounted, Waits

-----------------------------------------------------------------------------
(***************************************************************************)
(* Every variable in its range                                             *)
(***************************************************************************)

\* What is not said of the variables elsewhere.  (Who runs has been taken off
\* inclock, so that a process that leaves is not on it.)
BoundInv ==
  /\ now <= MaxTime
  /\ global_PID \in Task1..(Task1 + MaxForks)
  /\ inclock \subseteq Alive \ {running}
  /\ since \in [Slots -> 0..MaxTime]

LEMMA TimePasses ==
  ASSUME now \in Nat, now <= MaxTime, NEW edge \in Edges, Passes(edge)
  PROVE  now' <= MaxTime
BY AccountingAssumption DEF Edges, Passes, NoEdge, LastCall

LEMMA SinceMoved ==
  ASSUME now \in Nat, now <= MaxTime, since \in [Slots -> 0..MaxTime], Moved
  PROVE  since' \in [Slots -> 0..MaxTime]
<1>1. now \in 0..MaxTime
  BY AccountingAssumption
<1> QED
  BY <1>1 DEF Moved

LEMMA InitBoundInv == Init => BoundInv
<1> SUFFICES ASSUME Init PROVE BoundInv
  OBVIOUS
<1>1. since = [t \in Slots |-> 0] /\ 0 \in 0..MaxTime
  BY AccountingAssumption DEF Init
<1>2. since \in [Slots -> 0..MaxTime]
  BY <1>1
<1> QED
  BY <1>2, AccountingAssumption DEF Init, BoundInv, Task1

LEMMA NextBoundInv == BoundInv /\ StatsInv /\ QInv /\ [Next]_vars => BoundInv'
<1> SUFFICES ASSUME BoundInv, StatsInv, QInv, [Next]_vars PROVE BoundInv'
  OBVIOUS
<1>1. /\ now \in Nat /\ now <= MaxTime /\ global_PID \in Task1..(Task1 + MaxForks)
      /\ inclock \subseteq Alive \ {running} /\ since \in [Slots -> 0..MaxTime]
  BY DEF BoundInv, StatsInv
<1>2. running \in Alive /\ running' \in Alive'
  BY DEF Alive
<1>3. ASSUME NEW edge \in Edges, NEW wake \in BOOLEAN, Tick(edge, wake) PROVE BoundInv'
  <2>1. /\ Passes(edge) /\ Moved /\ UNCHANGED global_PID
        /\ \/ UNCHANGED <<inclock, running>>
           \/ inclock' = (inclock \cup {running}) \ {running'}
    BY <1>3 DEF Tick
  <2>2. Alive' = Alive
    BY <1>3, TickMoves
  <2> QED
    BY <1>1, <1>2, <2>1, <2>2, TimePasses, SinceMoved DEF BoundInv
<1>4. ASSUME NEW edge \in Edges, Keyboard(edge) PROVE BoundInv'
  <2>1. Passes(edge) /\ UNCHANGED <<global_PID, inclock, since, running>> /\ Alive' = Alive
    BY <1>4, OthersMove DEF Keyboard, queues
  <2> QED
    BY <1>1, <2>1, TimePasses DEF BoundInv
<1>5. ASSUME NEW edge \in Edges, Fork(edge) PROVE BoundInv'
  <2>1. /\ Passes(edge) /\ Moved /\ UNCHANGED <<inclock, running>>
        /\ global_PID < Task1 + MaxForks /\ global_PID' = global_PID + 1
    BY <1>5 DEF Fork
  <2>2. Alive \subseteq Alive'
    BY <1>5, ForkMoves
  <2>3. global_PID' \in Task1..(Task1 + MaxForks)
    BY <1>1, <2>1, AccountingAssumption DEF Task1
  <2> QED
    BY <1>1, <2>1, <2>2, <2>3, TimePasses, SinceMoved DEF BoundInv
<1>6. ASSUME NEW edge \in Edges, Exit(edge) PROVE BoundInv'
  <2>1. /\ Passes(edge) /\ Moved /\ UNCHANGED global_PID
        /\ inclock' = inclock \ {running'}
    BY <1>6 DEF Exit, Leave
  <2>2. Alive' = Alive \ {running}
    BY <1>6, LeaveMoves DEF Exit
  <2> QED
    BY <1>1, <1>2, <2>1, <2>2, TimePasses, SinceMoved DEF BoundInv
<1>7. ASSUME NEW edge \in Edges, Yield(edge) \/ Read(edge) PROVE BoundInv'
  <2>1. /\ Passes(edge) /\ Moved /\ UNCHANGED global_PID
        /\ inclock' = inclock \ {running'}
    BY <1>7 DEF Yield, Read
  <2>2. Alive' = Alive
    BY <1>7, YieldMoves, ReadMoves
  <2> QED
    BY <1>1, <1>2, <2>1, <2>2, TimePasses, SinceMoved DEF BoundInv
<1>8. CASE Elapse \/ ForkAgain \/ UNCHANGED vars
  <2>1. /\ UNCHANGED <<global_PID, inclock, since, running>>
        /\ now' = now \/ (now < MaxTime /\ now' = now + 1)
    BY <1>8 DEF Elapse, ForkAgain, vars, queues
  <2>2. Alive' = Alive
    BY <1>8, OthersMove
  <2>3. now' <= MaxTime
    BY <1>1, <2>1, AccountingAssumption
  <2> QED
    BY <1>1, <2>1, <2>2, <2>3 DEF BoundInv
<1> QED
  BY <1>3, <1>4, <1>5, <1>6, <1>7, <1>8 DEF Next

\* An account that is sound and begins no later than the clock stands is in range.
LEMMA SoundInRange ==
  ASSUME NEW s \in Stat, Sound(s), s.elapsed <= now, now \in Nat, now <= MaxTime
  PROVE  s \in [user : 0..MaxTime, system : 0..MaxTime, blocked : 0..MaxTime,
                ready : 0..MaxTime, elapsed : 0..MaxTime]
<1>1. /\ s.user \in Int /\ s.system \in Int /\ s.blocked \in Int /\ s.ready \in Int
      /\ s.elapsed \in Int
      /\ s = [user |-> s.user, system |-> s.system, blocked |-> s.blocked,
              ready |-> s.ready, elapsed |-> s.elapsed]
  BY DEF Stat
<1>2. /\ s.user >= 0 /\ s.system >= 0 /\ s.blocked >= 0 /\ s.ready >= 0
      /\ s.user + s.system + s.blocked + s.ready <= s.elapsed
  BY DEF Sound, Total
<1>3. /\ s.user \in 0..MaxTime /\ s.system \in 0..MaxTime /\ s.blocked \in 0..MaxTime
      /\ s.ready \in 0..MaxTime /\ s.elapsed \in 0..MaxTime
  BY <1>1, <1>2, AccountingAssumption
<1> QED
  BY <1>1, <1>3

\* No account runs below zero, where an unsigned long would have wrapped, or
\* ahead of the clock, and what it adds up to has passed when it was last
\* charged: by update_stats, by the handlers and by init_stats, in every order of
\* handlers and edges of the clock.
THEOREM AccountsWithinTime ==
  Spec => []( /\ TypeOK
              /\ \A t \in Slots : Total(p_stats[t]) <= p_stats[t].elapsed )
<1> DEFINE Within ==
      /\ TypeOK
      /\ \A t \in Slots : Total(p_stats[t]) <= p_stats[t].elapsed
<1>1. BoundInv /\ StatsInv /\ QInv /\ PidInv => Within
  <2> SUFFICES ASSUME BoundInv, StatsInv, QInv, PidInv PROVE Within
    OBVIOUS
  <2>1. /\ now \in Nat /\ now <= MaxTime /\ p_stats \in [Slots -> Stat]
        /\ \A t \in Slots : p_stats[t].elapsed <= now /\ Sound(p_stats[t])
    BY DEF BoundInv, StatsInv
  <2>2. p_stats \in [Slots -> [user : 0..MaxTime, system : 0..MaxTime,
                               blocked : 0..MaxTime, ready : 0..MaxTime,
                               elapsed : 0..MaxTime]]
    BY <2>1, SoundInRange
  <2>3. PID \in [Slots -> -1..(Task1 + MaxForks)] /\ now \in 0..MaxTime
    BY <2>1, AccountingAssumption DEF BoundInv, PidInv, Task1
  <2>4. /\ running \in Slots
        /\ \A q \in {ready, blocked, freequeue} : Members(q) \subseteq Slots
    BY QInvIs DEF QInv
  <2>5. TypeOK
    BY <2>2, <2>3, <2>4 DEF BoundInv, TypeOK
  <2> QED
    BY <2>1, <2>5 DEF Sound
<1> QED
  BY <1>1, InitQInv, NextQInv, InitStatsInv, NextIsFair, InitPidInv, NextPidInv,
     InitBoundInv, NextBoundInv, PTL DEF Spec
=============================================================================
