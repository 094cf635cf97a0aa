------------------------- MODULE SocketServerProofs -------------------------
(***************************************************************************)
(* The bounded server keeps its bound, for every set of clients and every  *)
(* bound: merged signals and lost decrements make the count too high,      *)
(* never too low.                                                          *)
(***************************************************************************)
EXTENDS SocketServer, FiniteSetTheorems, TLAPS

Typed ==
  /\ client \in [Clients -> ClientState]
  /\ forksAlive \in Int
  /\ pc \in {"accept", "bound", "fork", "load", "store", "exited"}
  /\ loaded \in Int
  /\ pending \in BOOLEAN

\* The one SIGCHLD that is still to be handled.
Signal == IF pending THEN 1 ELSE 0

\* At most one connection is between accept and fork.
OneAtATime ==
  /\ pc \notin {"bound", "fork"} => In("accepted") = {}
  /\ pc \in {"bound", "fork"} => \E c \in Clients : In("accepted") \subseteq {c}

\* The count, once the increment under way is done, covers the children alive
\* and the decrement that is pending.
Covered ==
  /\ pc \in {"accept", "bound", "fork", "exited"} => Alive + Signal <= forksAlive
  /\ pc \in {"load", "store"} => Alive + Signal <= forksAlive + 1
  /\ pc = "store" => Alive + Signal <= loaded + 1
  /\ pc = "fork" => forksAlive < maxChild

Inv == Typed /\ OneAtATime /\ Covered /\ BoundKept

-----------------------------------------------------------------------------
\* The children alive are counted by a natural number.
LEMMA AliveNat ==
  Alive \in Nat /\ IsFiniteSet(In("served"))
<1>1. In("served") \subseteq Clients
  BY DEF In
<1> QED
  BY <1>1, BoundAssumption, FS_Subset, FS_CardinalityType DEF Alive

\* As long as nobody's service starts or ends, as many are alive.
LEMMA SameAlive ==
  ASSUME In("served")' = In("served")
  PROVE  Alive' = Alive
BY DEF Alive

\* The end of a service leaves one less.
LEMMA OneLess ==
  ASSUME NEW c \in Clients, Typed, ChildEnds(c)
  PROVE  Alive' = Alive - 1
<1>1. In("served")' = In("served") \ {c} /\ c \in In("served")
  BY DEF ChildEnds, In, Typed
<1> QED
  BY <1>1, AliveNat, FS_RemoveElement DEF Alive

\* A fork starts at most one.
LEMMA OneMore ==
  ASSUME Typed, OneAtATime, Fork
  PROVE  Alive' <= Alive + 1
<1>1. PICK c \in Clients : In("accepted") \subseteq {c}
  BY DEF OneAtATime, Fork
<1>2. In("served")' = In("served") \cup In("accepted")
  BY DEF Fork, In, Typed
<1>3. In("served")' \in {In("served"), In("served") \cup {c}}
  BY <1>1, <1>2
<1> DEFINE S == In("served")
<1>4. IsFiniteSet(S) /\ Cardinality(S) \in Nat
  BY AliveNat DEF Alive
<1>5. Cardinality(S \cup {c}) \in {Cardinality(S), Cardinality(S) + 1}
  BY <1>4, FS_AddElement
<1>6. Cardinality(S') \in {Cardinality(S), Cardinality(S) + 1}
  BY <1>3, <1>5
<1> QED
  BY <1>4, <1>6 DEF Alive

\* Every step keeps the invariant.
LEMMA InvStep == Inv /\ [Next]_vars => Inv'
<1> SUFFICES ASSUME Inv, [Next]_vars PROVE Inv'
  OBVIOUS
<1> USE BoundAssumption, AliveNat DEF Inv
<1>1. CASE UNCHANGED vars
  BY <1>1 DEF vars, Typed, OneAtATime, Covered, Signal, BoundKept, In, Alive
<1>2. ASSUME NEW c \in Clients, Connect(c) PROVE Inv'
  <2>1. In("served")' = In("served") /\ In("accepted")' = In("accepted")
    BY <1>2 DEF Connect, In, Typed
  <2>2. Typed'
    BY <1>2 DEF Connect, Typed, ClientState
  <2> QED
    BY <1>2, <2>1, <2>2, SameAlive DEF Connect, OneAtATime, Covered, Signal, BoundKept
<1>3. ASSUME NEW c \in Clients, acceptNewConnections(c) PROVE Inv'
  <2>1. In("served")' = In("served") /\ In("accepted")' = In("accepted") \cup {c}
    BY <1>3 DEF acceptNewConnections, In, Typed
  <2>2. Typed'
    BY <1>3 DEF acceptNewConnections, Typed, ClientState
  <2>3. OneAtATime'
    BY <1>3, <2>1 DEF acceptNewConnections, OneAtATime
  <2> QED
    BY <1>3, <2>1, <2>2, <2>3, SameAlive
    DEF acceptNewConnections, Covered, Signal, BoundKept
<1>4. CASE AcceptFails
  <2>1. In("served")' = In("served") /\ In("accepted")' = In("accepted")
    BY <1>4 DEF AcceptFails, In
  <2> QED
    BY <1>4, <2>1, SameAlive
    DEF AcceptFails, Typed, OneAtATime, Covered, Signal, BoundKept
<1>5. CASE PassBound
  <2>1. In("served")' = In("served") /\ In("accepted")' = In("accepted")
    BY <1>5 DEF PassBound, In
  <2> QED
    BY <1>5, <2>1, SameAlive
    DEF PassBound, below_bound, Typed, OneAtATime, Covered, Signal, BoundKept
<1>6. CASE Fork
  <2>1. Typed'
    BY <1>6 DEF Fork, Typed, ClientState
  <2>2. OneAtATime'
    BY <1>6 DEF Fork, Typed, OneAtATime, In
  <2>3. Alive' <= Alive + 1 /\ Alive' \in Nat
    <3>1. In("served")' \subseteq Clients
      BY DEF In
    <3> QED
      BY <1>6, <3>1, OneMore, FS_Subset, FS_CardinalityType DEF Alive
  <2>4. Alive + Signal <= forksAlive /\ forksAlive < maxChild /\ Signal \in {0, 1}
    BY <1>6 DEF Fork, Covered, Typed, Signal
  <2>5. Alive' + Signal <= forksAlive + 1 /\ Alive' <= maxChild
    <3>1. forksAlive \in Int /\ maxChild \in Int /\ Alive \in Int /\ Alive' \in Int
      BY <2>3 DEF Typed
    <3>2. \A a, b, f, m \in Int, s \in {0, 1} :
            a + s <= f /\ f < m /\ b <= a + 1 => b + s <= f + 1 /\ b <= m
      OBVIOUS
    <3> QED
      BY <2>3, <2>4, <3>1, <3>2
  <2>6. Covered' /\ BoundKept'
    BY <1>6, <2>5 DEF Fork, Covered, Signal, BoundKept
  <2> QED
    BY <2>1, <2>2, <2>6
<1>7. CASE LoadCount
  <2>1. In("served")' = In("served") /\ In("accepted")' = In("accepted")
    BY <1>7 DEF LoadCount, In
  <2> QED
    BY <1>7, <2>1, SameAlive
    DEF LoadCount, Typed, OneAtATime, Covered, Signal, BoundKept
<1>8. CASE StoreCount
  <2>1. In("served")' = In("served") /\ In("accepted")' = In("accepted")
    BY <1>8 DEF StoreCount, In
  <2> QED
    BY <1>8, <2>1, SameAlive
    DEF StoreCount, Typed, OneAtATime, Covered, Signal, BoundKept
<1>9. ASSUME NEW c \in Clients, ChildEnds(c) PROVE Inv'
  <2>1. Typed'
    BY <1>9 DEF ChildEnds, Typed, ClientState
  <2>2. OneAtATime'
    BY <1>9 DEF ChildEnds, Typed, OneAtATime, In
  <2>3. Alive' = Alive - 1
    BY <1>9, OneLess
  <2>4. Alive' + Signal' <= Alive + Signal
    BY <1>9, <2>3 DEF ChildEnds, Signal, Typed
  <2>5. Covered' /\ BoundKept'
    BY <1>9, <2>3, <2>4 DEF ChildEnds, Covered, BoundKept, Typed, Signal
  <2> QED
    BY <2>1, <2>2, <2>5
<1>10. CASE proc_exit
  <2>1. In("served")' = In("served") /\ In("accepted")' = In("accepted")
    BY <1>10 DEF proc_exit, In, Typed
  <2>2. Typed'
    <3>1. client' \in [Clients -> ClientState]
      BY <1>10 DEF proc_exit, Typed, ClientState
    <3>2. forksAlive' \in Int
      BY <1>10 DEF proc_exit, Typed
    <3>3. pending' \in BOOLEAN
      BY <1>10 DEF proc_exit
    <3> QED
      BY <1>10, <3>1, <3>2, <3>3 DEF proc_exit, Typed
  <2> QED
    BY <1>10, <2>1, <2>2, SameAlive
    DEF proc_exit, Typed, OneAtATime, Covered, Signal, BoundKept
<1> QED
  BY <1>1, <1>2, <1>3, <1>4, <1>5, <1>6, <1>7, <1>8, <1>9, <1>10 DEF Next, MainLoop

\* The invariant holds at the start.
LEMMA InitInv == Init => Inv
<1> SUFFICES ASSUME Init PROVE Inv
  OBVIOUS
<1>1. In("served") = {} /\ In("accepted") = {}
  BY DEF Init, In
<1>2. Alive = 0
  BY <1>1, FS_EmptySet DEF Alive
<1>3. Typed /\ OneAtATime
  <2>1. client \in [Clients -> ClientState] /\ pending \in BOOLEAN
    BY DEF Init, ClientState
  <2> QED
    BY <1>1, <2>1 DEF Init, Typed, OneAtATime
<1>4. Covered /\ BoundKept
  BY <1>2, BoundAssumption DEF Init, Covered, Signal, BoundKept
<1> QED
  BY <1>3, <1>4 DEF Inv

\* Whatever the clients do and whenever signals come, the bounded server of
\* serverSocket.c never has more children at work than its bound.
THEOREM BoundIsKept == Spec => []BoundKept
<1>1. Inv => BoundKept
  BY DEF Inv
<1> QED
  BY <1>1, InitInv, InvStep, PTL DEF Spec

-----------------------------------------------------------------------------
(***************************************************************************)
(* The count in the other direction: a child is counted after its fork,    *)
(* and signals only take away, so that it is never above the number of     *)
(* children ever started.                                                  *)
(***************************************************************************)
Children == Clients \ (In("away") \cup In("queued") \cup In("accepted"))
Started == Cardinality(Children)

Counted ==
  /\ pc \in {"bound", "fork"} => In("accepted") # {}
  /\ forksAlive <= Started
  /\ pc \in {"load", "store"} => forksAlive < Started
  /\ loaded \in -1..Started
  /\ pc = "store" => loaded < Started

LEMMA StartedNat ==
  IsFiniteSet(Children) /\ Started \in Nat /\ Started <= Cardinality(Clients)
<1>1. Children \subseteq Clients
  BY DEF Children
<1> QED
  BY <1>1, BoundAssumption, FS_Subset, FS_CardinalityType DEF Started

\* A fork starts one child at least.
LEMMA StartedMore ==
  ASSUME Typed, Counted, Fork
  PROVE  Started' > Started
<1>1. PICK c \in Clients : client[c] = "accepted"
  BY DEF Counted, Fork, In
<1>2. c \notin Children /\ Children \cup {c} \subseteq Children'
  BY <1>1 DEF Typed, Fork, Children, In
<1>3. IsFiniteSet(Children') /\ Started' \in Nat
  <2>1. Children' \subseteq Clients
    BY DEF Children
  <2> QED
    BY <2>1, BoundAssumption, FS_Subset, FS_CardinalityType DEF Started
<1>4. IsFiniteSet(Children \cup {c}) /\ Cardinality(Children \cup {c}) = Started + 1
  BY <1>2, StartedNat, FS_AddElement DEF Started
<1>5. Cardinality(Children \cup {c}) <= Started'
  BY <1>2, <1>3, <1>4, FS_Subset DEF Started
<1> QED
  BY <1>3, <1>4, <1>5, StartedNat

\* No other step takes one away.
LEMMA StartedSame ==
  ASSUME Typed, [Next]_vars, ~ Fork
  PROVE  Started' = Started
<1>1. UNCHANGED client => Children' = Children
  BY DEF Children, In
<1>2. \A c \in Clients : Connect(c) \/ acceptNewConnections(c) \/ ChildEnds(c) =>
                          Children' = Children
  BY DEF Typed, Connect, acceptNewConnections, ChildEnds, Children, In
<1>3. proc_exit => Children' = Children
  BY DEF Typed, proc_exit, Children, In
<1>4. AcceptFails \/ PassBound \/ LoadCount \/ StoreCount => UNCHANGED client
  BY DEF AcceptFails, PassBound, LoadCount, StoreCount
<1>5. Children' = Children
  BY <1>1, <1>2, <1>3, <1>4 DEF Next, MainLoop, vars
<1> QED
  BY <1>5 DEF Started

\* The lower end is the invariant above.
LEMMA CountFromBelow ==
  ASSUME Inv
  PROVE  forksAlive \in Int /\ forksAlive >= -1
<1>1. Alive \in Nat /\ Signal \in {0, 1} /\ forksAlive \in Int
  BY AliveNat DEF Inv, Typed, Signal
<1> QED
  BY <1>1 DEF Inv, Typed, Covered

LEMMA NextCounted == Inv /\ Counted /\ [Next]_vars => Counted'
<1> SUFFICES ASSUME Inv, Counted, [Next]_vars PROVE Counted'
  OBVIOUS
<1>1. Typed /\ Started \in Nat /\ forksAlive \in Int /\ loaded \in Int
  BY StartedNat DEF Inv, Typed
<1>2. CASE Fork
  <2>1. Started' > Started /\ Started' \in Nat
    <3>1. Children' \subseteq Clients
      BY DEF Children
    <3> QED
      BY <1>1, <1>2, <3>1, StartedMore, BoundAssumption, FS_Subset, FS_CardinalityType
      DEF Started
  <2> QED
    BY <1>1, <1>2, <2>1 DEF Counted, Fork
<1>3. ASSUME ~ Fork PROVE Counted'
  <2>1. Started' = Started
    BY <1>1, <1>3, StartedSame
  <2>2. ASSUME NEW c \in Clients, Connect(c) PROVE Counted'
    <3>1. In("accepted") \subseteq In("accepted")'
      BY <1>1, <2>2 DEF Typed, Connect, In
    <3> QED
      BY <2>1, <2>2, <3>1 DEF Counted, Connect
  <2>3. ASSUME NEW c \in Clients, acceptNewConnections(c) PROVE Counted'
    <3>1. c \in In("accepted")'
      BY <1>1, <2>3 DEF Typed, acceptNewConnections, In
    <3> QED
      BY <2>1, <2>3, <3>1 DEF Counted, acceptNewConnections
  <2>4. ASSUME NEW c \in Clients, ChildEnds(c) PROVE Counted'
    <3>1. In("accepted") \subseteq In("accepted")'
      BY <1>1, <2>4 DEF Typed, ChildEnds, In
    <3> QED
      BY <2>1, <2>4, <3>1 DEF Counted, ChildEnds
  <2>5. CASE proc_exit
    <3>1. In("accepted") \subseteq In("accepted")'
      BY <1>1, <2>5 DEF Typed, proc_exit, In
    <3>2. forksAlive' = forksAlive - 1 /\ UNCHANGED <<pc, loaded>>
      BY <2>5 DEF proc_exit
    <3> QED
      BY <1>1, <2>1, <3>1, <3>2 DEF Counted
  <2>6. CASE AcceptFails \/ PassBound \/ UNCHANGED vars
    <3>1. In("accepted")' = In("accepted")
      BY <2>6 DEF AcceptFails, PassBound, vars, In
    <3> QED
      BY <2>1, <2>6, <3>1 DEF Counted, AcceptFails, PassBound, vars
  <2>7. CASE LoadCount
    BY <1>1, <2>1, <2>7, CountFromBelow DEF Counted, LoadCount
  <2>8. CASE StoreCount
    BY <1>1, <2>1, <2>8 DEF Counted, StoreCount
  <2> QED
    BY <1>3, <2>2, <2>3, <2>4, <2>5, <2>6, <2>7, <2>8 DEF Next, MainLoop
<1> QED
  BY <1>2, <1>3

\* forksAlive of serverSocket.c is never above the children ever started, whatever
\* decrements are lost or merged, and one below nothing at the least, when a
\* child ends before it is counted.
THEOREM CountInRange == Spec => []TypeOK
<1>1. Init => Counted
  <2> SUFFICES ASSUME Init PROVE Counted
    OBVIOUS
  <2>1. Children = {}
    BY DEF Init, Children, In
  <2>2. Started = 0
    BY <2>1, FS_EmptySet DEF Started
  <2> QED
    BY <2>2 DEF Init, Counted
<1>2. Inv /\ Counted => TypeOK
  <2> SUFFICES ASSUME Inv, Counted PROVE TypeOK
    OBVIOUS
  <2>1. Started \in Nat /\ Started <= Cardinality(Clients) /\ Cardinality(Clients) \in Nat
    BY StartedNat, BoundAssumption, FS_CardinalityType
  <2>2. forksAlive \in -1..Cardinality(Clients) /\ loaded \in -1..Cardinality(Clients)
    BY <2>1, CountFromBelow DEF Counted
  <2> QED
    BY <2>2 DEF Inv, Typed, TypeOK
<1> QED
  BY <1>1, <1>2, InitInv, InvStep, NextCounted, PTL DEF Spec
=============================================================================
