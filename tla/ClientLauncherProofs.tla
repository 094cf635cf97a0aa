------------------------ MODULE ClientLauncherProofs ------------------------
(***************************************************************************)
(* For any number of clients, the launcher's count is never below the      *)
(* clients that are alive, whatever the handler overwrites or main's own   *)
(* waitpid takes from it.                                                  *)
(***************************************************************************)
EXTENDS ClientLauncher, FiniteSetTheorems, TLAPS

Typed ==
  /\ i \in 0..nclients
  /\ child \in [Clients -> {"none", "alive", "zombie", "reaped"}]
  /\ current_concurrent \in Int
  /\ loaded \in Int
  /\ pc \in {"fork", "load", "store", "compare", "record", "wait", "reported", "failed"}

\* The children that no waitpid has taken.
Unreaped == In("alive") \cup In("zombie")

\* CountCoversAlive alone does not survive the handler, which takes a client off
\* the count that may have ended long ago: the count covers those, too.
Covered ==
  /\ pc \notin {"load", "store"} => Cardinality(Unreaped) <= current_concurrent
  /\ pc \in {"load", "store"} => Cardinality(Unreaped) <= current_concurrent + 1
  /\ pc = "store" => Cardinality(Unreaped) <= loaded + 1

IInv == Typed /\ Covered

-----------------------------------------------------------------------------
\* Every set of clients is finite.
LEMMA SomeClients ==
  ASSUME NEW S \in SUBSET Clients
  PROVE  IsFiniteSet(S) /\ Cardinality(S) \in Nat
<1>1. IsFiniteSet(Clients)
  BY LauncherAssumption, FS_Interval DEF Clients
<1> QED
  BY <1>1, FS_Subset, FS_CardinalityType

\* Not more clients are alive than there are to be reaped.
LEMMA AliveUnreaped == Cardinality(In("alive")) <= Cardinality(Unreaped)
<1>1. In("alive") \in SUBSET Unreaped /\ Unreaped \in SUBSET Clients
  BY DEF In, Unreaped
<1> QED
  BY <1>1, SomeClients, FS_Subset

\* There are as many to be reaped as are alive and have ended.
LEMMA AliveAndZombies ==
  Cardinality(Unreaped) = Cardinality(In("alive")) + Cardinality(In("zombie"))
<1>1. In("alive") \in SUBSET Clients /\ In("zombie") \in SUBSET Clients
  BY DEF In
<1>2. In("alive") \cap In("zombie") = {}
  BY DEF In
<1>3. /\ IsFiniteSet(In("alive")) /\ Cardinality(In("alive")) \in Nat
      /\ IsFiniteSet(In("zombie")) /\ Cardinality(In("zombie")) \in Nat
  BY <1>1, SomeClients
<1>4. Cardinality(In("alive") \cup In("zombie")) =
        Cardinality(In("alive")) + Cardinality(In("zombie"))
          - Cardinality(In("alive") \cap In("zombie"))
  BY <1>3, FS_Union
<1>5. Cardinality(In("alive") \cap In("zombie")) = 0
  BY <1>2, FS_EmptySet
<1> QED
  BY <1>3, <1>4, <1>5 DEF Unreaped

\* A step that starts no client leaves at most as many to be reaped.
LEMMA NotMore ==
  ASSUME Unreaped' \subseteq Unreaped
  PROVE  /\ Cardinality(Unreaped) \in Nat /\ Cardinality(Unreaped') \in Nat
         /\ Cardinality(Unreaped') <= Cardinality(Unreaped)
<1>1. Unreaped \in SUBSET Clients /\ Unreaped' \in SUBSET Clients
  BY DEF In, Unreaped
<1> QED
  BY <1>1, SomeClients, FS_Subset

\* A fork adds one.
LEMMA ForkAddsOne ==
  ASSUME Typed, Fork
  PROVE  /\ Cardinality(Unreaped) \in Nat /\ Cardinality(Unreaped') \in Nat
         /\ Cardinality(Unreaped') <= Cardinality(Unreaped) + 1
<1>1. Unreaped \in SUBSET Clients /\ Unreaped' \in SUBSET Clients
  BY DEF In, Unreaped
<1>2. Unreaped' \subseteq Unreaped \cup {i + 1}
  BY DEF Typed, Fork, In, Unreaped
<1>3. Cardinality(Unreaped \cup {i + 1}) <= Cardinality(Unreaped) + 1
      /\ IsFiniteSet(Unreaped \cup {i + 1})
  <2>1. IsFiniteSet(Unreaped) /\ Cardinality(Unreaped) \in Nat
    BY <1>1, SomeClients
  <2>2. /\ IsFiniteSet(Unreaped \cup {i + 1})
        /\ Cardinality(Unreaped \cup {i + 1}) =
             IF i + 1 \in Unreaped THEN Cardinality(Unreaped) ELSE Cardinality(Unreaped) + 1
    BY <2>1, FS_AddElement
  <2> QED
    BY <2>1, <2>2
<1>4. Cardinality(Unreaped') <= Cardinality(Unreaped \cup {i + 1})
  BY <1>2, <1>3, FS_Subset
<1>5. Cardinality(Unreaped \cup {i + 1}) \in Nat
  BY <1>3, FS_CardinalityType
<1> QED
  BY <1>1, <1>3, <1>4, <1>5, SomeClients

\* The handler leaves those that are alive, and takes the others off the count.
LEMMA HandlerTakesZombies ==
  ASSUME Typed, trat_sigchld
  PROVE  /\ Cardinality(In("zombie")) \in Nat
         /\ Cardinality(Unreaped) \in Nat /\ Cardinality(Unreaped') \in Nat
         /\ Cardinality(Unreaped') = Cardinality(Unreaped) - Cardinality(In("zombie"))
<1>1. Unreaped' = In("alive")
  BY DEF Typed, trat_sigchld, In, Unreaped
<1>2. In("alive") \in SUBSET Clients /\ In("zombie") \in SUBSET Clients
      /\ Unreaped \in SUBSET Clients
  BY DEF In, Unreaped
<1>3. Cardinality(Unreaped') = Cardinality(In("alive"))
  BY <1>1
<1> QED
  BY <1>2, <1>3, AliveAndZombies, SomeClients

-----------------------------------------------------------------------------
\* The invariant holds at the start.
LEMMA InitIInv == Init => IInv
<1> SUFFICES ASSUME Init PROVE IInv
  OBVIOUS
<1>1. Typed
  BY LauncherAssumption DEF Init, Typed
<1>2. Unreaped = {}
  BY DEF Init, In, Unreaped
<1>3. Cardinality(Unreaped) = 0
  BY <1>2, FS_EmptySet
<1> QED
  BY <1>1, <1>3 DEF Init, IInv, Covered

\* Every step keeps it.
LEMMA NextIInv == IInv /\ [Next]_vars => IInv'
<1> SUFFICES ASSUME IInv, [Next]_vars PROVE IInv'
  OBVIOUS
<1> USE DEF IInv
<1>1. CASE Fork
  <2>1. Typed'
    BY <1>1, LauncherAssumption DEF Typed, Fork, counts, Clients
  <2>2. Covered'
    BY <1>1, ForkAddsOne DEF Typed, Covered, Fork, counts
  <2> QED
    BY <2>1, <2>2
<1>2. CASE \/ ForkError \/ Load \/ Store \/ Compare \/ Record \/ AllStarted \/ Report
           \/ UNCHANGED vars
  <2>1. Typed'
    BY <1>2 DEF Typed, ForkError, Load, Store, Compare, Record, AllStarted, Report,
                vars, counts
  <2>2. Unreaped' = Unreaped
    BY <1>2 DEF ForkError, Load, Store, Compare, Record, AllStarted, Report, vars,
                In, Unreaped
  <2>3. Cardinality(Unreaped') = Cardinality(Unreaped) /\ Cardinality(Unreaped) \in Nat
    BY <2>2, NotMore
  <2>4. Covered'
    BY <1>2, <2>3 DEF Typed, Covered, ForkError, Load, Store, Compare, Record,
                      AllStarted, Report, vars, counts
  <2> QED
    BY <2>1, <2>4
<1>3. CASE WaitOne \/ \E c \in Clients : ClientEnds(c)
  <2>1. Typed'
    BY <1>3 DEF Typed, WaitOne, ClientEnds, counts, In
  <2>2. Unreaped' \subseteq Unreaped
    BY <1>3 DEF Typed, WaitOne, ClientEnds, In, Unreaped
  <2>3. UNCHANGED <<current_concurrent, loaded, pc>>
    BY <1>3 DEF WaitOne, ClientEnds, counts
  <2>4. Covered'
    BY <2>2, <2>3, NotMore DEF Typed, Covered
  <2> QED
    BY <2>1, <2>4
<1>4. CASE trat_sigchld
  <2>1. Typed'
    BY <1>4, HandlerTakesZombies DEF Typed, trat_sigchld
  <2>2. /\ current_concurrent' = current_concurrent - Cardinality(In("zombie"))
        /\ loaded' = loaded /\ pc' = pc
    BY <1>4 DEF trat_sigchld
  <2>3. Covered'
    BY <1>4, <2>2, HandlerTakesZombies DEF Typed, Covered
  <2> QED
    BY <2>1, <2>3
<1> QED
  BY <1>1, <1>2, <1>3, <1>4 DEF Next, Main

\* The invariant holds throughout.
LEMMA IInvHolds == Spec => []IInv
BY InitIInv, NextIInv, PTL DEF Spec

\* The count is never below the clients that are alive, but for the one being
\* counted: launchClient.c's current_concurrent++ and its handler.
THEOREM CountCovers == Spec => []CountCoversAlive
<1>1. ASSUME IInv
      PROVE  CountCoversAlive
  <2>1. In("alive") \in SUBSET Clients
    BY DEF In
  <2>2. Unreaped \in SUBSET Clients
    BY DEF In, Unreaped
  <2>3. Cardinality(Unreaped) \in Nat /\ Cardinality(In("alive")) \in Nat
    BY <2>1, <2>2, SomeClients
  <2> QED
    BY <1>1, <2>3, AliveUnreaped DEF IInv, Typed, Covered, CountCoversAlive
<1> QED
  BY <1>1, IInvHolds, PTL

-----------------------------------------------------------------------------
(***************************************************************************)
(* The variables of the launcher.  That the counts stay in range is not a  *)
(* matter of types: the lower end is the cover above, the upper one that   *)
(* nothing is counted before it is started.                                *)
(***************************************************************************)
Bounded ==
  /\ pending \in BOOLEAN
  /\ current_concurrent <= i
  /\ loaded \in -1..i
  /\ max_concurrent \in 0..i
  /\ pc \in {"load", "store"} => current_concurrent < i /\ i > 0
  /\ pc = "store" => loaded < i

LEMMA CountFromBelow ==
  ASSUME IInv
  PROVE  /\ current_concurrent >= -1
         /\ pc \notin {"load", "store"} => current_concurrent >= 0
<1>1. Unreaped \in SUBSET Clients
  BY DEF In, Unreaped
<1>2. Cardinality(Unreaped) \in Nat
  BY <1>1, SomeClients
<1> QED
  BY <1>2 DEF IInv, Typed, Covered

LEMMA NextBounded == IInv /\ Bounded /\ [Next]_vars => Bounded'
<1> SUFFICES ASSUME IInv, Bounded, [Next]_vars PROVE Bounded'
  OBVIOUS
<1>1. /\ i \in Nat /\ nclients \in Nat /\ current_concurrent \in Int /\ loaded \in Int
      /\ max_concurrent \in Nat
  BY LauncherAssumption DEF IInv, Typed, Bounded
<1>2. CASE Fork \/ ForkError \/ AllStarted \/ Report \/ UNCHANGED vars
  BY <1>1, <1>2 DEF Bounded, Fork, ForkError, AllStarted, Report, counts, vars
<1>3. CASE Load \/ Store
  BY <1>1, <1>3, CountFromBelow DEF Bounded, Load, Store
<1>4. CASE Compare \/ Record
  BY <1>1, <1>4, CountFromBelow DEF Bounded, Compare, Record, counts
<1>5. CASE WaitOne \/ \E c \in Clients : ClientEnds(c)
  BY <1>1, <1>5 DEF Bounded, WaitOne, ClientEnds, counts
<1>6. CASE trat_sigchld
  <2>1. Cardinality(In("zombie")) \in Nat
    BY <1>6, HandlerTakesZombies DEF IInv
  <2>2. pending' \in BOOLEAN
    BY <1>6 DEF trat_sigchld
  <2>3. /\ current_concurrent' = current_concurrent - Cardinality(In("zombie"))
        /\ UNCHANGED <<i, max_concurrent, loaded, pc>>
    BY <1>6 DEF trat_sigchld
  <2> QED
    BY <1>1, <2>1, <2>2, <2>3 DEF Bounded
<1> QED
  BY <1>2, <1>3, <1>4, <1>5, <1>6 DEF Next, Main

\* The count of launchClient.c is one below nothing at the least, when a client
\* ends before it is counted, and never above the clients started; nor is the
\* maximum it reports.
THEOREM CountsInRange == Spec => []TypeOK
<1>1. Init => Bounded
  <2>1. Init => pending \in BOOLEAN
    BY DEF Init
  <2> QED
    BY <2>1, LauncherAssumption DEF Init, Bounded
<1>2. ASSUME IInv, Bounded PROVE TypeOK
  BY <1>2, CountFromBelow, LauncherAssumption DEF IInv, Typed, Bounded, TypeOK
<1> QED
  BY <1>1, <1>2, IInvHolds, NextBounded, PTL DEF Spec
=============================================================================
