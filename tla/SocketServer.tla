---------------------------- MODULE SocketServer ----------------------------
(***************************************************************************)
(* The forking servers of SOCKETS/serverSocket.c: a process that accepts   *)
(* connections, forks a child for each, and counts its children in         *)
(* forksAlive, which the main loop increments and the SIGCHLD handler      *)
(* decrements.  The bounded server waits while the count is at maxChild;   *)
(* the concurrent one does not look at it (maxChild is then out of reach). *)
(*                                                                         *)
(* The servers are built without optimisation: forksAlive++ loads the      *)
(* variable, adds, and stores, and a signal may come between.  SIGCHLD is  *)
(* not queued: children that end while one is pending raise no other, and  *)
(* the handler is not interrupted by another SIGCHLD.                      *)
(***************************************************************************)
EXTENDS Integers, FiniteSets

CONSTANTS
  Clients,    \* clients that connect, each once
  maxChild,   \* the bound
  MaxFds      \* connections the server may hold open: it closes none

ASSUME BoundAssumption ==
  IsFiniteSet(Clients) /\ maxChild \in Nat \ {0} /\ MaxFds \in Nat

VARIABLES
  client,      \* how far each client's connection is
  forksAlive,  \* the children the server believes it has
  pc,          \* where its main loop is
  loaded,      \* what forksAlive++ has loaded
  pending      \* a SIGCHLD is pending

vars == <<client, forksAlive, pc, loaded, pending>>

\* A connection: not made yet, in the queue of the socket, accepted, served by a
\* child, whose service has ended (a zombie, or reaped).
ClientState == {"away", "queued", "accepted", "served", "zombie", "reaped"}

In(s) == {c \in Clients : client[c] = s}

Init ==
  /\ client = [c \in Clients |-> "away"]
  /\ forksAlive = 0
  /\ pc = "accept"
  /\ loaded = 0
  /\ pending = FALSE

Connect(c) ==
  /\ client[c] = "away"
  /\ client' = [client EXCEPT ![c] = "queued"]
  /\ UNCHANGED <<forksAlive, pc, loaded, pending>>

\* Connections accepted so far; their descriptors stay open in the server.
OpenFds == Cardinality(Clients \ (In("away") \cup In("queued")))

acceptNewConnections(c) ==
  /\ pc = "accept" /\ client[c] = "queued"
  /\ OpenFds < MaxFds
  /\ client' = [client EXCEPT ![c] = "accepted"]
  /\ pc' = "bound"
  /\ UNCHANGED <<forksAlive, loaded, pending>>

\* accept fails for want of a descriptor, whether or not there is a connection:
\* the server ends.
AcceptFails ==
  /\ pc = "accept"
  /\ OpenFds = MaxFds
  /\ pc' = "exited"
  /\ UNCHANGED <<client, forksAlive, loaded, pending>>

\* (Variants that are off by one.)
below_bound_Late(n) == n <= maxChild
below_bound_Early(n) == n + 1 < maxChild

below_bound(n) == n < maxChild

\* while(forksAlive>=maxChild);
PassBound ==
  /\ pc = "bound" /\ below_bound(forksAlive)
  /\ pc' = "fork"
  /\ UNCHANGED <<client, forksAlive, loaded, pending>>

\* The fork that succeeds; one that fails is tried again at once.
Fork ==
  /\ pc = "fork"
  /\ client' = [c \in Clients |-> IF client[c] = "accepted" THEN "served" ELSE client[c]]
  /\ pc' = "load"
  /\ UNCHANGED <<forksAlive, loaded, pending>>

LoadCount ==
  /\ pc = "load"
  /\ loaded' = forksAlive
  /\ pc' = "store"
  /\ UNCHANGED <<client, forksAlive, pending>>

StoreCount ==
  /\ pc = "store"
  /\ forksAlive' = loaded + 1
  /\ pc' = "accept"
  /\ UNCHANGED <<client, loaded, pending>>

\* A child's client is done (or its connection fails): the child exits.
ChildEnds(c) ==
  /\ client[c] = "served"
  /\ client' = [client EXCEPT ![c] = "zombie"]
  /\ pending' = TRUE
  /\ UNCHANGED <<forksAlive, pc, loaded>>

\* The handler.  Its waitpid lacks the options argument: with what the register
\* happens to hold it reaps a child, or it fails.
proc_exit ==
  /\ pending /\ pc # "exited"
  /\ pending' = FALSE
  /\ \/ UNCHANGED client
     \/ \E c \in In("zombie") : client' = [client EXCEPT ![c] = "reaped"]
  /\ forksAlive' = forksAlive - 1
  /\ UNCHANGED <<pc, loaded>>

MainLoop ==
  \/ \E c \in Clients : acceptNewConnections(c)
  \/ AcceptFails
  \/ PassBound
  \/ Fork
  \/ LoadCount
  \/ StoreCount

Next ==
  \/ \E c \in Clients : Connect(c)
  \/ MainLoop
  \/ \E c \in Clients : ChildEnds(c)
  \/ proc_exit

\* The processes are scheduled, signals are delivered, and every client is done
\* in the end (clientSocket.c makes a fixed number of requests).
Spec ==
  /\ Init /\ [][Next]_vars
  /\ WF_vars(MainLoop) /\ WF_vars(proc_exit)
  /\ \A c \in Clients : WF_vars(ChildEnds(c))

-----------------------------------------------------------------------------
\* The count goes below zero by one at most: when a child ends before the
\* server has counted it.
TypeOK ==
  /\ client \in [Clients -> ClientState]
  /\ forksAlive \in -1..Cardinality(Clients)
  /\ pc \in {"accept", "bound", "fork", "load", "store", "exited"}
  /\ loaded \in -1..Cardinality(Clients)
  /\ pending \in BOOLEAN

Alive == Cardinality(In("served"))

\* However signals merge, get lost in an increment or come early, the bounded
\* server never has more than maxChild children at work.
BoundKept == Alive <= maxChild

\* An accepted connection gets its child: at the bound, "the petitions need to
\* wait until another thread ends", and every one ends.
AcceptedIsServed ==
  \A c \in Clients : client[c] = "accepted" ~> client[c] # "accepted"

\* The only wait at the bound that never ends is for a count that is stuck: the
\* count is at the bound though none of the children is left.
StuckOnlyByLostCount ==
  \A c \in Clients :
    <>[](client[c] = "accepted") => <>[](forksAlive >= maxChild /\ Alive = 0)
=============================================================================
