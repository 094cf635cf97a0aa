---------------------------- MODULE ClientLauncher ----------------------------
(***************************************************************************)
(* SOCKETS/launchClient.c: it starts the clients of an experiment, counts  *)
(* in current_concurrent those it believes alive, keeps the maximum, waits *)
(* for them all and reports.                                               *)
(*                                                                         *)
(* The SIGCHLD handler reaps every child that has ended and decrements the *)
(* count for each; it may come between any two instructions of main, which *)
(* is built without optimisation and loads and stores the count anew in    *)
(* every expression.                                                       *)
(***************************************************************************)
EXTENDS Integers, FiniteSets

CONSTANTS
  nclients,   \* clients to start
  ForkFails   \* whether fork may fail

ASSUME LauncherAssumption == nclients \in Nat /\ ForkFails \in BOOLEAN

Clients == 1..nclients

VARIABLES
  i,                   \* clients started
  child,               \* what each client's process is
  current_concurrent,
  max_concurrent,
  loaded,              \* what an expression has loaded of current_concurrent
  pending,             \* a SIGCHLD is pending
  pc

vars == <<i, child, current_concurrent, max_concurrent, loaded, pending, pc>>
counts == <<current_concurrent, max_concurrent, loaded>>

In(s) == {c \in Clients : child[c] = s}

Init ==
  /\ i = 0
  /\ child = [c \in Clients |-> "none"]
  /\ current_concurrent = 0
  /\ max_concurrent = 0
  /\ loaded = 0
  /\ pending = FALSE
  /\ pc = "fork"

Fork ==
  /\ pc = "fork" /\ i < nclients
  /\ i' = i + 1
  /\ child' = [child EXCEPT ![i + 1] = "alive"]
  /\ pc' = "load"
  /\ UNCHANGED <<counts, pending>>

\* fork fails: the launcher gives up, its clients go on.
ForkError ==
  /\ ForkFails /\ pc = "fork" /\ i < nclients
  /\ pc' = "failed"
  /\ UNCHANGED <<i, child, counts, pending>>

\* current_concurrent++
Load ==
  /\ pc = "load"
  /\ loaded' = current_concurrent
  /\ pc' = "store"
  /\ UNCHANGED <<i, child, current_concurrent, max_concurrent, pending>>

Store ==
  /\ pc = "store"
  /\ current_concurrent' = loaded + 1
  /\ pc' = "compare"
  /\ UNCHANGED <<i, child, max_concurrent, loaded, pending>>

\* if (current_concurrent > max_concurrent)
Compare ==
  /\ pc = "compare"
  /\ pc' = IF current_concurrent > max_concurrent THEN "record" ELSE "fork"
  /\ UNCHANGED <<i, child, counts, pending>>

\* max_concurrent = current_concurrent
Record ==
  /\ pc = "record"
  /\ max_concurrent' = current_concurrent
  /\ pc' = "fork"
  /\ UNCHANGED <<i, child, current_concurrent, loaded, pending>>

AllStarted ==
  /\ pc = "fork" /\ i = nclients
  /\ pc' = "wait"
  /\ UNCHANGED <<i, child, counts, pending>>

\* while (waitpid(-1, NULL, 0) > 0): it takes the children the handler leaves.
WaitOne ==
  /\ pc = "wait"
  /\ \E c \in In("zombie") : child' = [child EXCEPT ![c] = "reaped"]
  /\ UNCHANGED <<i, counts, pending, pc>>

\* (A variant that waits for the count to come down, which its own waitpid does
\* not touch.)
no_child_left_ByCount == current_concurrent = 0
no_child_left == In("alive") \cup In("zombie") = {}

Report ==
  /\ pc = "wait" /\ no_child_left
  /\ pc' = "reported"
  /\ UNCHANGED <<i, child, counts, pending>>

ClientEnds(c) ==
  /\ child[c] = "alive"
  /\ child' = [child EXCEPT ![c] = "zombie"]
  /\ pending' = TRUE
  /\ UNCHANGED <<i, counts, pc>>

Running == pc \notin {"reported", "failed"}

\* (A variant of the handler that takes one off for the signal too.)
trat_sigchld_CountsSignals ==
  /\ Running /\ pending
  /\ pending' = FALSE
  /\ child' = [c \in Clients |-> IF child[c] = "zombie" THEN "reaped" ELSE child[c]]
  /\ current_concurrent' = current_concurrent - Cardinality(In("zombie")) - 1
  /\ UNCHANGED <<i, max_concurrent, loaded, pc>>

trat_sigchld ==
  /\ Running /\ pending
  /\ pending' = FALSE
  /\ child' = [c \in Clients |-> IF child[c] = "zombie" THEN "reaped" ELSE child[c]]
  /\ current_concurrent' = current_concurrent - Cardinality(In("zombie"))
  /\ UNCHANGED <<i, max_concurrent, loaded, pc>>

Main ==
  \/ Fork \/ ForkError \/ Load \/ Store \/ Compare \/ Record
  \/ AllStarted \/ WaitOne \/ Report

Next == Main \/ trat_sigchld \/ \E c \in Clients : ClientEnds(c)

\* The launcher is scheduled and signals are delivered.  A client need not end:
\* its server may keep it waiting in read for ever.
Spec ==
  /\ Init /\ [][Next]_vars
  /\ WF_vars(Main) /\ WF_vars(trat_sigchld)

-----------------------------------------------------------------------------
\* The count is negative by one at most: a client may end before it is counted.
TypeOK ==
  /\ i \in 0..nclients
  /\ child \in [Clients -> {"none", "alive", "zombie", "reaped"}]
  /\ current_concurrent \in -1..nclients
  /\ max_concurrent \in -1..nclients
  /\ loaded \in -1..nclients
  /\ pending \in BOOLEAN
  /\ pc \in {"fork", "load", "store", "compare", "record", "wait", "reported", "failed"}

\* However the handler interleaves, the count is never below the clients that
\* are alive, but for the one being counted: losing a decrement only raises it.
CountCoversAlive ==
  Cardinality(In("alive")) <=
    current_concurrent + (IF pc \in {"load", "store"} THEN 1 ELSE 0)

\* The handler may take the last child from under the waiting main: it reports
\* all the same, and when no client is left, unless fork failed.  Only a client
\* that never ends keeps it waiting.
Ends ==
  \/ <>(\/ pc = "failed"
        \/ pc = "reported" /\ \A c \in Clients : child[c] = "reaped")
  \/ \E c \in Clients : <>[](child[c] = "alive")
=============================================================================
