----------------------------- MODULE ProcQueues -----------------------------
(***************************************************************************)
(* What the scheduler of ZeOS promises, without descriptors, pointers,     *)
(* state fields, quanta or policies: one process runs, the ready ones are  *)
(* served in the order they became ready, the blocked ones wake in the     *)
(* order they blocked, and idle runs when there is nobody else.            *)
(***************************************************************************)
EXTENDS Integers, Sequences

CONSTANTS
  Procs,   \* processes that may ever exist
  Idle,    \* the one that runs when no other can
  First    \* the one that runs first

\* What the constants must be for the theorems about them.
ProcAssumption == Idle \in Procs /\ First \in Procs /\ Idle # First

VARIABLES
  running,   \* the process that has the CPU
  ready,     \* the processes that wait for the CPU, in order
  blocked    \* the processes that wait for the console, in order

vars == <<running, ready, blocked>>

Queued(q) == {q[i] : i \in 1..Len(q)}

Alive == {Idle, running} \cup Queued(ready) \cup Queued(blocked)

Init ==
  /\ running = First
  /\ ready = <<>>
  /\ blocked = <<>>

\* The CPU goes to the first process of q; the rest of q stays ready.
Dispatch(q) ==
  \/ /\ q # <<>>
     /\ running' = Head(q)
     /\ ready' = Tail(q)
  \/ /\ q = <<>>
     /\ running' = Idle
     /\ ready' = <<>>

Fork ==
  /\ running # Idle
  /\ \E p \in Procs \ Alive : ready' = Append(ready, p)
  /\ UNCHANGED <<running, blocked>>

Exit ==
  /\ running # Idle
  /\ Dispatch(ready)
  /\ UNCHANGED blocked

Yield ==
  /\ running # Idle
  /\ Dispatch(Append(ready, running))
  /\ UNCHANGED blocked

Block ==
  /\ running # Idle
  /\ blocked' = Append(blocked, running)
  /\ Dispatch(ready)

\* A preemption in favour of q; idle may leave the CPU without queueing for it.
Preempt(q) ==
  /\ q # <<>>
  /\ \/ Dispatch(Append(q, running))
     \/ running = Idle /\ Dispatch(q)

\* A tick may wake the first blocked process and may preempt.
Clock ==
  \/ /\ Preempt(ready)
     /\ UNCHANGED blocked
  \/ /\ blocked # <<>>
     /\ blocked' = Tail(blocked)
     /\ LET q == Append(ready, Head(blocked))
        IN  \/ Preempt(q)
            \/ ready' = q /\ UNCHANGED running

Next == Fork \/ Exit \/ Yield \/ Block \/ Clock

Spec == Init /\ [][Next]_vars

-----------------------------------------------------------------------------
TypeOK ==
  /\ running \in Procs
  /\ ready \in Seq(Procs)
  /\ blocked \in Seq(Procs)

\* No process is in two places: not twice on a queue, not on two queues, not
\* running and queued; idle never blocks.
OnePlaceEach ==
  /\ \A i, j \in 1..Len(ready) : ready[i] = ready[j] => i = j
  /\ \A i, j \in 1..Len(blocked) : blocked[i] = blocked[j] => i = j
  /\ \A i \in 1..Len(ready) : ready[i] # running
  /\ \A i \in 1..Len(blocked) : blocked[i] # running /\ blocked[i] # Idle
  /\ \A i \in 1..Len(ready), j \in 1..Len(blocked) : ready[i] # blocked[j]

\* Nobody overtakes in the queues: a step leaves a process that stays ready or
\* stays blocked no further back than it was.
NobodyOvertakes ==
  [][/\ \A i \in 1..Len(ready), j \in 1..Len(ready') :
          ready[i] = ready'[j] => j <= i
     /\ \A i \in 1..Len(blocked), j \in 1..Len(blocked') :
          blocked[i] = blocked'[j] => j <= i]_vars
=============================================================================
