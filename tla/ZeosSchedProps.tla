--------------------------- MODULE ZeosSchedProps ---------------------------
(***************************************************************************)
(* The properties of ZeosSched that follow whole queues: what is on them,  *)
(* in which order, and what happens to it in the end.                      *)
(***************************************************************************)
EXTENDS ZeosSched, SequencesExt

Free    == Entries(kernel.heap, freequeue)
Ready   == Entries(kernel.heap, readyqueue)
Blocked == Entries(kernel.heap, console_blocked)

AllRings == \A h \in Heads : IsRing(kernel.heap, h)

\* Walking the three queues meets every slot that is not running exactly where
\* it belongs: no process falls off the queues and none is on two of them.
EveryTaskInItsQueue ==
  Running =>
    /\ AllRings
    /\ ToSet(Free) = Slots \ kernel.procs
    /\ ToSet(Blocked) = {t \in kernel.procs : Waiting(t)}
    /\ ToSet(Ready) \ {Idle} =
         {t \in kernel.procs \ {Idle, kernel.cur} : ~ Waiting(t)}
    /\ kernel.cur \notin ToSet(Ready) \cup ToSet(Blocked) \cup ToSet(Free)

\* console_blocked and the console's pending requests name the same processes
\* in the same order: who unblocks is who waited longest.
BlockedInRequestOrder ==
  Running /\ AllRings =>
    Blocked = [i \in DOMAIN kernel.reads |-> kernel.reads[i].task]

\* Round robin bounds the wait: with i - 1 processes ahead of it a ready process
\* waits for the rest of the current turn and i - 1 full ones.  No step makes
\* that bound grow, and every tick that does not end the wait shortens it.
WaitBound(t) ==
  kernel.rq + Quantum * (CHOOSE n \in 0..(Len(Ready) - 1) : Ready[n + 1] = t)

WaitShrinks ==
  [][kernel.policy = "RR" /\ kernel'.panic = "no" =>
       \A t \in ToSet(Ready) \cap ToSet(Ready)' :
         /\ WaitBound(t)' <= WaitBound(t)
         /\ Tick => WaitBound(t)' < WaitBound(t)]_kernel

\* The only switch that restores a stale context is that of a process that
\* yields while it is the only one ready.
StaleOnlyIfAlone ==
  [][kernel'.panic = "context" => Yield /\ Ready = <<>>]_kernel

\* The descriptors on their lists implement the queues of processes.
Queues == INSTANCE ProcQueues WITH
  Procs <- Slots, First <- Task1,
  running <- kernel.cur, ready <- Ready, blocked <- Blocked

ImplementsQueues == Queues!Spec

\* A request of n ticks is served n ticks later, whoever else waits: a tick
\* counts for every pending request (the workloads count on read blocking its
\* caller for the number of ticks it asks for).
TickCountsForEveryReader ==
  [][Tick /\ kernel'.panic = "no" =>
       \A i \in DOMAIN kernel.reads : \A j \in DOMAIN kernel'.reads :
         kernel.reads[i].task = kernel'.reads[j].task =>
           kernel'.reads[j].left = kernel.reads[i].left - 1]_kernel

-----------------------------------------------------------------------------
\* Under round robin every ready process gets the CPU (under FCFS a program that
\* never blocks keeps it).
ReadyRuns ==
  \A t \in Slots \ {Idle} :
    (kernel.policy = "RR" /\ t \in kernel.procs /\ ~ Waiting(t)) ~>
      (kernel.cur = t \/ ~ Running)

\* Every read ends: a process that waits for the console becomes ready.
ReadReturns == \A t \in Slots : Waiting(t) ~> (~ Waiting(t) \/ ~ Running)

=============================================================================
