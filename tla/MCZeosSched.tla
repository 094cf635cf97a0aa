---------------------------- MODULE MCZeosSched ----------------------------
(***************************************************************************)
(* ZeosSched on small instances; the configurations give the constants.    *)
(***************************************************************************)
EXTENDS ZeosSchedProps

RoundRobin(n) == INSTANCE ZeosSched WITH BootPolicy <- "RR", DataFrames <- n
FirstCome(n)  == INSTANCE ZeosSched WITH BootPolicy <- "FCFS", DataFrames <- n

\* What the programs of these instances do: they read, fork and exit.
Workload ==
  \/ Tick
  \/ Resume
  \/ Fork
  \/ ForkAgain
  \/ Exit
  \/ \E n \in ReadTicks : Read(n)

\* The system booted with either policy, with frames for every slot or one short.
EitherPolicy ==
  /\ \E n \in {DataFrames - 1, DataFrames} : RoundRobin(n)!Init \/ FirstCome(n)!Init
  /\ [][Workload]_kernel /\ WF_kernel(Tick) /\ WF_kernel(Resume)
=============================================================================
