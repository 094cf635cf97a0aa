------------------------------ MODULE MCMachine ------------------------------
(***************************************************************************)
(* Machine on a small instance, with programs that may change the policy   *)
(* back and forth until one of them reads, as the workloads of user.c      *)
(* choose theirs before they read.                                         *)
(***************************************************************************)
EXTENDS Machine

VARIABLE hasRead

MCInit == MachineInit /\ hasRead = FALSE

Noted == hasRead' = (hasRead \/ kernel'.reads # <<>>)

MCNext ==
  \/ ForkStep /\ Noted
  \/ ExitStep /\ Noted
  \/ TickStep /\ Noted
  \/ ResumeStep /\ Noted
  \/ YieldStep /\ Noted
  \/ ReadStep /\ Noted
  \/ ~ hasRead /\ PolicyStep /\ Noted

MCSpec == MCInit /\ [][MCNext]_<<kernel, memvars, hasRead>>
=============================================================================
