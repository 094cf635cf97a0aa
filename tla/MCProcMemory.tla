---------------------------- MODULE MCProcMemory ----------------------------
(***************************************************************************)
(* ProcMemory on a small memory; the configurations give the constants.    *)
(***************************************************************************)
EXTENDS ProcMemory
=============================================================================
