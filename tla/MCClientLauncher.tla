-------------------------- MODULE MCClientLauncher --------------------------
(***************************************************************************)
(* Instances of ClientLauncher: the values of its constants are in the     *)
(* .cfg files.                                                             *)
(***************************************************************************)
EXTENDS ClientLauncher
=============================================================================
