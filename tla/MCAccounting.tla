---------------------------- MODULE MCAccounting ----------------------------
(***************************************************************************)
(* Instances of Accounting: the values of its constants are in the .cfg    *)
(* files.                                                                  *)
(***************************************************************************)
EXTENDS Accounting
=============================================================================
