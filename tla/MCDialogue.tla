----------------------------- MODULE MCDialogue -----------------------------
(***************************************************************************)
(* Instances of Dialogue: the values of its constants are in the .cfg      *)
(* files.                                                                  *)
(***************************************************************************)
EXTENDS Dialogue
=============================================================================
