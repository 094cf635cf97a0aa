----------------------------- MODULE MCUserWrite -----------------------------
(***************************************************************************)
(* UserWrite with a small screen, small pages and a buffer of six bytes,   *)
(* which words do not divide.                                              *)
(***************************************************************************)
EXTENDS UserWrite

MCLengths == {-1, 0, 1, 4, 5, 6, 7, 11, 12, 13, 14}
MCBuffers == {0, 8, 11, 18, 24, 31}
MCNewlines == {{}, {3}, {0, 5, 8}}
=============================================================================
