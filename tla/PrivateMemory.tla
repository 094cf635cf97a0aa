--------------------------- MODULE PrivateMemory ---------------------------
(***************************************************************************)
(* What the memory management of ZeOS promises to user programs, without   *)
(* frames, page tables or a TLB: every process has data pages of its own,  *)
(* and a new process starts with a copy of its parent's.                   *)
(***************************************************************************)
CONSTANTS
  Procs,   \* processes that may ever exist
  First,   \* the one that exists from the start
  Page,    \* the data pages of a process
  Word,    \* what a page may hold
  Blank    \* what the pages of First hold at first

VARIABLE image   \* the data of every living process

Init == image = [p \in {First} |-> [d \in Page |-> Blank]]

Write(p, d, w) == image' = [image EXCEPT ![p][d] = w]

Fork(p, c) ==
  image' = [q \in DOMAIN image \cup {c} |-> IF q = c THEN image[p] ELSE image[q]]

Exit(p) == image' = [q \in DOMAIN image \ {p} |-> image[q]]

Next ==
  \E p \in DOMAIN image :
    \/ \E d \in Page, w \in Word : Write(p, d, w)
    \/ \E c \in Procs \ DOMAIN image : Fork(p, c)
    \/ Exit(p)

Spec == Init /\ [][Next]_image
=============================================================================
