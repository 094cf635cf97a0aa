----------------------------- MODULE KernelList -----------------------------
(***************************************************************************)
(* The circular doubly linked lists of list.c.  A list is a head cell; its *)
(* entries are cells embedded in the task structs.  A heap holds the two   *)
(* pointers of every cell, and each operator is one function of list.c     *)
(* that maps the heap it finds to the heap it leaves.                      *)
(***************************************************************************)
EXTENDS Integers, FiniteSets

CONSTANTS
  Cells,   \* addresses of the list_head structs: list heads and entries
  NULL     \* (void *) 0, none of the cells

Heap == [next : [Cells -> Cells \cup {NULL}],
         prev : [Cells -> Cells \cup {NULL}]]

\* (A variant that forgets the successor's back pointer.)
InsertBetween_NoBack(h, new, p, n) ==
  [next |-> [h.next EXCEPT ![new] = n, ![p] = new],
   prev |-> [h.prev EXCEPT ![new] = p]]

\* __list_add, its four stores in source order: with p = new the last one wins.
InsertBetween(h, new, p, n) ==
  [next |-> [h.next EXCEPT ![new] = n, ![p] = new],
   prev |-> [h.prev EXCEPT ![n] = new, ![new] = p]]

ListAdd(h, new, head) == InsertBetween(h, new, head, h.next[head])

ListAddTail(h, new, head) == InsertBetween(h, new, h.prev[head], head)

\* An entry is on some list exactly when its pointers are not NULL: list_del
\* clears them.
Linked(h, c) == h.next[c] # NULL

\* list_del of a linked entry: __list_del, then both pointers cleared.
ListDel(h, e) ==
  LET p == h.prev[e]
      n == h.next[e]
  IN  [next |-> [h.next EXCEPT ![p] = n, ![e] = NULL],
       prev |-> [h.prev EXCEPT ![n] = p, ![e] = NULL]]

ListEmpty(h, head) == h.next[head] = head

ListFirst(h, head) == h.next[head]

-----------------------------------------------------------------------------
(***************************************************************************)
(* What a walk of a list from its head sees.                               *)
(***************************************************************************)

\* The cell n steps after the head; a walk that meets NULL stays there.
Nth(h, head) ==
  LET at[n \in 0..Cardinality(Cells)] ==
        IF n = 0 THEN head
        ELSE IF at[n-1] = NULL THEN NULL ELSE h.next[at[n-1]]
  IN  at

\* The walk from head returns to head.
IsRing(h, head) ==
  LET at == Nth(h, head)
  IN  \E n \in 1..Cardinality(Cells) : at[n] = head

\* The entries of a ring in the order of a walk.
Entries(h, head) ==
  LET at == Nth(h, head)
      len == CHOOSE n \in 1..Cardinality(Cells) :
               /\ at[n] = head
               /\ \A m \in 1..(n-1) : at[m] # head
  IN  [i \in 1..(len - 1) |-> at[i]]
=============================================================================
