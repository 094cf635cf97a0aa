----------------------------- MODULE ProcMemory -----------------------------
(***************************************************************************)
(* The memory of the processes of ZeOS: the bytemap of frames, a page      *)
(* table per process, the TLB of the one CPU, and what sys_fork, sys_exit, *)
(* the context switch and user programs do with them.  A frame holds one   *)
(* word, which stands for its 4096 bytes.                                  *)
(*                                                                         *)
(* The order in which processes run and slots are reused is ZeosSched's;   *)
(* here it is arbitrary.                                                   *)
(***************************************************************************)
EXTENDS Integers, FiniteSets

CONSTANTS
  NR_TASKS,         \* slots; slot 0 is idle, slot 1 the first process
  TOTAL_PAGES,      \* logical pages, and frames
  NUM_PAG_KERNEL,   \* pages of the kernel, and the first of the user's
  NUM_PAG_CODE,     \* code pages of a process, shared by all of them
  NUM_PAG_DATA,     \* DATA+STACK pages of a process
  GuardPages,       \* the pages before and after the task array
  Word,             \* what a page may hold
  Blank             \* what the frames hold at boot

Slots == 0..(NR_TASKS - 1)
Idle == 0
Task1 == 1
Page == 0..(TOTAL_PAGES - 1)
Frame == Page
KernelPages == 0..(NUM_PAG_KERNEL - 1)
PAG_LOG_INIT_CODE == NUM_PAG_KERNEL
PAG_LOG_INIT_DATA == PAG_LOG_INIT_CODE + NUM_PAG_CODE
CodePages == PAG_LOG_INIT_CODE..(PAG_LOG_INIT_DATA - 1)
DataPages == PAG_LOG_INIT_DATA..(PAG_LOG_INIT_DATA + NUM_PAG_DATA - 1)
TempPages == {p + NUM_PAG_DATA : p \in DataPages}

\* The frames alloc_frame looks at: every second one past the kernel.
Candidates == {f \in Frame : f >= NUM_PAG_KERNEL /\ (f - NUM_PAG_KERNEL) % 2 = 0}

ASSUME SlotAssumption == NR_TASKS \in Nat /\ NR_TASKS >= 2
ASSUME PageAssumption ==
  /\ NUM_PAG_KERNEL \in Nat \ {0} /\ NUM_PAG_CODE \in Nat \ {0}
  /\ NUM_PAG_DATA \in Nat \ {0} /\ TOTAL_PAGES \in Nat
  /\ DataPages \cup TempPages \subseteq Page
  /\ NUM_PAG_KERNEL + 2 * (NUM_PAG_CODE + NUM_PAG_DATA) <= TOTAL_PAGES
  /\ GuardPages \subseteq KernelPages \ {0} /\ Blank \in Word

VARIABLES
  phys_mem,       \* the bytemap of frames
  pagusr_table,   \* the page table of every slot
  memory,         \* the contents of every frame
  tlb,            \* translations of the current space the CPU has cached
  procs,          \* slots that hold a user process
  cur             \* the slot whose table is in use

vars == <<phys_mem, pagusr_table, memory, tlb, procs, cur>>

Entry == [frame : Frame, present : BOOLEAN]
NoEntry == [frame |-> 0, present |-> FALSE]
NotCached == -1
Flushed == [p \in Page |-> NotCached]

-----------------------------------------------------------------------------
(***************************************************************************)
(* Frames and entries (pm is a bytemap, pt one page table)                 *)
(***************************************************************************)

FreeFrames(pm) == {f \in Candidates : pm[f] = "FREE"}

\* What the n-th of a row of alloc_frame calls returns: a frame, or -1.
alloc_frame(pm, n) ==
  IF n > Cardinality(FreeFrames(pm)) THEN -1
  ELSE CHOOSE f \in FreeFrames(pm) :
         Cardinality({g \in FreeFrames(pm) : g < f}) = n - 1

\* None of the alloc_frame calls of sys_fork returns -1.
enough_frames(pm) == alloc_frame(pm, NUM_PAG_DATA) # -1

MarkUsed(pm, fs) == [f \in Frame |-> IF f \in fs THEN "USED" ELSE pm[f]]

\* free_frame for every frame of fs.
free_frame(pm, fs) ==
  [f \in Frame |-> IF f \in fs /\ f > NUM_PAG_KERNEL THEN "FREE" ELSE pm[f]]

set_ss_pag(f) == [frame |-> f, present |-> TRUE]

get_frame(pt, p) == pt[p].frame

\* del_ss_pag for every page of ps.
del_ss_pag(pt, ps) == [p \in Page |-> IF p \in ps THEN NoEntry ELSE pt[p]]

\* Where an access to page p may go: the translation the CPU has cached, or the
\* one in the table if it has dropped it meanwhile.
Translations(p) ==
  {f \in Frame : \/ tlb[p] = f
                 \/ pagusr_table[cur][p] = set_ss_pag(f)}

-----------------------------------------------------------------------------
\* The frames boot gives to task 1, in the order of set_user_pages.
BootFrame(p) == NUM_PAG_KERNEL + 2 * (p - PAG_LOG_INIT_CODE)

\* init_table_pages, and set_user_pages for task 1.
BootTable(t) ==
  [p \in Page |->
     IF p \in KernelPages \ ({0} \cup GuardPages) THEN set_ss_pag(p)
     ELSE IF p \in GuardPages THEN [frame |-> p, present |-> FALSE]
     ELSE IF t = Task1 /\ p \in CodePages \cup DataPages
          THEN set_ss_pag(BootFrame(p))
     ELSE NoEntry]

\* The frames and tables boot leaves.
BootMemory ==
  /\ phys_mem = [f \in Frame |->
                   IF \/ f \in KernelPages
                      \/ \E p \in CodePages \cup DataPages : f = BootFrame(p)
                   THEN "USED" ELSE "FREE"]
  /\ pagusr_table = [t \in Slots |-> BootTable(t)]
  /\ procs = {Task1}
  /\ cur = Task1

Init ==
  /\ BootMemory
  /\ memory = [f \in Frame |-> Blank]
  /\ tlb = Flushed

\* The program stores a word in a page of its own; the CPU caches where it is.
UserWrite(p, w) ==
  /\ cur # Idle
  /\ \E f \in Translations(p) :
       /\ memory' = [memory EXCEPT ![f] = w]
       /\ tlb' = [tlb EXCEPT ![p] = f]
  /\ UNCHANGED <<phys_mem, pagusr_table, procs, cur>>

\* (A variant that does not load CR3.)
task_switch_NoFlush(t) ==
  /\ cur' = t
  /\ UNCHANGED tlb

\* inner_task_switch: loading CR3 flushes the TLB.
task_switch(t) ==
  /\ cur' = t
  /\ tlb' = Flushed

Switch(t) ==
  /\ t \in procs \cup {Idle}
  /\ task_switch(t)
  /\ UNCHANGED <<phys_mem, pagusr_table, memory, procs>>

\* The child's table once sys_fork has filled it in: its own frames, and the
\* kernel and code pages of its parent.
ChildTable(c, own) ==
  [p \in Page |->
     IF p \in DataPages THEN set_ss_pag(own[p])
     ELSE IF p \in KernelPages \cup CodePages
          THEN set_ss_pag(get_frame(pagusr_table[cur], p))
     ELSE pagusr_table[c][p]]

\* (Variants: sys_fork does not reload CR3 after the copy, or keeps the frames
\* it took when there are too few.)
flush_after_copy_Missing(cached) == cached
give_back_Missing(pm, fs) == pm

flush_after_copy(cached) == Flushed
give_back(pm, fs) == free_frame(pm, fs)

\* The parent's page p is copied to the child's through the parent's page
\* p + NUM_PAG_DATA, mapped to it for that.  Either access may find in the TLB
\* what an earlier one has left there.
CopyData(own) ==
  LET found(p) == {own[p]} \cup ({tlb[p + NUM_PAG_DATA]} \ {NotCached})
      anyOf(S(_)) == {g \in [DataPages -> UNION {S(p) : p \in DataPages}] :
                        \A p \in DataPages : g[p] \in S(p)}
  IN  \E from \in anyOf(Translations), to \in anyOf(found) :
        /\ memory' = [f \in Frame |->
                        IF \E p \in DataPages : to[p] = f
                        THEN memory[from[CHOOSE p \in DataPages : to[p] = f]]
                        ELSE memory[f]]
        /\ tlb' = flush_after_copy(
                    [q \in Page |-> IF q \in DataPages THEN from[q]
                                    ELSE IF q \in TempPages THEN to[q - NUM_PAG_DATA]
                                    ELSE tlb[q]])

\* sys_fork into the free slot c.
Fork(c) ==
  /\ cur # Idle /\ c \notin procs \cup {Idle}
  /\ enough_frames(phys_mem)
  /\ LET own == [p \in DataPages |-> alloc_frame(phys_mem, p - PAG_LOG_INIT_DATA + 1)]
     IN  /\ phys_mem' = MarkUsed(phys_mem, {own[p] : p \in DataPages})
         /\ pagusr_table' = [pagusr_table EXCEPT ![c] = ChildTable(c, own),
                                                 ![cur] = del_ss_pag(@, TempPages)]
         /\ CopyData(own)
  /\ procs' = procs \cup {c}
  /\ UNCHANGED cur

\* sys_fork when the frames run out: those taken are given back, their entries
\* cleared.
ForkAgain(c) ==
  /\ cur # Idle /\ c \notin procs \cup {Idle}
  /\ ~ enough_frames(phys_mem)
  /\ LET taken == FreeFrames(phys_mem)
         set == PAG_LOG_INIT_DATA..(PAG_LOG_INIT_DATA + Cardinality(taken) - 1)
     IN  /\ phys_mem' = give_back(MarkUsed(phys_mem, taken), taken)
         /\ pagusr_table' = [pagusr_table EXCEPT ![c] = del_ss_pag(@, set)]
  /\ UNCHANGED <<memory, tlb, procs, cur>>

\* sys_exit, and the switch to whoever is next.
Exit(t) ==
  /\ cur # Idle
  /\ t \in (procs \ {cur}) \cup {Idle}
  /\ phys_mem' = free_frame(phys_mem, {get_frame(pagusr_table[cur], p) : p \in DataPages})
  /\ pagusr_table' = [pagusr_table EXCEPT ![cur] = del_ss_pag(@, DataPages)]
  /\ procs' = procs \ {cur}
  /\ task_switch(t)
  /\ UNCHANGED memory

Next ==
  \/ \E p \in DataPages, w \in Word : UserWrite(p, w)
  \/ \E t \in Slots : Switch(t)
  \/ \E c \in Slots : Fork(c)
  \/ \E c \in Slots : ForkAgain(c)
  \/ \E t \in Slots : Exit(t)

Spec == Init /\ [][Next]_vars

-----------------------------------------------------------------------------
TypeOK ==
  /\ phys_mem \in [Frame -> {"FREE", "USED"}]
  /\ pagusr_table \in [Slots -> [Page -> Entry]]
  /\ memory \in [Frame -> Word]
  /\ tlb \in [Page -> Frame \cup {NotCached}]
  /\ procs \in SUBSET (Slots \ {Idle})
  /\ cur \in Slots

\* The frames of the data pages of process t.
Owned(t) == {get_frame(pagusr_table[t], p) : p \in DataPages}

\* Whatever the order of forks, failed forks and exits, the frames in use are
\* those of the kernel, the code and the data of the living processes, and no
\* frame is under two data pages: none leaks, none is given out twice.
FramesOwned ==
  /\ {f \in Candidates : phys_mem[f] = "USED"} =
       {BootFrame(p) : p \in CodePages} \cup UNION {Owned(t) : t \in procs}
  /\ \A t, u \in procs, p, q \in DataPages :
       get_frame(pagusr_table[t], p) = get_frame(pagusr_table[u], q) =>
         t = u /\ p = q

\* Every translation the CPU has cached is the one in the table in use.
TlbFresh ==
  \A p \in Page :
    tlb[p] # NotCached => pagusr_table[cur][p] = set_ss_pag(tlb[p])

\* The data pages of the living processes are private to them: only their own
\* stores change them, and a new process starts with a copy of its parent's.
Private == INSTANCE PrivateMemory WITH
  Procs <- Slots \ {Idle}, First <- Task1, Page <- DataPages,
  image <- [t \in procs |->
              [p \in DataPages |-> memory[get_frame(pagusr_table[t], p)]]]

ImplementsPrivate == Private!Spec

\* "Leave the page inaccessible to comply with NULL convention"; "protect the
\* task array by using a couple of invalid pages": in no space in use are page 0
\* and the guard pages present.
HolesStay ==
  \A t \in procs \cup {Idle} : \A p \in {0} \cup GuardPages :
    ~ pagusr_table[t][p].present
=============================================================================
