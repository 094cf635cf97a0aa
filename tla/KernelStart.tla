----------------------------- MODULE KernelStart -----------------------------
(***************************************************************************)
(* The start of ZeOS, from the loaded image to the first instruction of    *)
(* the user program: main of system.c, which sets up tables, memory, the   *)
(* lists, idle and task 1, and copies the user program, which lies behind  *)
(* the system, to the pages of task 1.                                     *)
(*                                                                         *)
(* The other modules begin where this one ends: StartsAsSpecified compares *)
(* what main leaves with their initial states.  main runs alone, with      *)
(* interrupts off, until the last but one of its calls turns them on.      *)
(***************************************************************************)
EXTENDS BootLoader, Sequences, FiniteSets

CONSTANTS
  NR_TASKS,         \* process descriptors
  freequeue,        \* \
  readyqueue,       \*  } the list heads
  console_blocked,  \* /
  NULL,
  DEFAULT_QUANTUM,
  TOTAL_PAGES, NUM_PAG_KERNEL, NUM_PAG_CODE, NUM_PAG_DATA,
  GuardPages        \* the pages of protected_tasks[0] and protected_tasks[11]

VARIABLES
  step,   \* the call of main that is next, 0 before main
  k       \* what main writes

PAGE_SIZE == 4096
KERNEL_START == 16 * PAGE_SIZE

Mem == INSTANCE ProcMemory WITH
  Word <- {0}, Blank <- 0,
  phys_mem <- k.phys_mem, pagusr_table <- k.pagusr_table, cur <- k.cr3,
  procs <- {t \in 0..(NR_TASKS - 1) : k.PID[t] > 0},
  memory <- k.frames, tlb <- <<>>   \* (BootMemory does not look at them.)

\* What the handlers of ZeosSched will find.
Sched == INSTANCE ZeosSched WITH
  Quantum <- DEFAULT_QUANTUM, NIorbs <- NR_TASKS,
  DataFrames <- Cardinality(Mem!Candidates) - NUM_PAG_CODE - NUM_PAG_DATA,
  ReadTicks <- {}, BootPolicy <- "FCFS", Calls <- {},
  kernel <- [heap |-> k.heap, procs |-> {t \in 0..(NR_TASKS - 1) : k.PID[t] # -1},
             state |-> k.state, saved |-> k.saved,
             page0 |-> [t \in 0..(NR_TASKS - 1) |-> k.pagusr_table[t][0].present],
             cur |-> k.esp0, rq |-> k.remaining_quantum, policy |-> k.policy,
             reads |-> <<>>, frames |-> Cardinality(Mem!FreeFrames(k.phys_mem)),
             pc |-> "user", panic |-> "no"]

Slots == Mem!Slots

\* .bss and .data.task, which the image holds as zeros.
Loaded ==
  [descriptors |-> {},                       \* which of gdt, idt and tss are set
   esp0 |-> NULL,                            \* whose stack a handler runs on
   phys_mem |-> [f \in Mem!Frame |-> "FREE"],
   pagusr_table |-> [t \in Slots |-> [p \in Mem!Page |-> Mem!NoEntry]],
   dir_pages |-> {},                         \* directories that are set
   dir |-> [t \in Slots |-> NULL],           \* dir_pages_baseAddr
   cr3 |-> NULL, paging |-> FALSE,
   heap |-> [next |-> [c \in Sched!Cells |-> NULL],
             prev |-> [c \in Sched!Cells |-> NULL]],
   PID |-> [t \in Slots |-> 0],
   state |-> [t \in Slots |-> "RUN"],
   total_quantum |-> [t \in Slots |-> 0],
   saved |-> [t \in Slots |-> "none"],
   remaining_quantum |-> 0, policy |-> "none",
   frames |-> [f \in Mem!Frame |-> -1],      \* which page of the program each holds
   interrupts |-> FALSE, ticked |-> FALSE, panic |-> FALSE]

\* What the other modules assume of descriptors, list heads and pages.
ASSUME StartAssumption ==
  Mem!SlotAssumption /\ Mem!PageAssumption /\ Sched!SlotAssumption

-----------------------------------------------------------------------------
(***************************************************************************)
(* The functions main calls, from the memory they find to what they leave  *)
(***************************************************************************)
setGdt(s) == [s EXCEPT !.descriptors = @ \cup {"gdt"}]

setIdt(s) == [s EXCEPT !.descriptors = @ \cup {"idt"}, !.esp0 = Mem!Task1]

\* ltr reads the descriptor that setGdt completes.
setTSS(s) ==
  [s EXCEPT !.descriptors = @ \cup {"tss"}, !.esp0 = Mem!Task1,
            !.panic = @ \/ "gdt" \notin s.descriptors]

KernelOf(p) ==
  IF p = 0 \/ p \notin Mem!KernelPages THEN Mem!NoEntry
  ELSE [frame |-> p, present |-> p \notin GuardPages]

init_table_pages(s) ==
  [s EXCEPT !.pagusr_table = [t \in Slots |-> [p \in Mem!Page |-> KernelOf(p)]]]

init_frames(s) ==
  [s EXCEPT !.phys_mem = [f \in Mem!Frame |->
                            IF f \in Mem!KernelPages THEN "USED" ELSE "FREE"]]

init_dir_pages(s) == [s EXCEPT !.dir_pages = Slots]

allocate_DIR(s, t) == [s EXCEPT !.dir[t] = t]

\* With paging on the kernel must stay where it runs.
set_cr3(s, d) ==
  [s EXCEPT !.cr3 = d,
            !.panic = @ \/ /\ s.paging
                           /\ d \notin s.dir_pages \/ s.pagusr_table[d][16] # KernelOf(16)]

set_pe_flag(s) == set_cr3([s EXCEPT !.paging = TRUE], s.cr3)

init_mm(s) ==
  LET s1 == allocate_DIR(init_dir_pages(init_frames(init_table_pages(s))), 0)
  IN  set_pe_flag(set_cr3(s1, s1.dir[0]))

INIT_LIST_HEAD(h, l) == [next |-> [h.next EXCEPT ![l] = l], prev |-> [h.prev EXCEPT ![l] = l]]

init_sched(s) ==
  LET queued[n \in 0..NR_TASKS] ==
        IF n = 0 THEN INIT_LIST_HEAD(s.heap, freequeue)
        ELSE Sched!ListAddTail(queued[n - 1], n - 1, freequeue)
  IN  [s EXCEPT !.PID = [t \in Slots |-> -1],
                !.heap = INIT_LIST_HEAD(queued[NR_TASKS], readyqueue),
                !.policy = "FCFS"]

\* The first free descriptor becomes the process pid.
TakeSlot(s, t, pid) ==
  allocate_DIR([s EXCEPT !.heap = Sched!ListDel(@, t), !.PID[t] = pid,
                         !.total_quantum[t] = DEFAULT_QUANTUM], t)

init_idle(s) ==
  LET t == Sched!ListFirst(s.heap, freequeue)
  IN  [TakeSlot(s, t, 0) EXCEPT !.saved[t] = "boot"]

\* (A variant that goes on with the next frame, as if every one could be taken.)
next_frame_NoHoles(pm) ==
  CHOOSE f \in Mem!Frame : pm[f] = "FREE" /\ \A g \in 0..(f - 1) : pm[g] = "USED"
next_frame(pm) == Mem!alloc_frame(pm, 1)

\* A frame for each of the pages of t, code first.
set_user_pages(s, t) ==
  LET given[n \in 0..(NUM_PAG_CODE + NUM_PAG_DATA)] ==
        IF n = 0 THEN s
        ELSE LET before == given[n - 1]
                 f == next_frame(before.phys_mem)
             IN  [before EXCEPT !.phys_mem[f] = "USED",
                                !.pagusr_table[t][NUM_PAG_KERNEL + n - 1] = Mem!set_ss_pag(f)]
  IN  given[NUM_PAG_CODE + NUM_PAG_DATA]

init_task1(s) ==
  LET t == Sched!ListFirst(s.heap, freequeue)
      s1 == set_user_pages(TakeSlot(s, t, 1), t)
  IN  set_cr3([s1 EXCEPT !.state[t] = "RUN", !.remaining_quantum = s1.total_quantum[t],
                         !.esp0 = t], s1.dir[t])

zeos_console_init(s) == [s EXCEPT !.heap = INIT_LIST_HEAD(@, console_blocked)]

-----------------------------------------------------------------------------
UserPages == 0..((size[2] + PAGE_SIZE - 1) \div PAGE_SIZE - 1)

\* Bytes first to last - 1 behind KERNEL_START are those of the image on disk.
Intact(first, last) ==
  {a \in Places : 512 * a < last /\ 512 * (a + 1) > first} \subseteq
    {a \in Places : memory[a] = a + 1}

\* The page's number if the loader has put it where build says it is.
PageLoaded(j) ==
  LET first == size[1] + j * PAGE_SIZE
      end == size[1] + size[2]
  IN  IF Intact(first, IF first + PAGE_SIZE < end THEN first + PAGE_SIZE ELSE end)
      THEN j ELSE -1

\* Where an access to page p of the space in use goes; -1 for a page fault.
Translate(s, p) ==
  IF ~ s.paging THEN p
  ELSE IF s.pagusr_table[s.cr3][p].present THEN s.pagusr_table[s.cr3][p].frame ELSE -1

SourcePages ==
  (KERNEL_START + size[1]) \div PAGE_SIZE ..
    (KERNEL_START + size[1] + size[2] - 1) \div PAGE_SIZE

\* copy_data(KERNEL_START + *p_sys_size, usr_main, *p_usr_size)
copy_data(s) ==
  LET to == [j \in UserPages |-> Translate(s, NUM_PAG_KERNEL + j)]
  IN  IF \/ \E j \in UserPages : to[j] = -1
         \/ \E p \in SourcePages : Translate(s, p) # p
      THEN [s EXCEPT !.panic = TRUE]
      ELSE [s EXCEPT !.frames = [f \in Mem!Frame |->
                                   IF \E j \in UserPages : to[j] = f
                                   THEN PageLoaded(CHOOSE j \in UserPages : to[j] = f)
                                   ELSE @[f]]]

enable_int(s) == [s EXCEPT !.interrupts = TRUE]

\* It leaves *p_rdtr at USER_ESP + 12, the last word of the pages of task 1, the
\* user program's if that is so long.
LastWord == (NUM_PAG_CODE + NUM_PAG_DATA) * PAGE_SIZE - 4

return_gate(s) ==
  LET f == Translate(s, NUM_PAG_KERNEL + LastWord \div PAGE_SIZE)
  IN  IF f = -1 THEN [s EXCEPT !.panic = TRUE]
      ELSE IF size[2] > LastWord THEN [s EXCEPT !.frames[f] = -1]
      ELSE s

-----------------------------------------------------------------------------
\* (Variants: the program is copied before there are pages for it, as the comment
\* in main warns; interrupts come before the lists are there.)
main_CopiesEarly ==
  <<"setGdt", "setIdt", "setTSS", "copy_data", "init_mm", "init_sched", "init_idle",
    "init_task1", "zeos_console_init", "enable_int", "return_gate">>
main_EnablesEarly ==
  <<"setGdt", "setIdt", "setTSS", "init_mm", "enable_int", "init_sched", "init_idle",
    "init_task1", "zeos_console_init", "copy_data", "return_gate">>

main ==
  <<"setGdt", "setIdt", "setTSS", "init_mm", "init_sched", "init_idle", "init_task1",
    "zeos_console_init", "copy_data", "enable_int", "return_gate">>

UserMode == step = Len(main) + 1

\* The loader jumps to main.  What a system that is not whole does is left out.
Enter ==
  /\ pc = "loaded" /\ step = 0
  /\ Intact(0, size[1])
  /\ step' = 1
  /\ UNCHANGED <<vars, k>>

Performs(f, left) ==
  /\ step \in DOMAIN main /\ main[step] = f /\ ~ k.panic
  /\ k' = left
  /\ step' = step + 1
  /\ UNCHANGED vars

\* The clock interrupts between enable_int and return_gate, on the stack main
\* uses: that of a free descriptor.  FCFS then finds nobody ready and does
\* nothing.  (There is time for one tick at most.)
EarlyTick ==
  /\ k.interrupts /\ ~ k.ticked /\ ~ UserMode /\ ~ k.panic
  /\ k' = [k EXCEPT !.ticked = TRUE,
                    !.panic = \/ "idt" \notin k.descriptors
                              \/ k.policy # "FCFS" \/ k.heap.next[readyqueue] # readyqueue
                              \/ k.heap.next[console_blocked] # console_blocked]
  /\ UNCHANGED <<vars, step>>

Main ==
  \/ Performs("setGdt", setGdt(k))
  \/ Performs("setIdt", setIdt(k))
  \/ Performs("setTSS", setTSS(k))
  \/ Performs("init_mm", init_mm(k))
  \/ Performs("init_sched", init_sched(k))
  \/ Performs("init_idle", init_idle(k))
  \/ Performs("init_task1", init_task1(k))
  \/ Performs("zeos_console_init", zeos_console_init(k))
  \/ Performs("copy_data", copy_data(k))
  \/ Performs("enable_int", enable_int(k))
  \/ Performs("return_gate", return_gate(k))

allvars == <<vars, step, k>>

StartInit == Init /\ step = 0 /\ k = Loaded

StartNext ==
  \/ Next /\ UNCHANGED <<step, k>>
  \/ Enter
  \/ Main
  \/ EarlyTick

\* A call of main that does not panic returns.
Proceeds == step \in DOMAIN main /\ ~ k.panic /\ step' = step + 1

\* The processor goes on.
StartSpec ==
  /\ StartInit /\ [][StartNext]_allvars
  /\ WF_vars(Next) /\ WF_step(Enter) /\ WF_step(Proceeds)

-----------------------------------------------------------------------------
\* When the user program is entered, scheduler and memory are in the initial
\* states of ZeosSched and ProcMemory, whether or not the clock has come early,
\* handlers run on the stack of task 1, and every process has its quantum.
StartsAsSpecified ==
  UserMode =>
    /\ Sched!Init
    /\ Mem!BootMemory
    /\ {"gdt", "idt", "tss"} \subseteq k.descriptors
    /\ \A t \in Slots : k.PID[t] # -1 => k.total_quantum[t] = DEFAULT_QUANTUM

\* The user program fits the pages of a process, but for their last word.
UserFits == size[2] <= LastWord

\* Every image that fits starts, unless a BIOS call fails: the program is entered
\* with all its pages where task 1 sees them.
Starts ==
  Fits(size) /\ UserFits =>
    <>(\/ faults > 0
       \/ UserMode /\ \A j \in UserPages :
                        k.frames[Translate(k, NUM_PAG_KERNEL + j)] = j)
=============================================================================
