------------------------------ MODULE ZeosSched ------------------------------
(***************************************************************************)
(* The process scheduler of ZeOS: the three queues of process descriptors  *)
(* (freequeue, readyqueue, console_blocked), the round-robin and FCFS      *)
(* policies, the context switch, and the handlers that drive them: the     *)
(* clock interrupt and the system calls fork, exit, read, yield and        *)
(* set_sched_policy.                                                       *)
(*                                                                         *)
(* There is one CPU and every handler runs with interrupts disabled, so a  *)
(* handler is one step of the model, up to the point where it returns to   *)
(* interruptible code.  A handler that switches stacks continues, in the   *)
(* same step, on the stack of the task it switches to; if that task was    *)
(* switched out in the middle of the clock handler, the rest of that       *)
(* handler is the step Resume, the only one possible then.                 *)
(*                                                                         *)
(* The whole kernel state is one record, and each C function is an         *)
(* operator from the kernel it finds to the kernel it leaves, so that a    *)
(* handler composes them as the code calls them.                           *)
(***************************************************************************)
EXTENDS Integers, Sequences, FiniteSets

CONSTANTS
  NR_TASKS,         \* process descriptors; slot 0 is idle, slot 1 the first process
  freequeue,        \* \
  readyqueue,       \*  } the list heads (model values)
  console_blocked,  \* /
  NULL,             \* the null pointer
  Quantum,          \* DEFAULT_QUANTUM, the total_quantum of every task
  NIorbs,           \* request blocks of the emulated console (zeos_console_init)
  DataFrames,       \* frames left for DATA+STACK pages once task 1 has its own
  NUM_PAG_DATA,     \* DATA+STACK pages of a process
  ReadTicks,        \* sizes a program may give to read
  BootPolicy,       \* policy once main() of user.c has passed its line 95
  Calls             \* system calls the user programs make

Slots == 0..(NR_TASKS - 1)
Idle == 0
Task1 == 1
Heads == {freequeue, readyqueue, console_blocked}
Cells == Slots \cup Heads
Policies == {"RR", "FCFS"}

ASSUME SlotAssumption ==
  /\ NR_TASKS \in Nat /\ NR_TASKS >= 2
  /\ Heads \cap Slots = {} /\ NULL \notin Cells
  /\ freequeue # readyqueue /\ freequeue # console_blocked
  /\ readyqueue # console_blocked
ASSUME SizeAssumption ==
  /\ Quantum \in Nat \ {0}
  /\ NIorbs \in Nat /\ DataFrames \in Nat /\ NUM_PAG_DATA \in Nat \ {0}
  /\ ReadTicks \subseteq Nat
ASSUME PolicyAssumption ==
  /\ BootPolicy \in Policies
  /\ Calls \subseteq {"fork", "exit", "read", "yield", "set_sched_policy"}

INSTANCE KernelList

VARIABLE kernel

(***************************************************************************)
(* Where the context saved in register_esp was saved:                      *)
(*   "none"     never (task 1 before its first switch, an unused slot)     *)
(*   "boot"     init_idle: cpu_idle                                        *)
(*   "fork"     sys_fork: ret_from_fork                                    *)
(*   "read", "yield", "exit"   by sched_next in that system call           *)
(*   "tick"     by schedule() in the clock handler, which then returns     *)
(*   "unblock"  by unblock_process() in the clock handler, which then      *)
(*              still has schedule() to run                                *)
(***************************************************************************)
Contexts == {"none", "boot", "fork", "read", "yield", "exit", "tick", "unblock"}

(***************************************************************************)
(* panic: "no", or why the kernel has left the behaviour of its code:      *)
(*   "null"     a store through a NULL pointer faulted                     *)
(*   "context"  a stack was restored that no longer holds what was saved   *)
(*   "wild"     a list head was taken for a process descriptor             *)
(***************************************************************************)
Kernel ==
  [heap   : Heap,
   procs  : SUBSET Slots,             \* slots that hold a process (PID assigned)
   state  : [Slots -> {"RUN", "READY", "BLOCKED"}],
   saved  : [Slots -> Contexts],      \* what register_esp points to
   page0  : [Slots -> BOOLEAN],       \* logical page 0 is present
   cur    : Slots,                    \* current()
   rq     : Int,                      \* remaining_quantum
   policy : Policies,                 \* the installed function pointers
   reads  : Seq([task : Slots, left : Int]),   \* pending_reads
   frames : Nat,                      \* free frames for DATA+STACK
   pc     : {"user", "schedule"},     \* "schedule": rest of a clock handler
   panic  : {"no", "null", "context", "wild"}]

-----------------------------------------------------------------------------
(***************************************************************************)
(* Lists of process descriptors                                            *)
(***************************************************************************)

\* (A variant that inserts at the head, as list_add does.)
AddHead(k, t, head) ==
  [k EXCEPT !.heap = ListAdd(@, t, head)]

AddTail(k, t, head) == [k EXCEPT !.heap = ListAddTail(@, t, head)]

\* list_del.  The pointers of an entry on no list are NULL, and the two stores
\* of __list_del go to page 0: they fault, or, where sys_fork has made page 0
\* present, are lost in frame 0.
Del(k, t) ==
  IF Linked(k.heap, t) THEN [k EXCEPT !.heap = ListDel(@, t)]
  ELSE IF k.page0[k.cur] THEN k
  ELSE [k EXCEPT !.panic = "null"]

-----------------------------------------------------------------------------
(***************************************************************************)
(* The two policies                                                        *)
(***************************************************************************)

\* (A variant that moves a queued task without unlinking it first.)
update_process_state_rr_NoDel(k, t, dst) ==
  [AddTail(k, t, dst) EXCEPT
     !.state[t] = IF dst = readyqueue THEN "READY" ELSE "BLOCKED"]

update_process_state_rr(k, t, dst) ==
  LET k1 == IF k.state[t] # "RUN" THEN Del(k, t) ELSE k
  IN  [AddTail(k1, t, dst) EXCEPT
         !.state[t] = IF dst = readyqueue THEN "READY" ELSE "BLOCKED"]

\* (A variant that queues idle like any other task.)
update_process_state_fcfs_QueuesIdle(k, t, dst) ==
  AddTail(IF Linked(k.heap, t) THEN Del(k, t) ELSE k, t, dst)

\* (A variant that unlinks without asking whether there is a link.)
update_process_state_fcfs_Always(k, t, dst) ==
  IF t = Idle THEN Del(k, t) ELSE AddTail(Del(k, t), t, dst)

update_process_state_fcfs(k, t, dst) ==
  LET k1 == IF Linked(k.heap, t) THEN Del(k, t) ELSE k
  IN  IF t = Idle THEN k1 ELSE AddTail(k1, t, dst)

update_process_state(k, t, dst) ==
  IF k.policy = "RR" THEN update_process_state_rr(k, t, dst)
  ELSE update_process_state_fcfs(k, t, dst)

\* (Variants: the turn ends one tick late; nobody need be waiting; FCFS takes
\* the CPU from any task.)
needs_sched_Late(k) ==
  /\ ~ ListEmpty(k.heap, readyqueue)
  /\ IF k.policy = "RR" THEN k.rq < 0 ELSE k.cur = Idle
needs_sched_Alone(k) == IF k.policy = "RR" THEN k.rq = 0 ELSE k.cur = Idle
needs_sched_Any(k) ==
  /\ ~ ListEmpty(k.heap, readyqueue)
  /\ k.policy = "RR" => k.rq = 0

needs_sched(k) ==
  /\ ~ ListEmpty(k.heap, readyqueue)
  /\ IF k.policy = "RR" THEN k.rq = 0 ELSE k.cur = Idle

\* The assignment needs_sched_rr makes on its way to answering 0.
renew_quantum_Missing(k) == k   \* (a variant without the assignment)
renew_quantum(k) ==
  IF k.policy = "RR" /\ k.rq = 0 THEN [k EXCEPT !.rq = Quantum] ELSE k

update_sched_data(k) ==
  IF k.policy = "RR" THEN [k EXCEPT !.rq = @ - 1] ELSE k

\* task_switch, inner_task_switch, switch_stack.  The new stack pointer is read
\* before the current one is saved: a task that switches to itself restores the
\* context of its previous switch, which is the current one only if it was
\* saved at the same place.
task_switch(k, t, place) ==
  [k EXCEPT !.saved[k.cur] = place,
            !.cur = t,
            !.pc = IF k.saved[t] = "unblock" THEN "schedule" ELSE "user",
            !.panic = IF \/ t # k.cur /\ k.saved[t] \in {"none", "exit"}
                         \/ t = k.cur /\ k.saved[t] # place
                      THEN "context" ELSE @]

\* The task at the head of readyqueue, or idle.
first_ready(k) ==
  IF ListEmpty(k.heap, readyqueue) THEN Idle ELSE ListFirst(k.heap, readyqueue)

\* k without the entry that first_ready chose.
take_ready(k) ==
  IF ListEmpty(k.heap, readyqueue) THEN k ELSE Del(k, first_ready(k))

\* (A variant that, like sched_next_fcfs, leaves the state field alone.)
sched_next_rr_NoState(k, place) ==
  LET t == first_ready(k)
  IN  IF t \notin Slots THEN [k EXCEPT !.panic = "wild"]
      ELSE task_switch([take_ready(k) EXCEPT !.rq = Quantum], t, place)

sched_next_rr(k, place) ==
  LET t == first_ready(k)
  IN  IF t \notin Slots THEN [k EXCEPT !.panic = "wild"]
      ELSE task_switch([take_ready(k) EXCEPT !.state[t] = "RUN", !.rq = Quantum],
                       t, place)

sched_next_fcfs(k, place) ==
  LET t == first_ready(k)
  IN  IF t \notin Slots THEN [k EXCEPT !.panic = "wild"]
      ELSE task_switch(take_ready(k), t, place)

sched_next(k, place) ==
  IF k.policy = "RR" THEN sched_next_rr(k, place) ELSE sched_next_fcfs(k, place)

-----------------------------------------------------------------------------
(***************************************************************************)
(* What the handlers call                                                  *)
(***************************************************************************)

\* if (needs_sched()) { update_process_state(current(), &readyqueue); sched_next(); }
reschedule(k, place) ==
  IF needs_sched(k)
  THEN sched_next(update_process_state(k, k.cur, readyqueue), place)
  ELSE renew_quantum(k)

schedule(k) == reschedule(update_sched_data(k), "tick")

block_process(k, queue) ==
  sched_next(update_process_state(k, k.cur, queue), "read")

unblock_process(k, t) ==
  reschedule(update_process_state(k, t, readyqueue), "unblock")

\* (A variant that does not count the ticks idle runs through.)
zeos_update_read_console_emul_NotIdle(k) ==
  IF k.reads = <<>> \/ k.cur = Idle THEN k
  ELSE LET left == k.reads[1].left - 1
       IN  IF left > 0 THEN [k EXCEPT !.reads[1].left = left]
           ELSE unblock_process([k EXCEPT !.reads = Tail(@)], k.reads[1].task)

\* The console serves one request at a time: a tick counts only for the first.
zeos_update_read_console_emul(k) ==
  IF k.reads = <<>> THEN k
  ELSE LET left == k.reads[1].left - 1
       IN  IF left > 0 THEN [k EXCEPT !.reads[1].left = left]
           ELSE unblock_process([k EXCEPT !.reads = Tail(@)], k.reads[1].task)

\* A handler that panics never returns; nothing looks at what it had done.
Become(k) ==
  \E r \in {k} :
    kernel' = IF r.panic = "no" THEN r ELSE [kernel EXCEPT !.panic = r.panic]

-----------------------------------------------------------------------------
(***************************************************************************)
(* Boot: idle and task 1 leave the freequeue, task 1 runs.                 *)
(***************************************************************************)

BootHeap ==
  LET firstFree == IF NR_TASKS > 2 THEN 2 ELSE freequeue
      lastFree == IF NR_TASKS > 2 THEN NR_TASKS - 1 ELSE freequeue
  IN  [next |-> [c \in Cells |->
                   IF c = freequeue THEN firstFree
                   ELSE IF c \in Heads THEN c
                   ELSE IF c \in {Idle, Task1} THEN NULL
                   ELSE IF c = NR_TASKS - 1 THEN freequeue ELSE c + 1],
       prev |-> [c \in Cells |->
                   IF c = freequeue THEN lastFree
                   ELSE IF c \in Heads THEN c
                   ELSE IF c \in {Idle, Task1} THEN NULL
                   ELSE IF c = 2 THEN freequeue ELSE c - 1]]

Init ==
  kernel = [heap   |-> BootHeap,
            procs  |-> {Idle, Task1},
            state  |-> [t \in Slots |-> "RUN"],   \* ST_RUN is 0, as is .data.task
            saved  |-> [t \in Slots |-> IF t = Idle THEN "boot" ELSE "none"],
            page0  |-> [t \in Slots |-> FALSE],
            cur    |-> Task1,
            rq     |-> Quantum,
            policy |-> BootPolicy,
            reads  |-> <<>>,
            frames |-> DataFrames,
            pc     |-> "user",
            panic  |-> "no"]

-----------------------------------------------------------------------------
(***************************************************************************)
(* The handlers                                                            *)
(***************************************************************************)

\* Interrupts are enabled: in user mode and in the loop of cpu_idle.
Interruptible == kernel.panic = "no" /\ kernel.pc = "user"

\* A user program runs and makes the system call c.
Calling(c) == Interruptible /\ kernel.cur # Idle /\ c \in Calls

\* clock_routine.  If the console unblocked a task in favour of which the
\* current one was switched out, schedule() is left for when it is resumed.
Tick ==
  /\ Interruptible
  /\ \E k \in {zeos_update_read_console_emul(kernel)} :
       Become(IF k.cur # kernel.cur THEN k ELSE schedule(k))

\* The rest of the clock_routine in which the current task was switched out.
Resume ==
  /\ kernel.panic = "no"
  /\ kernel.pc = "schedule"
  /\ Become(schedule([kernel EXCEPT !.pc = "user"]))

\* The free slot sys_fork takes, once the parent's struct is copied over it.
\* (The copied list pointers are overwritten before anyone reads them.)
CopiedSlot(k, c) ==
  [Del(k, c) EXCEPT !.state[c] = k.state[k.cur], !.saved[c] = k.saved[k.cur]]

\* (A variant in which alloc_frame is taken to succeed always.)
Fork_NoCheck ==
  /\ Calling("fork")
  /\ ~ ListEmpty(kernel.heap, freequeue)
  /\ LET c == ListFirst(kernel.heap, freequeue)
     IN  Become([AddTail(CopiedSlot(kernel, c), c, readyqueue) EXCEPT
                   !.procs = @ \cup {c}, !.state[c] = "READY", !.saved[c] = "fork",
                   !.page0[c] = TRUE, !.frames = @ - NUM_PAG_DATA])

\* With an empty freequeue fork returns -ENOMEM and changes nothing.
Fork ==
  /\ Calling("fork")
  /\ ~ ListEmpty(kernel.heap, freequeue)
  /\ kernel.frames >= NUM_PAG_DATA
  /\ LET c == ListFirst(kernel.heap, freequeue)
         k == CopiedSlot(kernel, c)
     IN  IF c \notin Slots THEN Become([kernel EXCEPT !.panic = "wild"])
         ELSE Become([AddTail(k, c, readyqueue) EXCEPT
                        !.procs = @ \cup {c},
                        !.state[c] = "READY",
                        !.saved[c] = "fork",
                        !.page0[c] = TRUE,
                        !.frames = @ - NUM_PAG_DATA])

\* The frames run out: those taken are given back, the slot goes to the tail.
ForkAgain ==
  /\ Calling("fork")
  /\ ~ ListEmpty(kernel.heap, freequeue)
  /\ kernel.frames < NUM_PAG_DATA
  /\ LET c == ListFirst(kernel.heap, freequeue)
     IN  IF c \notin Slots THEN Become([kernel EXCEPT !.panic = "wild"])
         ELSE Become(AddTail(CopiedSlot(kernel, c), c, freequeue))

Exit ==
  /\ Calling("exit")
  /\ Become(sched_next_rr(
       [AddTail(kernel, kernel.cur, freequeue) EXCEPT
          !.frames = @ + NUM_PAG_DATA,
          !.procs = @ \ {kernel.cur}], "exit"))

\* force_task_switch
Yield ==
  /\ Calling("yield")
  /\ Become(sched_next_rr(
       update_process_state_rr(kernel, kernel.cur, readyqueue), "yield"))

\* Request blocks the console has left.
free_iorbs(k) == NIorbs - Len(k.reads)

\* (A variant that serves the latest request first.)
Read_Stack(n) ==
  /\ Calling("read")
  /\ free_iorbs(kernel) > 0
  /\ Become(block_process(
       [kernel EXCEPT !.reads = <<[task |-> kernel.cur, left |-> n]>> \o @],
       console_blocked))

\* sys_read of n bytes.  With no free request block it returns -EAGAIN.
Read(n) ==
  /\ Calling("read")
  /\ free_iorbs(kernel) > 0
  /\ Become(block_process(
       [kernel EXCEPT !.reads = Append(@, [task |-> kernel.cur, left |-> n])],
       console_blocked))

SetSchedPolicy(p) ==
  /\ Calling("set_sched_policy")
  /\ Become([kernel EXCEPT !.policy = p])

Next ==
  \/ Tick
  \/ Resume
  \/ Fork
  \/ ForkAgain
  \/ Exit
  \/ Yield
  \/ \E n \in ReadTicks : Read(n)
  \/ \E p \in Policies : SetSchedPolicy(p)

\* The timer keeps interrupting, and interrupted handlers go on; no program is
\* obliged to make a system call.
Spec == Init /\ [][Next]_kernel /\ WF_kernel(Tick) /\ WF_kernel(Resume)

-----------------------------------------------------------------------------
(***************************************************************************)
(* Properties that look at one cell and its neighbours                     *)
(***************************************************************************)

TypeOK == kernel \in Kernel

Running == kernel.panic = "no"

Waiting(t) == \E i \in DOMAIN kernel.reads : kernel.reads[i].task = t

\* The list a cell should be on: a free slot on the freequeue, a process with a
\* pending read on console_blocked, any other that does not run on the
\* readyqueue.  Idle may be left out of the readyqueue.
Owner(c) ==
  IF c \in Heads THEN c
  ELSE IF c \notin kernel.procs THEN freequeue
  ELSE IF c = kernel.cur THEN NULL
  ELSE IF Waiting(c) THEN console_blocked
  ELSE IF c = Idle /\ ~ Linked(kernel.heap, c) THEN NULL
  ELSE readyqueue

\* Every process and every free slot is linked into the one list its condition
\* calls for, its neighbours agree that it is between them and are on the same
\* list; the process that runs is on none.
LinksAgree ==
  Running =>
    \A c \in Cells :
      IF Owner(c) = NULL
      THEN kernel.heap.next[c] = NULL /\ kernel.heap.prev[c] = NULL
      ELSE /\ kernel.heap.next[c] \in Cells
           /\ kernel.heap.prev[c] \in Cells
           /\ kernel.heap.prev[kernel.heap.next[c]] = c
           /\ kernel.heap.next[kernel.heap.prev[c]] = c
           /\ Owner(kernel.heap.next[c]) = Owner(c)

\* Under round robin the state field of every process says which list it is
\* on: update_process_state_rr trusts it to decide whether to unlink.
StateAgrees ==
  Running /\ kernel.policy = "RR" =>
    \A t \in kernel.procs :
      /\ Owner(t) = readyqueue => kernel.state[t] = "READY"
      /\ Owner(t) = console_blocked => kernel.state[t] = "BLOCKED"
      /\ Owner(t) = NULL => kernel.state[t] = "RUN"

\* list_del is never given an entry that is on no list, and no list head is
\* taken for a process.
NeverUnlinksTwice == kernel.panic \notin {"null", "wild"}

\* A switch always restores the context the task itself saved last.
NeverStaleContext == kernel.panic # "context"

\* Whenever the CPU is out of the kernel the turn of the current task has
\* between one tick and a full quantum to go.
QuantumInRange == Interruptible => kernel.rq \in 1..Quantum

\* FCFS takes the CPU from a process only when the process blocks or ends
\* ("FCFS solo saca un proceso de la CPU cuando entra en un read").
FcfsNeverPreempts ==
  [][\A t \in Slots \ {Idle} :
       kernel.policy = "FCFS" /\ kernel.cur = t /\ kernel'.cur # t =>
         t \notin kernel'.procs \/ Waiting(t)']_kernel

\* Under FCFS idle has the CPU only while no process is ready.
IdleOnlyWhenNoneReady ==
  Interruptible /\ kernel.policy = "FCFS" /\ kernel.cur = Idle =>
    ListEmpty(kernel.heap, readyqueue)

=============================================================================
