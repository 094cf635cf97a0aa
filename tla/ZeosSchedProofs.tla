--------------------------- MODULE ZeosSchedProofs ---------------------------
(***************************************************************************)
(* Theorems about ZeosSched and Machine, in five parts.                    *)
(*                                                                         *)
(* The lists.  First the types: every function of the kernel maps a kernel *)
(* to a kernel, whatever the programs call.  Then the lists of process     *)
(* descriptors as sequences: Rings(h, Q) says that the heap h holds, for   *)
(* every list head, exactly the circular list of the entries of the        *)
(* sequence Q[head].  The lemmas say what the operations of list.c do to   *)
(* those sequences, so that the proofs about the scheduler reason about    *)
(* sequences instead of pointers.                                          *)
(*                                                                         *)
(* The scheduler: with a steady policy the lists, the state fields, the    *)
(* quantum and the saved contexts stay right.                              *)
(*                                                                         *)
(* The queues as a walk along the pointers meets them: who is on them, in  *)
(* which order, that they implement the queues of ProcQueues, and how long *)
(* a process waits for the CPU.                                            *)
(*                                                                         *)
(* The machine: scheduler and memory, each deciding for itself what a      *)
(* handler does, stay in step for any number of slots and any memory,      *)
(* under any policy and whatever programs switch it.                       *)
(*                                                                         *)
(* The reads: to the tick, how long each of them takes.                    *)
(***************************************************************************)
EXTENDS Machine, FiniteSetTheorems, WellFoundedInduction, TLAPS

(***************************************************************************)
(* Part one: types and lists                                               *)
(***************************************************************************)

\* Linking a cell in keeps the heap typed.
LEMMA InsertType ==
  ASSUME NEW h \in Heap, NEW x \in Cells, NEW p \in Cells \cup {NULL},
         NEW y \in Cells
  PROVE  InsertBetween(h, x, p, y) \in Heap
BY DEF InsertBetween, Heap

\* Taking a cell out keeps the heap typed.
LEMMA ListDelType ==
  ASSUME NEW h \in Heap, NEW x \in Cells
  PROVE  ListDel(h, x) \in Heap
BY DEF ListDel, Heap

\* Queueing a task keeps the kernel typed.
LEMMA AddTailType ==
  ASSUME NEW k \in Kernel, NEW t \in Slots, NEW hd \in Heads
  PROVE  AddTail(k, t, hd) \in Kernel
<1>1. t \in Cells /\ hd \in Cells /\ k.heap \in Heap
  BY DEF Cells, Kernel
<1>2. ListAddTail(k.heap, t, hd) \in Heap
  <2>1. k.heap.prev[hd] \in Cells \cup {NULL}
    BY <1>1 DEF Heap
  <2> QED
    BY <1>1, <2>1, InsertType DEF ListAddTail
<1> QED
  BY <1>2 DEF AddTail, Kernel

\* Unlinking a task keeps the kernel typed.
LEMMA DelType ==
  ASSUME NEW k \in Kernel, NEW t \in Slots
  PROVE  Del(k, t) \in Kernel
<1>1. t \in Cells /\ k.heap \in Heap
  BY DEF Cells, Kernel
<1>2. ListDel(k.heap, t) \in Heap
  BY <1>1, ListDelType
<1> QED
  BY <1>2 DEF Del, Kernel

\* Moving a task to a list does, under either policy.
LEMMA UpdateStateType ==
  ASSUME NEW k \in Kernel, NEW t \in Slots, NEW hd \in Heads
  PROVE  /\ update_process_state_rr(k, t, hd) \in Kernel
         /\ update_process_state(k, t, hd) \in Kernel
<1>1. Del(k, t) \in Kernel
  BY DelType
<1>2. \A k1 \in Kernel : AddTail(k1, t, hd) \in Kernel
  BY AddTailType
<1>3. update_process_state_rr(k, t, hd) \in Kernel
  <2>1. \A k2 \in Kernel :
          [k2 EXCEPT !.state[t] = IF hd = readyqueue THEN "READY" ELSE "BLOCKED"]
            \in Kernel
    BY DEF Kernel
  <2> QED
    BY <1>1, <1>2, <2>1 DEF update_process_state_rr
<1>4. update_process_state_fcfs(k, t, hd) \in Kernel
  BY <1>1, <1>2 DEF update_process_state_fcfs
<1> QED
  BY <1>3, <1>4 DEF update_process_state

\* A switch keeps the kernel typed.
LEMMA TaskSwitchType ==
  ASSUME NEW k \in Kernel, NEW t \in Slots, NEW place \in Contexts
  PROVE  task_switch(k, t, place) \in Kernel
BY DEF task_switch, Kernel

\* Taking the first off the readyqueue keeps the kernel typed.
LEMMA TakeReadyType ==
  ASSUME NEW k \in Kernel, first_ready(k) \in Slots
  PROVE  take_ready(k) \in Kernel
BY DelType DEF take_ready

\* Dispatching the next task keeps the kernel typed.
LEMMA SchedNextType ==
  ASSUME NEW k \in Kernel, NEW place \in Contexts
  PROVE  sched_next_rr(k, place) \in Kernel /\ sched_next(k, place) \in Kernel
<1> DEFINE t == first_ready(k)
<1>1. CASE t \notin Slots
  <2>1. [k EXCEPT !.panic = "wild"] \in Kernel
    BY DEF Kernel
  <2> QED
    BY <1>1, <2>1 DEF sched_next, sched_next_rr, sched_next_fcfs
<1>2. CASE t \in Slots
  <2>1. take_ready(k) \in Kernel
    BY <1>2, TakeReadyType
  <2>2. ASSUME NEW r \in Kernel, NEW u \in Slots
        PROVE  [r EXCEPT !.state[u] = "RUN", !.rq = Quantum] \in Kernel
    <3>1. [r EXCEPT !.state[u] = "RUN"] \in Kernel
      BY DEF Kernel
    <3>2. Quantum \in Int
      BY SizeAssumption
    <3> QED
      BY <3>1, <3>2 DEF Kernel
  <2> HIDE DEF t
  <2>3. [take_ready(k) EXCEPT !.state[t] = "RUN", !.rq = Quantum] \in Kernel
    BY <1>2, <2>1, <2>2
  <2>4. /\ task_switch(take_ready(k), t, place) \in Kernel
        /\ task_switch([take_ready(k) EXCEPT !.state[t] = "RUN", !.rq = Quantum],
                       t, place) \in Kernel
    BY <1>2, <2>1, <2>3, TaskSwitchType
  <2> QED
    BY <1>2, <2>4 DEF sched_next, sched_next_rr, sched_next_fcfs, t
<1> QED
  BY <1>1, <1>2

\* The slots that have names are slots.
LEMMA CurType ==
  ASSUME NEW k \in Kernel
  PROVE  k.cur \in Slots /\ Task1 \in Slots /\ Idle \in Slots
BY SlotAssumption DEF Kernel, Slots, Task1, Idle

\* Giving way, or not, keeps the kernel typed.
LEMMA RescheduleType ==
  ASSUME NEW k \in Kernel, NEW place \in Contexts
  PROVE  reschedule(k, place) \in Kernel
<1>1. readyqueue \in Heads /\ k.cur \in Slots
  BY CurType DEF Heads
<1>2. sched_next(update_process_state(k, k.cur, readyqueue), place) \in Kernel
  BY <1>1, UpdateStateType, SchedNextType
<1>3. renew_quantum(k) \in Kernel
  BY SizeAssumption DEF renew_quantum, Kernel
<1> QED
  BY <1>2, <1>3 DEF reschedule

\* The end of a clock handler keeps the kernel typed.
LEMMA ScheduleType ==
  ASSUME NEW k \in Kernel
  PROVE  schedule(k) \in Kernel
<1>1. k.rq - 1 \in Int
  BY DEF Kernel
<1>2. [k EXCEPT !.rq = k.rq - 1] \in Kernel
  BY <1>1 DEF Kernel
<1>3. update_sched_data(k) \in Kernel
  BY <1>2 DEF update_sched_data
<1> QED
  BY <1>3, RescheduleType DEF schedule, Contexts

\* The console's part of a clock handler keeps the kernel typed.
LEMMA ConsoleType ==
  ASSUME NEW k \in Kernel
  PROVE  zeos_update_read_console_emul(k) \in Kernel
<1>1. CASE k.reads = <<>>
  BY <1>1 DEF zeos_update_read_console_emul
<1>2. CASE k.reads # <<>>
  <2> DEFINE R == [task : Slots, left : Int]
  <2>1. /\ k.reads \in Seq(R) /\ k.reads[1] \in R /\ 1 \in 1..Len(k.reads)
        /\ k.reads[1].task \in Slots /\ k.reads[1].left \in Int
        /\ Tail(k.reads) \in Seq(R)
    <3>1. k.reads \in Seq(R)
      BY DEF Kernel
    <3> HIDE DEF R
    <3>2. k.reads[1] \in R /\ Tail(k.reads) \in Seq(R) /\ 1 \in 1..Len(k.reads)
      BY <1>2, <3>1
    <3> USE DEF R
    <3> QED
      BY <3>1, <3>2
  <2>2. \A n \in Int : [k EXCEPT !.reads[1].left = n] \in Kernel
    <3> SUFFICES ASSUME NEW n \in Int
                 PROVE  [k EXCEPT !.reads[1].left = n] \in Kernel
      OBVIOUS
    <3>0. \A e \in R : [e EXCEPT !.left = n] \in R
      OBVIOUS
    <3>1. [k.reads[1] EXCEPT !.left = n] \in R
      BY <2>1, <3>0
    <3>2. [k.reads EXCEPT ![1] = [k.reads[1] EXCEPT !.left = n]] \in Seq(R)
      BY <2>1, <3>1
    <3>3. \A r \in Seq(R) : [k EXCEPT !.reads = r] \in Kernel
      BY DEF Kernel
    <3>4. [k EXCEPT !.reads[1].left = n] =
            [k EXCEPT !.reads =
               [k.reads EXCEPT ![1] = [k.reads[1] EXCEPT !.left = n]]]
      OBVIOUS
    <3> QED
      BY <3>2, <3>3, <3>4
  <2>3. [k EXCEPT !.reads = Tail(@)] \in Kernel
    BY <2>1 DEF Kernel
  <2>4. readyqueue \in Heads /\ "unblock" \in Contexts
    BY DEF Heads, Contexts
  <2>5. unblock_process([k EXCEPT !.reads = Tail(@)], k.reads[1].task) \in Kernel
    BY <2>1, <2>3, <2>4, UpdateStateType, RescheduleType DEF unblock_process
  <2>6. k.reads[1].left - 1 \in Int
    BY <2>1
  <2> QED
    BY <1>2, <2>2, <2>5, <2>6 DEF zeos_update_read_console_emul
<1> QED
  BY <1>1, <1>2

\* What a handler leaves behind is typed, whether it panics or not.
LEMMA BecomeType ==
  ASSUME NEW k \in Kernel, kernel \in Kernel, Become(k)
  PROVE  kernel' \in Kernel
<1>1. CASE k.panic = "no"
  BY <1>1 DEF Become
<1>2. CASE k.panic # "no"
  <2>1. k.panic \in {"no", "null", "context", "wild"}
    BY DEF Kernel
  <2>2. \A p \in {"no", "null", "context", "wild"} :
          [kernel EXCEPT !.panic = p] \in Kernel
    BY DEF Kernel
  <2> QED
    BY <1>2, <2>1, <2>2 DEF Become
<1> QED
  BY <1>1, <1>2

\* The slot that sys_fork takes is typed.
LEMMA CopiedSlotType ==
  ASSUME NEW k \in Kernel, NEW c \in Slots
  PROVE  CopiedSlot(k, c) \in Kernel
<1>1. Del(k, c) \in Kernel
  BY DelType
<1>2. /\ k.cur \in Slots /\ k.state[k.cur] \in {"RUN", "READY", "BLOCKED"}
      /\ k.saved[k.cur] \in Contexts
  BY DEF Kernel
<1>3. \A d \in Kernel, x \in {"RUN", "READY", "BLOCKED"}, y \in Contexts :
        [d EXCEPT !.state[c] = x, !.saved[c] = y] \in Kernel
  BY DEF Kernel
<1> QED
  BY <1>1, <1>2, <1>3 DEF CopiedSlot

\* The system boots typed.
LEMMA InitType == Init => TypeOK
<1>1. BootHeap \in Heap
  <2>1. NR_TASKS \in Int /\ freequeue \in Cells /\ Slots \subseteq Cells
    BY SlotAssumption DEF Cells, Heads
  <2>2. \A c \in Slots : c # NR_TASKS - 1 => c + 1 \in Slots
    BY SlotAssumption DEF Slots
  <2>3. \A c \in Slots : c \notin {Idle, Task1} => c - 1 \in Slots
    BY SlotAssumption DEF Slots, Idle, Task1
  <2>4. NR_TASKS > 2 => 2 \in Slots /\ NR_TASKS - 1 \in Slots
    BY SlotAssumption DEF Slots
  <2>5. \A c \in Cells : c \notin Heads => c \in Slots
    BY DEF Cells
  <2> QED
    BY <2>1, <2>2, <2>3, <2>4, <2>5 DEF BootHeap, Heap
<1>2. /\ {Idle, Task1} \subseteq Slots /\ Quantum \in Int /\ DataFrames \in Nat
      /\ <<>> \in Seq([task : Slots, left : Int]) /\ BootPolicy \in Policies
  BY SlotAssumption, SizeAssumption, PolicyAssumption DEF Slots, Idle, Task1
<1> QED
  BY <1>1, <1>2 DEF Init, TypeOK, Kernel, Contexts

\* Every value the kernel ever holds is of its type: the lists never point
\* anywhere but to list cells, and the frame counter is never negative.
THEOREM TypeCorrect == Spec => []TypeOK
<1>1. ASSUME TypeOK, [Next]_kernel PROVE TypeOK'
  <2>0. kernel \in Kernel /\ kernel.cur \in Slots /\ kernel.frames \in Nat
    BY <1>1 DEF TypeOK, Kernel
  <2>1. Heads = {freequeue, readyqueue, console_blocked}
    BY DEF Heads
  <2>2. CASE Tick
    <3>1. PICK k \in {zeos_update_read_console_emul(kernel)} :
            Become(IF k.cur # kernel.cur THEN k ELSE schedule(k))
      BY <2>2 DEF Tick
    <3>2. k \in Kernel /\ schedule(k) \in Kernel
      BY <2>0, ConsoleType, ScheduleType
    <3> QED
      BY <2>0, <3>1, <3>2, BecomeType DEF TypeOK
  <2>3. CASE Resume
    <3>1. [kernel EXCEPT !.pc = "user"] \in Kernel
      BY <2>0 DEF Kernel
    <3> QED
      BY <2>0, <2>3, <3>1, ScheduleType, BecomeType DEF Resume, TypeOK
  <2>4. [kernel EXCEPT !.panic = "wild"] \in Kernel
    BY <2>0 DEF Kernel
  <2>5. ASSUME NEW c \in Slots, NEW hd \in Heads
        PROVE  AddTail(CopiedSlot(kernel, c), c, hd) \in Kernel
    BY <2>0, CopiedSlotType, AddTailType
  <2>6. CASE Fork
    <3> DEFINE c == ListFirst(kernel.heap, freequeue)
    <3>1. CASE c \notin Slots
      BY <2>0, <2>4, <2>6, <3>1, BecomeType DEF Fork, TypeOK
    <3>2. CASE c \in Slots
      <4>1. ASSUME NEW k \in Kernel, NEW s \in Slots, k.frames >= NUM_PAG_DATA
            PROVE  [k EXCEPT !.procs = @ \cup {s},
                             !.state[s] = "READY",
                             !.saved[s] = "fork",
                             !.page0[s] = TRUE,
                             !.frames = @ - NUM_PAG_DATA] \in Kernel
        <5>1. k.frames - NUM_PAG_DATA \in Nat /\ k.procs \cup {s} \in SUBSET Slots
          BY <4>1, SizeAssumption DEF Kernel
        <5>2. /\ [k.state EXCEPT ![s] = "READY"] \in
                   [Slots -> {"RUN", "READY", "BLOCKED"}]
              /\ [k.saved EXCEPT ![s] = "fork"] \in [Slots -> Contexts]
              /\ [k.page0 EXCEPT ![s] = TRUE] \in [Slots -> BOOLEAN]
          BY DEF Kernel, Contexts
        <5> QED
          BY <5>1, <5>2 DEF Kernel
      <4> DEFINE k == AddTail(CopiedSlot(kernel, c), c, readyqueue)
      <4>2. k.frames = kernel.frames
        BY <2>0 DEF AddTail, CopiedSlot, Del, Kernel
      <4>3. k \in Kernel
        BY <2>1, <2>5, <3>2
      <4>4. Become([k EXCEPT !.procs = @ \cup {c}, !.state[c] = "READY",
                             !.saved[c] = "fork", !.page0[c] = TRUE,
                             !.frames = @ - NUM_PAG_DATA])
            /\ kernel.frames >= NUM_PAG_DATA
        BY <2>6, <3>2 DEF Fork
      <4> HIDE DEF c, k
      <4> QED
        BY <2>0, <3>2, <4>1, <4>2, <4>3, <4>4, BecomeType DEF TypeOK
    <3> QED
      BY <3>1, <3>2
  <2>7. CASE ForkAgain
    BY <2>0, <2>1, <2>4, <2>5, <2>7, BecomeType DEF ForkAgain, TypeOK
  <2>8. CASE Exit
    <3> DEFINE k == AddTail(kernel, kernel.cur, freequeue)
               r == [k EXCEPT !.frames = @ + NUM_PAG_DATA,
                              !.procs = @ \ {kernel.cur}]
    <3>1. k \in Kernel
      BY <2>0, <2>1, AddTailType
    <3>2. r \in Kernel
      <4>1. k.frames + NUM_PAG_DATA \in Nat /\ k.procs \ {kernel.cur} \in SUBSET Slots
        BY <3>1, SizeAssumption DEF Kernel
      <4> HIDE DEF k
      <4> QED
        BY <3>1, <4>1 DEF Kernel
    <3>3. sched_next_rr(r, "exit") \in Kernel
      BY <3>2, SchedNextType DEF Contexts
    <3> QED
      BY <2>0, <2>8, <3>3, BecomeType DEF Exit, TypeOK
  <2>9. CASE Yield
    <3>1. update_process_state_rr(kernel, kernel.cur, readyqueue) \in Kernel
      BY <2>0, <2>1, UpdateStateType
    <3> QED
      BY <2>0, <2>9, <3>1, SchedNextType, BecomeType DEF Yield, TypeOK, Contexts
  <2>10. ASSUME NEW n \in ReadTicks, Read(n) PROVE TypeOK'
    <3> DEFINE k == [kernel EXCEPT !.reads =
                       Append(@, [task |-> kernel.cur, left |-> n])]
    <3>1. k \in Kernel
      <4>1. n \in Int
        BY SizeAssumption
      <4>2. Append(kernel.reads, [task |-> kernel.cur, left |-> n])
              \in Seq([task : Slots, left : Int])
        BY <2>0, <4>1 DEF Kernel
      <4> QED
        BY <2>0, <4>2 DEF Kernel
    <3>2. k.cur \in Slots
      BY <3>1, CurType
    <3> HIDE DEF k
    <3>3. block_process(k, console_blocked) \in Kernel
      BY <2>1, <3>1, <3>2, UpdateStateType, SchedNextType
      DEF block_process, Contexts
    <3> USE DEF k
    <3> QED
      BY <2>0, <2>10, <3>3, BecomeType DEF Read, TypeOK
  <2>11. ASSUME NEW p \in Policies, SetSchedPolicy(p) PROVE TypeOK'
    <3>1. [kernel EXCEPT !.policy = p] \in Kernel
      BY <2>0 DEF Kernel
    <3> QED
      BY <2>0, <2>11, <3>1, BecomeType DEF SetSchedPolicy, TypeOK
  <2>12. CASE UNCHANGED kernel
    BY <1>1, <2>12 DEF TypeOK
  <2> QED
    BY <1>1, <2>2, <2>3, <2>6, <2>7, <2>8, <2>9, <2>10, <2>11, <2>12 DEF Next
<1> QED
  BY <1>1, InitType, PTL DEF Spec

-----------------------------------------------------------------------------
In(q, t) == \E i \in 1..Len(q) : q[i] = t

\* Slot t is on some list.
OnList(Q, t) == \E hd \in Heads : In(Q[hd], t)

Ring(h, hd, q) ==
  /\ q = <<>> => h.next[hd] = hd /\ h.prev[hd] = hd
  /\ q # <<>> => h.next[hd] = q[1] /\ h.prev[hd] = q[Len(q)]
  /\ \A i \in 1..Len(q) :
       /\ h.next[q[i]] = IF i = Len(q) THEN hd ELSE q[i + 1]
       /\ h.prev[q[i]] = IF i = 1 THEN hd ELSE q[i - 1]

Rings(h, Q) ==
  /\ h \in Heap
  /\ Q \in [Heads -> Seq(Slots)]
  /\ \A hd \in Heads : Ring(h, hd, Q[hd])
  /\ \A g, hd \in Heads : \A i \in 1..Len(Q[g]), j \in 1..Len(Q[hd]) :
       Q[g][i] = Q[hd][j] => g = hd /\ i = j
  /\ \A t \in Slots : ~ OnList(Q, t) => h.next[t] = NULL /\ h.prev[t] = NULL

-----------------------------------------------------------------------------
\* list_empty and list_first see the sequence.
LEMMA FirstOfRing ==
  ASSUME NEW h, NEW Q, NEW hd \in Heads, Rings(h, Q)
  PROVE  /\ ListEmpty(h, hd) <=> Q[hd] = <<>>
         /\ Q[hd] # <<>> => /\ ListFirst(h, hd) = Q[hd][1]
                            /\ Q[hd][1] \in Slots
                            /\ Len(Q[hd]) \in Nat \ {0}
<1>1. Q[hd] \in Seq(Slots)
  BY DEF Rings
<1>2. Q[hd] # <<>> => Q[hd][1] \in Slots /\ Len(Q[hd]) \in Nat \ {0}
  BY <1>1
<1>3. Q[hd] # <<>> => Q[hd][1] # hd
  BY <1>2, SlotAssumption
<1> QED
  BY <1>2, <1>3 DEF Rings, Ring, ListEmpty, ListFirst

\* list_add_tail of an entry on no list appends it to the sequence.
LEMMA AddTailToRing ==
  ASSUME NEW h, NEW Q, NEW hd \in Heads, NEW t \in Slots,
         Rings(h, Q), ~ OnList(Q, t)
  PROVE  Rings(ListAddTail(h, t, hd), [Q EXCEPT ![hd] = Append(@, t)])
<1> DEFINE R == [Q EXCEPT ![hd] = Append(@, t)]
           g == ListAddTail(h, t, hd)
           p == h.prev[hd]
           n == Len(Q[hd])
<1>1. /\ Q \in [Heads -> Seq(Slots)] /\ h \in Heap
      /\ Heads \subseteq Cells /\ Slots \subseteq Cells
      /\ \A x \in Heads : x \notin Slots /\ x # NULL
      /\ \A x \in Slots : x # NULL
  BY SlotAssumption DEF Rings, Cells
<1>2. /\ n \in Nat /\ n = Len(Q[hd]) /\ p = h.prev[hd]
      /\ \A i \in 1..n : Q[hd][i] \in Slots /\ Q[hd][i] # t
      /\ Q[hd] = <<>> <=> n = 0
      /\ n = 0 => p = hd
      /\ n # 0 => p = Q[hd][n]
  BY <1>1 DEF Rings, Ring, OnList, In
<1>3. /\ R \in [Heads -> Seq(Slots)]
      /\ Len(R[hd]) = n + 1
      /\ \A i \in 1..n : R[hd][i] = Q[hd][i]
      /\ R[hd][n + 1] = t
      /\ \A x \in Heads \ {hd} : R[x] = Q[x]
      /\ R[hd] \in Seq(Slots)
  BY <1>1, <1>2
<1>4. p \in Cells /\ p # t
  BY <1>1, <1>2
<1>5. /\ g \in Heap
      /\ g.next = [h.next EXCEPT ![t] = hd, ![p] = t]
      /\ g.prev = [h.prev EXCEPT ![hd] = t, ![t] = p]
  BY <1>1, <1>4 DEF ListAddTail, InsertBetween, Heap
<1>6. /\ g.next[t] = hd /\ g.next[p] = t
      /\ g.prev[hd] = t /\ g.prev[t] = p
      /\ \A c \in Cells \ {t, p} : g.next[c] = h.next[c]
      /\ \A c \in Cells \ {t, hd} : g.prev[c] = h.prev[c]
  BY <1>1, <1>4, <1>5 DEF Heap
<1> SUFFICES Rings(g, R)
  OBVIOUS
<1> HIDE DEF R, g, p, n
<1>7. Ring(g, hd, R[hd])
  <2> DEFINE r == R[hd]
             q == Q[hd]
  <2>1. /\ Ring(h, hd, q) /\ q \in Seq(Slots) /\ Len(q) = n
        /\ r \in Seq(Slots) /\ Len(r) = n + 1 /\ r[n + 1] = t
        /\ \A i \in 1..n : r[i] = q[i]
    BY <1>1, <1>2, <1>3 DEF Rings
  <2>2. r # <<>> /\ hd \in Cells /\ hd # t
    <3>1. Len(r) # 0
      BY <1>2, <1>3
    <3>2. hd \in Cells /\ hd # t
      BY <1>1
    <3> QED
      BY <3>1, <3>2
  <2>3. g.next[hd] = r[1] /\ g.prev[hd] = r[Len(r)]
    <3>1. CASE n = 0
      BY <1>2, <1>3, <1>6, <3>1
    <3>2. CASE n # 0
      <4>1. p # hd /\ q # <<>> /\ 1 \in 1..n
        BY <1>1, <1>2, <3>2
      <4> QED
        BY <1>2, <1>3, <1>6, <2>1, <2>2, <4>1 DEF Ring
    <3> QED
      BY <3>1, <3>2
  <2>4. ASSUME NEW i \in 1..n
        PROVE  /\ g.next[r[i]] = r[i + 1]
               /\ g.prev[r[i]] = IF i = 1 THEN hd ELSE r[i - 1]
    <3>1. r[i] = q[i] /\ q[i] \in Cells \ {t, hd} /\ q # <<>>
      BY <1>1, <1>2, <1>3
    <3>2. g.prev[r[i]] = IF i = 1 THEN hd ELSE r[i - 1]
      <4>1. g.prev[r[i]] = h.prev[q[i]]
        BY <1>6, <3>1
      <4>2. CASE i = 1
        BY <2>1, <4>1, <4>2 DEF Ring
      <4>3. CASE i # 1
        <5>1. i - 1 \in 1..n
          BY <1>2, <4>3
        <5>2. h.prev[q[i]] = q[i - 1]
          BY <2>1, <4>3 DEF Ring
        <5> QED
          BY <2>1, <4>1, <4>3, <5>1, <5>2
      <4> QED
        BY <4>2, <4>3
    <3>3. CASE i = n
      <4>1. r[i] = p /\ r[i + 1] = t
        BY <1>2, <2>1, <3>3
      <4> QED
        BY <1>6, <3>2, <4>1
    <3>4. CASE i # n
      <4>1. i + 1 \in 1..n /\ n \in 1..n
        BY <1>2, <3>4
      <4>2. q[i] # p
        BY <1>2, <3>1, <3>4, <4>1 DEF Rings
      <4>3. g.next[r[i]] = h.next[q[i]]
        BY <1>6, <3>1, <4>2
      <4> QED
        BY <1>3, <2>1, <3>2, <3>4, <4>1, <4>3 DEF Ring
    <3> QED
      BY <3>2, <3>3, <3>4
  <2>5. g.next[r[n + 1]] = hd /\ g.prev[r[n + 1]] = IF n = 0 THEN hd ELSE r[n]
    BY <1>2, <1>3, <1>6
  <2>6. ASSUME NEW i \in 1..Len(r)
        PROVE  /\ g.next[r[i]] = IF i = Len(r) THEN hd ELSE r[i + 1]
               /\ g.prev[r[i]] = IF i = 1 THEN hd ELSE r[i - 1]
    <3>1. Len(r) = n + 1 /\ n \in Nat
      BY <1>2, <1>3
    <3>2. CASE i = n + 1
      <4>1. i = 1 <=> n = 0
        BY <3>1, <3>2
      <4>2. i - 1 = n
        BY <3>1, <3>2
      <4> QED
        BY <2>5, <3>1, <3>2, <4>1, <4>2
    <3>3. CASE i # n + 1
      <4>1. i \in 1..n
        BY <3>1, <3>3
      <4> QED
        BY <2>4, <3>1, <3>3, <4>1
    <3> QED
      BY <3>2, <3>3
  <2> QED
    BY <2>2, <2>3, <2>6 DEF Ring
<1>8. ASSUME NEW x \in Heads \ {hd} PROVE Ring(g, x, R[x])
  <2>1. R[x] = Q[x] /\ Q[x] \in Seq(Slots) /\ Ring(h, x, Q[x])
    BY <1>1, <1>3 DEF Rings
  <2>2. \A i \in 1..Len(Q[x]) : /\ Q[x][i] \in Slots
                                /\ Q[x][i] # t /\ Q[x][i] # p
    BY <1>1, <1>2, <2>1 DEF Rings, OnList, In
  <2>3. x \in Cells /\ x # t /\ x # p /\ x # hd
    BY <1>1, <1>2
  <2>4. \A i \in 1..Len(Q[x]) : /\ g.next[Q[x][i]] = h.next[Q[x][i]]
                                /\ g.prev[Q[x][i]] = h.prev[Q[x][i]]
    BY <1>1, <1>6, <2>2
  <2>5. g.next[x] = h.next[x] /\ g.prev[x] = h.prev[x]
    BY <1>6, <2>3
  <2> QED
    BY <2>1, <2>4, <2>5 DEF Ring
<1>9. ASSUME NEW x \in Heads, NEW y \in Heads,
             NEW i \in 1..Len(R[x]), NEW j \in 1..Len(R[y]),
             R[x][i] = R[y][j]
      PROVE  x = y /\ i = j
  <2>1. ASSUME NEW z \in Heads, NEW k \in 1..Len(R[z])
        PROVE  \/ k \in 1..Len(Q[z]) /\ R[z][k] = Q[z][k] /\ R[z][k] # t
               \/ z = hd /\ k = n + 1 /\ R[z][k] = t
    BY <1>1, <1>2, <1>3 DEF OnList, In
  <2>2. \A u, v \in Heads : \A k \in 1..Len(Q[u]), l \in 1..Len(Q[v]) :
          Q[u][k] = Q[v][l] => u = v /\ k = l
    BY DEF Rings
  <2> QED
    BY <1>9, <2>1, <2>2
<1>10. ASSUME NEW s \in Slots, ~ OnList(R, s)
       PROVE  g.next[s] = NULL /\ g.prev[s] = NULL
  <2>1. s # t
    BY <1>2, <1>3, <1>10 DEF OnList, In
  <2>2. ~ OnList(Q, s)
    <3>1. \A x \in Heads : \A i \in 1..Len(Q[x]) :
            i \in 1..Len(R[x]) /\ R[x][i] = Q[x][i]
      <4>1. \A i \in 1..Len(Q[hd]) : i \in 1..Len(R[hd]) /\ R[hd][i] = Q[hd][i]
        BY <1>2, <1>3
      <4>2. \A x \in Heads \ {hd} : R[x] = Q[x]
        BY <1>3
      <4> QED
        BY <4>1, <4>2
    <3> QED
      BY <1>10, <3>1 DEF OnList, In
  <2>3. s # p
    BY <1>1, <1>2, <2>2 DEF OnList, In
  <2> QED
    BY <1>1, <1>6, <2>1, <2>2, <2>3 DEF Rings
<1> QED
  BY <1>3, <1>5, <1>7, <1>8, <1>9, <1>10 DEF Rings

\* list_del of the first entry takes it off the sequence.
LEMMA DelFirstOfRing ==
  ASSUME NEW h, NEW Q, NEW hd \in Heads, Rings(h, Q), Q[hd] # <<>>
  PROVE  /\ Linked(h, Q[hd][1])
         /\ Rings(ListDel(h, Q[hd][1]), [Q EXCEPT ![hd] = Tail(@)])
         /\ ~ OnList([Q EXCEPT ![hd] = Tail(@)], Q[hd][1])
<1>0. PICK m \in Nat : m = Len(Q[hd])
  BY DEF Rings
<1> DEFINE q == Q[hd]
           e == q[1]
           R == [Q EXCEPT ![hd] = Tail(@)]
           r == R[hd]
           g == ListDel(h, e)
           n == h.next[e]
<1>1. /\ Q \in [Heads -> Seq(Slots)] /\ h \in Heap
      /\ Heads \subseteq Cells /\ Slots \subseteq Cells
      /\ \A x \in Heads : x \notin Slots /\ x # NULL
      /\ \A x \in Slots : x # NULL
  BY SlotAssumption DEF Rings, Cells
<1>2. /\ q \in Seq(Slots) /\ q = Q[hd] /\ m = Len(q) /\ m = Len(Q[hd])
      /\ m \in Nat \ {0} /\ e = q[1]
      /\ \A i \in 1..m : q[i] \in Slots
      /\ Ring(h, hd, q) /\ q # <<>> /\ 1 \in 1..m /\ m \in 1..m
      /\ n = h.next[e] /\ g = ListDel(h, e)
  BY <1>0, <1>1 DEF Rings
<1>20. m \in Nat /\ m >= 1 /\ (m # 1 => 2 \in 1..m)
  <2>1. m \in Nat \ {0}
    BY <1>2
  <2> QED
    BY <2>1
<1>3. /\ R \in [Heads -> Seq(Slots)]
      /\ r = R[hd] /\ r \in Seq(Slots) /\ Len(r) = m - 1
      /\ \A i \in 1..(m - 1) : r[i] = q[i + 1]
      /\ \A x \in Heads \ {hd} : R[x] = Q[x]
  BY <1>1, <1>2
<1> SUFFICES Linked(h, e) /\ Rings(g, R) /\ ~ OnList(R, e)
  OBVIOUS
<1> HIDE DEF q, e, R, r, g, n
<1>4. /\ e \in Slots /\ h.prev[e] = hd /\ n = h.next[e]
      /\ n = IF m = 1 THEN hd ELSE q[2]
      /\ h.next[hd] = e /\ h.prev[hd] = q[m]
  <2>1. /\ h.next[hd] = q[1] /\ h.prev[hd] = q[m]
        /\ \A i \in 1..m : /\ h.next[q[i]] = IF i = m THEN hd ELSE q[i + 1]
                           /\ h.prev[q[i]] = IF i = 1 THEN hd ELSE q[i - 1]
    BY <1>2 DEF Ring
  <2>2. /\ h.next[q[1]] = IF 1 = m THEN hd ELSE q[2]
        /\ h.prev[q[1]] = hd
    BY <1>20, <2>1
  <2> QED
    BY <1>2, <2>1, <2>2
<1>5. /\ g \in Heap
      /\ g.next = [h.next EXCEPT ![hd] = n, ![e] = NULL]
      /\ g.prev = [h.prev EXCEPT ![n] = hd, ![e] = NULL]
  BY <1>1, <1>2, <1>4 DEF ListDel, Heap
<1>6. \A u, v \in Heads : \A k \in 1..Len(Q[u]), l \in 1..Len(Q[v]) :
        Q[u][k] = Q[v][l] => u = v /\ k = l
  BY DEF Rings
<1>7. /\ n \in Cells /\ n # e /\ hd # e
  <2>1. ASSUME m # 1 PROVE q[2] # q[1] /\ q[2] \in Slots
    <3>1. 2 \in 1..Len(Q[hd]) /\ 1 \in 1..Len(Q[hd])
      BY <1>2, <1>20, <2>1
    <3> QED
      BY <1>2, <1>6, <3>1
  <2> QED
    BY <1>1, <1>2, <1>4, <2>1
<1>8. /\ g.next[hd] = n /\ g.next[e] = NULL
      /\ g.prev[n] = hd /\ g.prev[e] = NULL
      /\ \A c \in Cells \ {hd, e} : g.next[c] = h.next[c]
      /\ \A c \in Cells \ {n, e} : g.prev[c] = h.prev[c]
  BY <1>1, <1>4, <1>5, <1>7 DEF Heap
<1>9. Linked(h, e)
  BY <1>1, <1>2, <1>4 DEF Linked
<1>10. Ring(g, hd, r)
  <2>1. CASE m = 1
    <3>1. r = <<>> /\ Len(r) = 0
      BY <1>3, <2>1
    <3> QED
      BY <1>1, <1>4, <1>8, <2>1, <3>1 DEF Ring
  <2>2. CASE m # 1
    <3>1. /\ r # <<>> /\ 1 \in 1..(m - 1) /\ m - 1 \in 1..(m - 1)
          /\ n = q[2] /\ r[1] = q[2] /\ r[m - 1] = q[m]
      <4>1. 1 \in 1..(m - 1) /\ m - 1 \in 1..(m - 1) /\ Len(r) # 0
        BY <1>20, <1>3, <2>2
      <4>2. r # <<>>
        BY <4>1
      <4>3. r[1] = q[1 + 1] /\ r[m - 1] = q[(m - 1) + 1]
        BY <1>3, <4>1
      <4>4. (m - 1) + 1 = m
        BY <1>2
      <4> QED
        BY <1>4, <2>2, <4>1, <4>2, <4>3, <4>4
    <3>2. g.next[hd] = r[1] /\ g.prev[hd] = r[Len(r)]
      <4>1. hd # n /\ hd \in Cells
        BY <1>1, <1>2, <2>2, <3>1
      <4> QED
        BY <1>3, <1>4, <1>7, <1>8, <3>1, <4>1
    <3>3. ASSUME NEW i \in 1..(m - 1)
          PROVE  /\ g.next[r[i]] = IF i = m - 1 THEN hd ELSE r[i + 1]
                 /\ g.prev[r[i]] = IF i = 1 THEN hd ELSE r[i - 1]
      <4>1. r[i] = q[i + 1] /\ i + 1 \in 1..m /\ q[i + 1] \in Slots
        BY <1>2, <1>3
      <4>2. q[i + 1] # e /\ q[i + 1] # hd
        BY <1>1, <1>2, <1>6, <4>1
      <4>3. g.next[r[i]] = IF i + 1 = m THEN hd ELSE q[i + 2]
        BY <1>1, <1>2, <1>8, <4>1, <4>2 DEF Ring
      <4>4. i # m - 1 => r[i + 1] = q[i + 2]
        BY <1>2, <1>3
      <4>5. CASE i = 1
        BY <1>2, <1>8, <3>1, <4>1, <4>3, <4>4, <4>5
      <4>6. CASE i # 1
        <5>1. q[i + 1] # n
          BY <1>2, <1>6, <3>1, <4>1, <4>6
        <5>2. h.prev[q[i + 1]] = q[i]
          BY <1>2, <4>1, <4>6 DEF Ring
        <5>3. r[i - 1] = q[i]
          <6>1. i - 1 \in 1..(m - 1) /\ (i - 1) + 1 = i
            BY <1>2, <4>6
          <6>2. r[i - 1] = q[(i - 1) + 1]
            BY <1>3, <6>1
          <6> QED
            BY <6>1, <6>2
        <5> QED
          BY <1>1, <1>2, <1>8, <4>1, <4>2, <4>3, <4>4, <4>6, <5>1, <5>2, <5>3
      <4> QED
        BY <4>5, <4>6
    <3> QED
      BY <1>3, <3>1, <3>2, <3>3 DEF Ring
  <2> QED
    BY <2>1, <2>2
<1>11. ASSUME NEW x \in Heads \ {hd} PROVE Ring(g, x, R[x])
  <2>1. R[x] = Q[x] /\ Q[x] \in Seq(Slots) /\ Ring(h, x, Q[x])
    BY <1>1, <1>3 DEF Rings
  <2>2. \A i \in 1..Len(Q[x]) : /\ Q[x][i] \in Cells
                                /\ Q[x][i] \notin {hd, e, n}
    <3>1. ASSUME NEW i \in 1..Len(Q[x]) PROVE Q[x][i] # e /\ Q[x][i] # n
      <4>1. 1 \in 1..Len(Q[hd]) /\ e = Q[hd][1] /\ Q[x][i] \in Slots
        BY <1>1, <1>2, <2>1
      <4>2. n = hd \/ (2 \in 1..Len(Q[hd]) /\ n = Q[hd][2])
        BY <1>2, <1>20, <1>4
      <4> QED
        BY <1>1, <1>6, <4>1, <4>2
    <3> QED
      BY <1>1, <2>1, <3>1
  <2>3. x \in Cells /\ x \notin {hd, e, n}
    BY <1>1, <1>2, <1>4
  <2>4. \A i \in 1..Len(Q[x]) : /\ g.next[Q[x][i]] = h.next[Q[x][i]]
                                /\ g.prev[Q[x][i]] = h.prev[Q[x][i]]
    BY <1>8, <2>2
  <2>5. g.next[x] = h.next[x] /\ g.prev[x] = h.prev[x]
    BY <1>8, <2>3
  <2> QED
    BY <2>1, <2>4, <2>5 DEF Ring
<1>12. ASSUME NEW z \in Heads, NEW k \in 1..Len(R[z])
       PROVE  IF z = hd THEN k + 1 \in 1..Len(Q[z]) /\ R[z][k] = Q[z][k + 1]
              ELSE k \in 1..Len(Q[z]) /\ R[z][k] = Q[z][k]
  BY <1>2, <1>3
<1>13. \A u, v \in Heads : \A k \in 1..Len(R[u]), l \in 1..Len(R[v]) :
         R[u][k] = R[v][l] => u = v /\ k = l
  BY <1>6, <1>12
<1>14. ~ OnList(R, e)
  <2> SUFFICES ASSUME NEW z \in Heads, NEW k \in 1..Len(R[z]), R[z][k] = e
               PROVE  FALSE
    BY DEF OnList, In
  <2>1. 1 \in 1..Len(Q[hd]) /\ Q[hd][1] = e
    BY <1>2
  <2> QED
    BY <1>6, <1>12, <2>1
<1>15. ASSUME NEW s \in Slots, ~ OnList(R, s)
       PROVE  g.next[s] = NULL /\ g.prev[s] = NULL
  <2>1. CASE s = e
    BY <1>8, <2>1
  <2>2. CASE s # e
    <3>1. \A i \in 1..Len(Q[hd]) : Q[hd][i] # s
      <4> SUFFICES ASSUME NEW i \in 1..m, q[i] = s PROVE FALSE
        BY <1>2
      <4>1. i - 1 \in 1..(m - 1) /\ r[i - 1] = s
        BY <1>2, <1>3, <2>2
      <4> QED
        BY <1>3, <1>15, <4>1 DEF OnList, In
    <3>2. ~ OnList(Q, s)
      BY <1>3, <1>15, <3>1 DEF OnList, In
    <3>3. s # n /\ s # hd
      BY <1>1, <1>2, <1>4, <3>1
    <3>4. h.next[s] = NULL /\ h.prev[s] = NULL
      BY <3>2 DEF Rings
    <3> QED
      BY <1>1, <1>8, <2>2, <3>3, <3>4
  <2> QED
    BY <2>1, <2>2
<1> QED
  BY <1>3, <1>5, <1>9, <1>10, <1>11, <1>13, <1>14, <1>15 DEF Rings

-----------------------------------------------------------------------------
(***************************************************************************)
(* Who is on which list, without the order                                 *)
(***************************************************************************)

\* The lists of Rings hold tasks, each on one list at most.
LEMMA OneList ==
  ASSUME NEW h, NEW Q, Rings(h, Q)
  PROVE  /\ Q \in [Heads -> Seq(Slots)]
         /\ \A x, y \in Heads, s \in Slots : In(Q[x], s) /\ In(Q[y], s) => x = y
         /\ \A x \in Heads : \A s : In(Q[x], s) => s \in Slots
<1>1. Q \in [Heads -> Seq(Slots)]
  BY DEF Rings
<1>2. ASSUME NEW x \in Heads, NEW y \in Heads, NEW s, In(Q[x], s), In(Q[y], s)
      PROVE  x = y
  <2>1. PICK i \in 1..Len(Q[x]) : Q[x][i] = s
    BY <1>2 DEF In
  <2>2. PICK j \in 1..Len(Q[y]) : Q[y][j] = s
    BY <1>2 DEF In
  <2>3. Q[x][i] = Q[y][j]
    BY <2>1, <2>2
  <2> QED
    BY <2>3 DEF Rings
<1>3. ASSUME NEW x \in Heads, NEW s, In(Q[x], s) PROVE s \in Slots
  <2>1. Q[x] \in Seq(Slots)
    BY <1>1
  <2> QED
    BY <1>3, <2>1 DEF In
<1> QED
  BY <1>1, <1>2, <1>3

\* Appending to a list adds the one task.
LEMMA InAppend ==
  ASSUME NEW q \in Seq(Slots), NEW t \in Slots
  PROVE  \A s : In(Append(q, t), s) <=> In(q, s) \/ s = t
<1>1. /\ Len(Append(q, t)) = Len(q) + 1 /\ Len(q) \in Nat
      /\ \A i \in 1..Len(q) : Append(q, t)[i] = q[i]
      /\ Append(q, t)[Len(q) + 1] = t
  OBVIOUS
<1>2. Len(q) + 1 \in 1..(Len(q) + 1) /\ 1..Len(q) \subseteq 1..(Len(q) + 1)
  BY <1>1
<1>3. \A i \in 1..(Len(q) + 1) : i \in 1..Len(q) \/ i = Len(q) + 1
  BY <1>1
<1> QED
  BY <1>1, <1>2, <1>3 DEF In

\* The first of a list is on it.
LEMMA FirstIn ==
  ASSUME NEW q \in Seq(Slots)
  PROVE  q # <<>> <=> In(q, q[1])
<1>1. q # <<>> => 1 \in 1..Len(q)
  OBVIOUS
<1>2. q = <<>> => Len(q) = 0
  OBVIOUS
<1> QED
  BY <1>1, <1>2 DEF In

\* An empty list is one that nobody is on.
LEMMA InEmpty ==
  ASSUME NEW q \in Seq(Slots)
  PROVE  (\A s \in Slots : ~ In(q, s)) <=> q = <<>>
<1>1. q # <<>> => q[1] \in Slots
  OBVIOUS
<1>2. q = <<>> => \A s : ~ In(q, s)
  BY DEF In
<1> QED
  BY <1>1, <1>2, FirstIn

\* From kernel k with the lists Q to kernel r with the lists R: t is appended
\* to the list of hd; e, the first entry of the list of hd, is taken off it.
Appended(k, Q, hd, t, r, R) ==
  /\ r \in Kernel
  /\ r = [k EXCEPT !.heap = r.heap]
  /\ Rings(r.heap, R)
  /\ \A x \in Heads \ {hd} : R[x] = Q[x]
  /\ R[hd] = Append(Q[hd], t)
  /\ \A x \in Heads, s \in Slots :
       In(R[x], s) <=> In(Q[x], s) \/ (x = hd /\ s = t)

FirstTaken(k, Q, hd, e, r, R) ==
  /\ e \in Slots /\ In(Q[hd], e)
  /\ Linked(k.heap, e)
  /\ r \in Kernel
  /\ r = [k EXCEPT !.heap = r.heap]
  /\ Rings(r.heap, R)
  /\ \A x \in Heads \ {hd} : R[x] = Q[x]
  /\ R[hd] = Tail(Q[hd])
  /\ ~ OnList(R, e)
  /\ \A x \in Heads, s \in Slots :
       In(R[x], s) <=> In(Q[x], s) /\ s # e

\* AddTail changes the heap only, and there one list.
LEMMA AddTailEffect ==
  ASSUME NEW k \in Kernel, NEW Q, NEW hd \in Heads, NEW t \in Slots,
         Rings(k.heap, Q), ~ OnList(Q, t)
  PROVE  Appended(k, Q, hd, t, AddTail(k, t, hd),
                  [Q EXCEPT ![hd] = Append(@, t)])
<1>1. AddTail(k, t, hd) \in Kernel
  BY AddTailType
<1>2. AddTail(k, t, hd).heap = ListAddTail(k.heap, t, hd)
  BY DEF AddTail, Kernel
<1>3. Rings(ListAddTail(k.heap, t, hd), [Q EXCEPT ![hd] = Append(@, t)])
  BY AddTailToRing
<1>4. Q \in [Heads -> Seq(Slots)]
  BY DEF Rings
<1>5. \A s : In(Append(Q[hd], t), s) <=> In(Q[hd], s) \/ s = t
  BY <1>4, InAppend
<1>6. AddTail(k, t, hd) = [k EXCEPT !.heap = AddTail(k, t, hd).heap]
  BY <1>2 DEF AddTail
<1> QED
  BY <1>1, <1>2, <1>3, <1>4, <1>5, <1>6 DEF Appended

\* Del of the first of a list changes the heap only, and there that list.
LEMMA DelFirstEffect ==
  ASSUME NEW k \in Kernel, NEW Q, NEW hd \in Heads, NEW e,
         Rings(k.heap, Q), Q[hd] # <<>>, e = Q[hd][1]
  PROVE  FirstTaken(k, Q, hd, e, Del(k, e), [Q EXCEPT ![hd] = Tail(@)])
<1> DEFINE R == [Q EXCEPT ![hd] = Tail(@)]
<1>1. Q \in [Heads -> Seq(Slots)] /\ Q[hd] \in Seq(Slots) /\ e \in Slots
  BY DEF Rings
<1>2. Linked(k.heap, e) /\ Rings(ListDel(k.heap, e), R) /\ ~ OnList(R, e)
  BY DelFirstOfRing
<1>3. Del(k, e) = [k EXCEPT !.heap = ListDel(k.heap, e)]
  BY <1>2 DEF Del
<1>4. Del(k, e) \in Kernel
  BY <1>1, DelType
<1>5. Del(k, e).heap = ListDel(k.heap, e)
  BY <1>3 DEF Kernel
<1>6. /\ R[hd] = Tail(Q[hd]) /\ \A x \in Heads \ {hd} : R[x] = Q[x]
      /\ R \in [Heads -> Seq(Slots)]
  BY <1>1
<1>7. In(Q[hd], e)
  BY <1>1, FirstIn
<1> HIDE DEF R
<1>8. ASSUME NEW s \in Slots PROVE In(R[hd], s) <=> In(Q[hd], s) /\ s # e
  <2> DEFINE q == Q[hd]
  <2>0. PICK m \in Nat : m = Len(q)
    BY <1>1
  <2>1. /\ Len(Tail(q)) = m - 1 /\ m # 0 /\ q[1] = e
        /\ \A i \in 1..(m - 1) : Tail(q)[i] = q[i + 1]
    BY <1>1, <2>0
  <2>2. In(Tail(q), s) => In(q, s)
    <3> SUFFICES ASSUME NEW i \in 1..(m - 1), Tail(q)[i] = s PROVE In(q, s)
      BY <2>1 DEF In
    <3>1. i + 1 \in 1..m /\ q[i + 1] = s
      BY <2>0, <2>1
    <3> QED
      BY <2>0, <3>1 DEF In
  <2>3. In(q, s) /\ s # e => In(Tail(q), s)
    <3> SUFFICES ASSUME NEW i \in 1..m, q[i] = s, s # e PROVE In(Tail(q), s)
      BY <2>0 DEF In
    <3>1. i # 1 /\ i - 1 \in 1..(m - 1) /\ (i - 1) + 1 = i
      <4>1. i # 1
        BY <2>1
      <4> QED
        BY <4>1
    <3>2. Tail(q)[i - 1] = s
      <4>1. Tail(q)[i - 1] = q[(i - 1) + 1]
        BY <2>1, <3>1
      <4> QED
        BY <3>1, <4>1
    <3> QED
      BY <2>1, <3>1, <3>2 DEF In
  <2>4. ~ In(R[hd], e)
    BY <1>2 DEF OnList
  <2> QED
    BY <1>6, <2>2, <2>3, <2>4
<1>9. ASSUME NEW x \in Heads \ {hd}, NEW s \in Slots
      PROVE  In(R[x], s) <=> In(Q[x], s) /\ s # e
  BY <1>1, <1>6, <1>7, OneList
<1>10. \A x \in Heads, s \in Slots : In(R[x], s) <=> In(Q[x], s) /\ s # e
  BY <1>8, <1>9
<1>11. Del(k, e) = [k EXCEPT !.heap = Del(k, e).heap]
  BY <1>3, <1>5
<1> QED
  BY <1>1, <1>2, <1>4, <1>5, <1>6, <1>7, <1>10, <1>11
  DEF R, FirstTaken

-----------------------------------------------------------------------------
(***************************************************************************)
(* A walk along the pointers sees the sequence.  The provers cannot        *)
(* instantiate the induction theorems of the library, whose parameter is a *)
(* predicate; its theorem that < is well-founded is about sets, and gives  *)
(* an induction that is about sets too.                                    *)
(***************************************************************************)

\* A set of naturals that is not empty has a least element.
LEMMA LeastNatural ==
  ASSUME NEW S, S \subseteq Nat, S # {}
  PROVE  \E n \in S : \A m \in S : n <= m
<1> DEFINE R == {p \in Nat \X Nat : p[1] < p[2]}
<1>1. IsWellFoundedOn(R, Nat)
  BY NatLessThanWellFounded, Zenon DEF OpToRel
<1>2. \A a, b \in Nat : a < b => <<a, b>> \in R
  OBVIOUS
<1> HIDE DEF R
<1>3. PICK n \in S : \A m \in S : ~ (<<m, n>> \in R)
  BY <1>1, WFMin
<1>4. ASSUME NEW m \in S PROVE n <= m
  <2>1. m \in Nat /\ n \in Nat /\ ~ (m < n)
    BY <1>2, <1>3
  <2> QED
    BY <2>1
<1> QED
  BY <1>3, <1>4

\* Induction: what holds of 0 and of the successors up to N holds up to N.
LEMMA InductionUpTo ==
  ASSUME NEW N \in Nat, NEW S,
         0 \in S, \A n \in 0..(N - 1) : n \in S => n + 1 \in S
  PROVE  \A n \in 0..N : n \in S
<1> DEFINE B == {n \in 0..N : n \notin S}
<1> SUFFICES ASSUME B # {} PROVE FALSE
  OBVIOUS
<1>1. PICK n \in B : \A m \in B : n <= m
  <2>1. B \subseteq Nat
    OBVIOUS
  <2> HIDE DEF B
  <2> QED
    BY <2>1, LeastNatural
<1>2. n \in 0..N /\ n # 0
  OBVIOUS
<1>3. n - 1 \in 0..(N - 1) /\ n - 1 < n /\ (n - 1) + 1 = n
  BY <1>2
<1> QED
  BY <1>1, <1>2, <1>3

\* The cells of the lists are finitely many.
LEMMA CellsFinite == IsFiniteSet(Cells) /\ Cardinality(Cells) \in Nat
<1>1. IsFiniteSet(Slots)
  BY SlotAssumption, FS_Interval DEF Slots
<1>2. IsFiniteSet(Heads)
  <2>1. IsFiniteSet({}) /\ Heads = (({} \cup {freequeue}) \cup {readyqueue})
                                    \cup {console_blocked}
    BY FS_EmptySet DEF Heads
  <2> QED
    BY <2>1, FS_AddElement
<1> QED
  BY <1>1, <1>2, FS_Union, FS_CardinalityType DEF Cells

\* Nth is what its recursion says.
LEMMA NthSteps ==
  ASSUME NEW h, NEW hd
  PROVE  /\ Nth(h, hd)[0] = hd
         /\ \A n \in 1..Cardinality(Cells) :
              Nth(h, hd)[n] = IF Nth(h, hd)[n - 1] = NULL THEN NULL
                              ELSE h.next[Nth(h, hd)[n - 1]]
<1> DEFINE C == Cardinality(Cells)
           from(f, n) == IF n = 0 THEN hd
                         ELSE IF f[n - 1] = NULL THEN NULL ELSE h.next[f[n - 1]]
           S == {N \in 0..C : \E f : f = [n \in 0..N |-> from(f, n)]}
<1>1. C \in Nat
  BY CellsFinite
<1> HIDE DEF C
<1>2. 0 \in S
  <2> DEFINE f == [n \in 0..0 |-> hd]
  <2>1. \A n \in 0..0 : hd = from(f, n)
    OBVIOUS
  <2>2. f = [n \in 0..0 |-> from(f, n)]
    BY <2>1, Zenon
  <2> HIDE DEF f
  <2>3. \E g : g = [n \in 0..0 |-> from(g, n)]
    BY <2>2, Zenon
  <2> HIDE DEF from
  <2> QED
    BY <1>1, <2>3
<1>3. ASSUME NEW N \in 0..(C - 1), N \in S PROVE N + 1 \in S
  <2>1. PICK f : f = [n \in 0..N |-> from(f, n)]
    BY <1>3
  <2> DEFINE g == [n \in 0..(N + 1) |-> IF n = N + 1 THEN from(f, n) ELSE f[n]]
  <2>2. \A n \in 0..(N + 1) : g[n] = from(g, n)
    <3> SUFFICES ASSUME NEW n \in 0..(N + 1) PROVE g[n] = from(g, n)
      OBVIOUS
    <3>1. n # 0 => n - 1 \in 0..N /\ n - 1 # N + 1 /\ n - 1 \in 0..(N + 1)
      BY <1>1
    <3>2. from(g, n) = from(f, n)
      BY <3>1
    <3>3. n # N + 1 => f[n] = from(f, n)
      <4> SUFFICES ASSUME n \in 0..N PROVE f[n] = from(f, n)
        BY <1>1
      <4> HIDE DEF from
      <4> QED
        BY <2>1
    <3> QED
      BY <3>2, <3>3
  <2>3. g = [n \in 0..(N + 1) |-> from(g, n)]
    <3> DEFINE r == [n \in 0..(N + 1) |-> from(g, n)]
    <3>1. \A n \in 0..(N + 1) : g[n] = r[n]
      BY <2>2
    <3> QED
      BY <3>1
  <2>4. N + 1 \in 0..C
    BY <1>1
  <2> QED
    BY <2>3, <2>4
<1>4. C \in S
  <2> HIDE DEF S
  <2> QED
    BY <1>1, <1>2, <1>3, InductionUpTo
<1>5. PICK f : f = [n \in 0..C |-> from(f, n)]
  BY <1>4
<1> DEFINE at == Nth(h, hd)
<1>6. at = [n \in 0..C |-> from(at, n)]
  BY <1>5, Zenon DEF Nth, C
<1> HIDE DEF at
<1>7. \A n \in 0..C : at[n] = from(at, n)
  <2> HIDE DEF from
  <2> QED
    BY <1>6
<1>8. 0 \in 0..C /\ \A n \in 1..C : n \in 0..C /\ n # 0
  BY <1>1
<1> QED
  BY <1>7, <1>8 DEF at, C

\* A list fits into the cells, its head among them.
LEMMA RingFits ==
  ASSUME NEW h, NEW Q, Rings(h, Q), NEW hd \in Heads
  PROVE  Len(Q[hd]) + 1 \in 1..Cardinality(Cells)
<1> DEFINE q == Q[hd]
           n == Len(q)
           f == [i \in 1..(n + 1) |-> IF i = n + 1 THEN hd ELSE q[i]]
<1>1. q \in Seq(Slots) /\ n \in Nat
  BY DEF Rings
<1>2. \A i \in 1..n : q[i] \in Cells /\ q[i] # hd
  BY <1>1, SlotAssumption DEF Cells
<1>3. \A i, j \in 1..n : q[i] = q[j] => i = j
  BY DEF Rings
<1>4. hd \in Cells
  BY DEF Cells
<1> HIDE DEF q, n
<1>5. \A i \in 1..(n + 1) : i # n + 1 => i \in 1..n
  BY <1>1
<1>6. f \in Injection(1..(n + 1), Cells)
  <2>1. f \in [1..(n + 1) -> Cells]
    BY <1>2, <1>4, <1>5
  <2>2. \A i, j \in 1..(n + 1) : f[i] = f[j] => i = j
    BY <1>2, <1>3, <1>5
  <2> QED
    BY <2>1, <2>2 DEF Injection, IsInjective
<1>7. Cardinality(1..(n + 1)) = n + 1 /\ IsFiniteSet(1..(n + 1))
  BY <1>1, FS_Interval
<1>8. Cardinality(1..(n + 1)) <= Cardinality(Cells)
  BY <1>6, CellsFinite, FS_Injection
<1> QED
  BY <1>1, <1>7, <1>8, CellsFinite DEF n, q

\* A walk from a list head meets the entries of the sequence in their order and
\* then the head.
LEMMA WalkOfRing ==
  ASSUME NEW h, NEW Q, Rings(h, Q), NEW hd \in Heads
  PROVE  LET at == Nth(h, hd)
         IN  /\ \A n \in 1..Len(Q[hd]) : at[n] = Q[hd][n]
             /\ at[Len(Q[hd]) + 1] = hd
<1> DEFINE q == Q[hd]
           l == Len(q)
           at == Nth(h, hd)
           C == Cardinality(Cells)
           S == {n \in 0..l : at[n] = IF n = 0 THEN hd ELSE q[n]}
<1>1. q \in Seq(Slots) /\ l \in Nat /\ Ring(h, hd, q)
  BY DEF Rings
<1>2. l + 1 \in 1..C /\ C \in Nat
  BY RingFits, CellsFinite
<1>3. /\ at[0] = hd
      /\ \A n \in 1..C : at[n - 1] # NULL => at[n] = h.next[at[n - 1]]
  BY NthSteps
<1>4. hd # NULL /\ \A n \in 1..l : q[n] \in Slots /\ q[n] # NULL
  BY <1>1, SlotAssumption DEF Cells
<1>5. \A n \in 1..l : h.next[q[n]] = IF n = l THEN hd ELSE q[n + 1]
  BY <1>1 DEF Ring
<1>6. h.next[hd] = IF l = 0 THEN hd ELSE q[1]
  BY <1>1 DEF Ring
<1> HIDE DEF at, l, q, C
<1>7. 0 \in S
  BY <1>1, <1>3
<1>8. ASSUME NEW n \in 0..(l - 1), n \in S PROVE n + 1 \in S
  <2>1. n + 1 \in 1..C /\ (n + 1) - 1 = n /\ n + 1 \in 0..l /\ n + 1 # 0
    BY <1>1, <1>2
  <2>2. at[n] # NULL
    BY <1>1, <1>4, <1>8
  <2>3. at[n + 1] = h.next[at[n]]
    BY <1>3, <2>1, <2>2
  <2>4. h.next[at[n]] = q[n + 1]
    BY <1>1, <1>5, <1>6, <1>8
  <2> QED
    BY <2>1, <2>3, <2>4
<1>9. \A n \in 0..l : n \in S
  <2> HIDE DEF S
  <2> QED
    BY <1>1, <1>7, <1>8, InductionUpTo
<1>10. at[l] = IF l = 0 THEN hd ELSE q[l]
  BY <1>1, <1>9
<1>11. at[l] # NULL /\ h.next[at[l]] = hd
  BY <1>1, <1>4, <1>5, <1>6, <1>10
<1>12. at[l + 1] = hd
  <2>1. l + 1 \in 1..C /\ (l + 1) - 1 = l
    BY <1>1, <1>2
  <2> QED
    BY <1>3, <1>11, <2>1
<1>13. \A n \in 1..l : at[n] = q[n]
  BY <1>1, <1>9
<1> QED
  BY <1>12, <1>13 DEF at, l, q

\* Entries is the sequence.
LEMMA EntriesOfRing ==
  ASSUME NEW h, NEW Q, Rings(h, Q), NEW hd \in Heads
  PROVE  IsRing(h, hd) /\ Entries(h, hd) = Q[hd]
<1> DEFINE q == Q[hd]
           l == Len(q)
           at == Nth(h, hd)
           C == Cardinality(Cells)
           first(n) == at[n] = hd /\ \A m \in 1..(n - 1) : at[m] # hd
           len == CHOOSE n \in 1..C : first(n)
<1>1. q \in Seq(Slots) /\ l \in Nat /\ C \in Nat /\ l + 1 \in 1..C
  BY RingFits, CellsFinite DEF Rings
<1>2. at[l + 1] = hd /\ \A n \in 1..l : at[n] = q[n]
  BY WalkOfRing
<1>3. \A n \in 1..l : q[n] # hd
  BY <1>1, SlotAssumption
<1>4. IsRing(h, hd)
  BY <1>1, <1>2 DEF IsRing
<1> HIDE DEF q, l, at, C
<1>5. \A n \in 1..C : first(n) <=> n = l + 1
  BY <1>1, <1>2, <1>3
<1>6. len = l + 1
  <2> HIDE DEF first
  <2> QED
    BY <1>1, <1>5
<1>7. Entries(h, hd) = [i \in 1..(len - 1) |-> at[i]]
  BY DEF Entries, at, C
<1> HIDE DEF len
<1>8. Entries(h, hd) = [i \in 1..l |-> q[i]]
  BY <1>1, <1>2, <1>6, <1>7
<1>9. q = [i \in 1..l |-> q[i]]
  BY <1>1 DEF l
<1> QED
  BY <1>4, <1>8, <1>9 DEF q

-----------------------------------------------------------------------------
(***************************************************************************)
(* Part two: the scheduler                                                 *)
(***************************************************************************)

(***************************************************************************)
(* The invariant.  LinksAgree is not inductive: it looks at one cell and   *)
(* its neighbours, and a ring that has come loose from its head looks      *)
(* right to each of its cells.  What is inductive is that the links are    *)
(* those of some sequences, one for each list head.                        *)
(***************************************************************************)

\* No program switches the policy, and yield is used only with round robin.
SteadyPolicy ==
  /\ "set_sched_policy" \notin Calls
  /\ BootPolicy = "FCFS" => "yield" \notin Calls

\* What holds of the lists also in the middle of a handler.
Core(k, Q) ==
  /\ k \in Kernel
  /\ Rings(k.heap, Q)
  /\ k.policy = BootPolicy
  /\ Idle \in k.procs
  /\ \A t \in Slots : t \notin k.procs <=> In(Q[freequeue], t)
  /\ ~ In(Q[console_blocked], Idle)
  /\ BootPolicy = "FCFS" => ~ In(Q[readyqueue], Idle)
  /\ BootPolicy = "RR" =>
       \A t \in k.procs :
         /\ In(Q[readyqueue], t) => k.state[t] = "READY"
         /\ In(Q[console_blocked], t) => k.state[t] = "BLOCKED"
         /\ ~ OnList(Q, t) => k.state[t] = "RUN"
  /\ \A t \in k.procs \ {k.cur} : k.saved[t] \notin {"none", "exit"}

\* The current process is on no list, every other one but idle is on one.
Settled(k, Q) ==
  /\ Core(k, Q)
  /\ k.cur \in k.procs /\ ~ OnList(Q, k.cur)
  /\ \A t \in k.procs \ {Idle, k.cur} : OnList(Q, t)

\* Every process but idle is on a list: the current one has been queued, or
\* is none any more, and is about to leave the CPU.
Leaving(k, Q) ==
  /\ Core(k, Q)
  /\ \A t \in k.procs \ {Idle} : OnList(Q, t)

\* Who waits at the console, and in which order, is what pending_reads says.
ConsoleAgrees(reads, q) ==
  /\ Len(q) = Len(reads)
  /\ \A i \in 1..Len(reads) : reads[i].task = q[i]

NoPanic(k) == k.panic = "no" \/ (k.panic = "context" /\ "yield" \in Calls)

Good(k) ==
  /\ k.rq \in 1..Quantum
  /\ NoPanic(k)
  /\ \E Q : Settled(k, Q) /\ ConsoleAgrees(k.reads, Q[console_blocked])

\* Under FCFS idle has the CPU only when nobody is ready.
IdleServed(k) ==
  BootPolicy = "FCFS" /\ k.cur = Idle => ListEmpty(k.heap, readyqueue)

SchedInv == Good(kernel) /\ (Running => IdleServed(kernel))

-----------------------------------------------------------------------------
(***************************************************************************)
(* What a handler does to the queues: Q are the lists it finds, R those it *)
(* leaves in the kernel r.                                                 *)
(***************************************************************************)

\* The first of q has got the CPU, or idle, and the rest of q is ready.
Dispatched(q, r, R) ==
  /\ R[readyqueue] = IF q = <<>> THEN <<>> ELSE Tail(q)
  /\ r.cur = IF q = <<>> THEN Idle ELSE q[1]
  /\ BootPolicy = "RR" => r.rq = Quantum

\* The process whose request has been served is ready, or none was served.
Woken(Q, R) ==
  \/ R[readyqueue] = Q[readyqueue] /\ R[console_blocked] = Q[console_blocked]
  \/ /\ Q[console_blocked] # <<>>
     /\ R[readyqueue] = Append(Q[readyqueue], Q[console_blocked][1])
     /\ R[console_blocked] = Tail(Q[console_blocked])

\* The process t, with rq ticks of its turn left, gives way if the turn is over
\* and others are ready, or stays, with a new turn if it is alone.
Rescheduled(t, rq, Q, r, R) ==
  /\ R[console_blocked] = Q[console_blocked]
  /\ \/ /\ R[readyqueue] = Q[readyqueue] /\ r.cur = t
        /\ r.rq = rq \/ (rq = 0 /\ Q[readyqueue] = <<>>)
     \/ /\ Q[readyqueue] # <<>> /\ r.cur # t
        /\ BootPolicy = "RR" => rq = 0
        /\ Dispatched(IF t = Idle /\ BootPolicy = "FCFS" THEN Q[readyqueue]
                      ELSE Append(Q[readyqueue], t), r, R)

\* What is left of the turn when a tick has been counted.
left_of_turn == IF BootPolicy = "RR" THEN kernel.rq - 1 ELSE kernel.rq

\* What the handlers make of the lists Q of the kernel.
Moved(Q, R) == Settled(kernel, Q) /\ Settled(kernel', R)

TickMoves(Q, R) ==
  \E W : Woken(Q, W) /\ Rescheduled(kernel.cur, left_of_turn, W, kernel', R)

ResumeMoves(Q, R) == Rescheduled(kernel.cur, left_of_turn, Q, kernel', R)

ForkMoves(Q, R) ==
  /\ \E c \in Slots \ kernel.procs : R[readyqueue] = Append(Q[readyqueue], c)
  /\ R[console_blocked] = Q[console_blocked]
  /\ kernel'.cur = kernel.cur /\ kernel'.rq = kernel.rq

ForkAgainMoves(Q, R) ==
  /\ R[readyqueue] = Q[readyqueue] /\ R[console_blocked] = Q[console_blocked]
  /\ kernel'.cur = kernel.cur /\ kernel'.rq = kernel.rq

ExitMoves(Q, R) ==
  /\ R[console_blocked] = Q[console_blocked]
  /\ Dispatched(Q[readyqueue], kernel', R)

YieldMoves(Q, R) ==
  /\ R[console_blocked] = Q[console_blocked]
  /\ Dispatched(Append(Q[readyqueue], kernel.cur), kernel', R)

ReadMoves(Q, R) ==
  /\ R[console_blocked] = Append(Q[console_blocked], kernel.cur)
  /\ Dispatched(Q[readyqueue], kernel', R)

-----------------------------------------------------------------------------
\* The list heads differ, and so do idle and task 1.
LEMMA HeadsDiffer ==
  /\ freequeue \in Heads /\ readyqueue \in Heads /\ console_blocked \in Heads
  /\ freequeue # readyqueue /\ freequeue # console_blocked
  /\ readyqueue # console_blocked
  /\ Idle \in Slots /\ Task1 \in Slots /\ Idle # Task1
  /\ \A t : (t \in Slots) => t \in Cells /\ t # NULL
BY SlotAssumption DEF Heads, Slots, Idle, Task1, Cells

\* An entry of some list is linked, any other is not.
LEMMA LinkedIsOnList ==
  ASSUME NEW h, NEW Q, Rings(h, Q), NEW t \in Slots
  PROVE  Linked(h, t) <=> OnList(Q, t)
<1>1. ~ OnList(Q, t) => ~ Linked(h, t)
  BY DEF Rings, Linked
<1>2. ASSUME OnList(Q, t) PROVE Linked(h, t)
  <2>0. PICK hd \in Heads : In(Q[hd], t)
    BY <1>2 DEF OnList
  <2>1. PICK i \in 1..Len(Q[hd]) : Q[hd][i] = t
    BY <2>0 DEF In
  <2>2. Q[hd] \in Seq(Slots) /\ hd # NULL
    BY SlotAssumption DEF Rings, Cells
  <2>3. i # Len(Q[hd]) => Q[hd][i + 1] \in Slots
    BY <2>1, <2>2
  <2>4. h.next[t] \in Slots \cup {hd}
    BY <2>1, <2>3 DEF Rings, Ring
  <2> QED
    BY <2>2, <2>4, HeadsDiffer DEF Linked
<1> QED
  BY <1>1, <1>2

\* The current process leaves the CPU for the list hd.
LEMMA QueueCurrent ==
  ASSUME NEW k, NEW Q, Settled(k, Q),
         NEW hd \in {readyqueue, console_blocked},
         hd = console_blocked => k.cur # Idle
  PROVE  LET r == update_process_state(k, k.cur, hd)
         IN  \E R :
               /\ Leaving(r, R)
               /\ r.cur = k.cur /\ r.reads = k.reads /\ r.rq = k.rq
               /\ r.panic = k.panic /\ r.procs = k.procs
               /\ IF k.cur = Idle /\ BootPolicy = "FCFS" THEN R = Q
                  ELSE R = [Q EXCEPT ![hd] = Append(@, k.cur)]
<1> DEFINE t == k.cur
<1>1. /\ k \in Kernel /\ t \in Slots /\ hd \in Heads /\ ~ OnList(Q, t)
      /\ Rings(k.heap, Q) /\ t \in k.procs /\ ~ Linked(k.heap, t)
      /\ k.policy = BootPolicy /\ BootPolicy \in {"RR", "FCFS"}
  BY CurType, HeadsDiffer, LinkedIsOnList, PolicyAssumption
  DEF Settled, Core, Policies
<1> DEFINE R == [Q EXCEPT ![hd] = Append(@, t)]
           a == AddTail(k, t, hd)
<1>2. /\ a \in Kernel /\ a = [k EXCEPT !.heap = a.heap]
      /\ Rings(a.heap, R)
      /\ \A x \in Heads, s \in Slots :
           In(R[x], s) <=> In(Q[x], s) \/ (x = hd /\ s = t)
  <2>1. Appended(k, Q, hd, t, a, R)
    BY <1>1, AddTailEffect
  <2> QED
    BY <2>1 DEF Appended
<1>3. \A s \in Slots : OnList(R, s) <=> OnList(Q, s) \/ s = t
  BY <1>1, <1>2 DEF OnList
<1> HIDE DEF R, a
<1>4. CASE BootPolicy = "RR"
  <2> DEFINE v == IF hd = readyqueue THEN "READY" ELSE "BLOCKED"
             r == [a EXCEPT !.state[t] = v]
  <2>1. update_process_state(k, t, hd) = r
    BY <1>1, <1>4 DEF update_process_state, update_process_state_rr, Settled, Core, a
  <2>2. /\ r \in Kernel /\ r.heap = a.heap /\ r.policy = k.policy
        /\ r.procs = k.procs /\ r.cur = k.cur /\ r.saved = k.saved
        /\ r.state = [k.state EXCEPT ![t] = v]
        /\ r.reads = k.reads /\ r.rq = k.rq /\ r.panic = k.panic
    BY <1>1, <1>2 DEF Kernel
  <2>3. \A s \in Slots : r.state[s] = IF s = t THEN v ELSE k.state[s]
    BY <1>1, <2>2 DEF Kernel
  <2>4. k.procs \subseteq Slots
    BY <1>1 DEF Kernel
  <2> HIDE DEF r
  <2>5. Core(r, R)
    <3>1. \A s \in r.procs :
            /\ In(R[readyqueue], s) => r.state[s] = "READY"
            /\ In(R[console_blocked], s) => r.state[s] = "BLOCKED"
            /\ ~ OnList(R, s) => r.state[s] = "RUN"
      <4> SUFFICES ASSUME NEW s \in k.procs
                   PROVE  /\ In(R[readyqueue], s) => r.state[s] = "READY"
                          /\ In(R[console_blocked], s) => r.state[s] = "BLOCKED"
                          /\ ~ OnList(R, s) => r.state[s] = "RUN"
        BY <2>2
      <4>1. CASE s = t
        BY <1>1, <1>2, <1>3, <2>3, <4>1, HeadsDiffer DEF OnList
      <4>2. CASE s # t
        BY <1>2, <1>3, <1>4, <2>3, <2>4, <4>2, HeadsDiffer DEF Settled, Core
      <4> QED
        BY <4>1, <4>2
    <3>2. \A s \in Slots : s \notin r.procs <=> In(R[freequeue], s)
      BY <1>2, <2>2, HeadsDiffer DEF Settled, Core
    <3>3. ~ In(R[console_blocked], Idle)
      BY <1>2, HeadsDiffer DEF Settled, Core
    <3> QED
      BY <1>2, <1>4, <2>2, <3>1, <3>2, <3>3 DEF Settled, Core
  <2>6. Leaving(r, R)
    BY <1>3, <2>2, <2>4, <2>5 DEF Settled, Leaving
  <2> QED
    BY <1>4, <2>1, <2>2, <2>6 DEF R
<1>5. CASE BootPolicy = "FCFS" /\ t = Idle
  <2>1. update_process_state(k, t, hd) = k
    BY <1>1, <1>5 DEF update_process_state, update_process_state_fcfs
  <2>2. Leaving(k, Q)
    BY <1>5 DEF Settled, Leaving
  <2> QED
    BY <1>5, <2>1, <2>2
<1>6. CASE BootPolicy = "FCFS" /\ t # Idle
  <2>1. update_process_state(k, t, hd) = a
    BY <1>1, <1>6 DEF update_process_state, update_process_state_fcfs, a
  <2>2. /\ a \in Kernel /\ a.policy = k.policy
        /\ a.procs = k.procs /\ a.cur = k.cur /\ a.saved = k.saved
        /\ a.reads = k.reads /\ a.rq = k.rq /\ a.panic = k.panic
    BY <1>1, <1>2 DEF Kernel
  <2>3. k.procs \subseteq Slots
    BY <1>1 DEF Kernel
  <2>4. Core(a, R)
    BY <1>2, <1>6, <2>2, HeadsDiffer DEF Settled, Core
  <2>5. Leaving(a, R)
    BY <1>3, <2>2, <2>3, <2>4 DEF Settled, Leaving
  <2> QED
    BY <1>6, <2>1, <2>2, <2>5 DEF R
<1> QED
  BY <1>1, <1>4, <1>5, <1>6

\* The first process in readyqueue, or idle, gets the CPU.
LEMMA DispatchNext ==
  ASSUME NEW k, NEW Q, Leaving(k, Q), NEW place \in Contexts \ {"none"},
         k.panic = "no", BootPolicy = "RR" \/ k.rq \in 1..Quantum,
         place = "exit" => k.cur \notin k.procs,
         "yield" \in Calls \/ first_ready(k) # k.cur,
         NEW r \in {sched_next(k, place), sched_next_rr(k, place)}
  PROVE  \E R :
           /\ Settled(r, R)
           /\ r.rq \in 1..Quantum /\ NoPanic(r)
           /\ first_ready(k) # k.cur => r.panic = "no"
           /\ r.reads = k.reads /\ R[console_blocked] = Q[console_blocked]
           /\ Dispatched(Q[readyqueue], r, R)
<1> DEFINE t == first_ready(k)
           d == take_ready(k)
           R == IF Q[readyqueue] = <<>> THEN Q ELSE [Q EXCEPT ![readyqueue] = Tail(@)]
<1>1. /\ k \in Kernel /\ Rings(k.heap, Q) /\ Q[readyqueue] \in Seq(Slots)
      /\ Idle \in k.procs /\ k.procs \subseteq Slots
      /\ k.policy = BootPolicy /\ BootPolicy \in {"RR", "FCFS"}
      /\ Quantum \in 1..Quantum
  BY HeadsDiffer, PolicyAssumption, SizeAssumption
  DEF Leaving, Core, Rings, Policies, Kernel
<1>2. /\ t \in Slots /\ t \in k.procs
      /\ t # Idle => OnList(Q, t)
      /\ d \in Kernel /\ d = [k EXCEPT !.heap = d.heap]
      /\ Rings(d.heap, R)
      /\ R[console_blocked] = Q[console_blocked]
      /\ R[readyqueue] = IF Q[readyqueue] = <<>> THEN <<>> ELSE Tail(Q[readyqueue])
      /\ t = IF Q[readyqueue] = <<>> THEN Idle ELSE Q[readyqueue][1]
      /\ ~ OnList(R, t)
      /\ \A x \in Heads, s \in Slots : In(R[x], s) <=> In(Q[x], s) /\ s # t
  <2>1. CASE Q[readyqueue] = <<>>
    <3>1. t = Idle /\ d = k /\ R = Q
      BY <1>1, <2>1, HeadsDiffer, FirstOfRing DEF first_ready, take_ready
    <3>2. \A s : ~ In(Q[readyqueue], s)
      BY <2>1 DEF In
    <3>3. \A x \in Heads : ~ In(Q[x], Idle)
      BY <1>1, <3>2, HeadsDiffer DEF Leaving, Core, Heads
    <3>4. d = [k EXCEPT !.heap = d.heap]
      BY <1>1, <3>1 DEF Kernel
    <3> QED
      BY <1>1, <2>1, <3>1, <3>3, <3>4, HeadsDiffer DEF OnList
  <2>2. CASE Q[readyqueue] # <<>>
    <3>1. t = Q[readyqueue][1] /\ d = Del(k, t)
      BY <1>1, <2>2, HeadsDiffer, FirstOfRing DEF first_ready, take_ready
    <3>2. R = [Q EXCEPT ![readyqueue] = Tail(@)]
      BY <2>2
    <3> HIDE DEF t, d, R
    <3>3. /\ t \in Slots /\ In(Q[readyqueue], t)
          /\ d \in Kernel /\ d = [k EXCEPT !.heap = d.heap]
          /\ Rings(d.heap, R)
          /\ \A x \in Heads \ {readyqueue} : R[x] = Q[x]
          /\ ~ OnList(R, t)
          /\ \A x \in Heads, s \in Slots : In(R[x], s) <=> In(Q[x], s) /\ s # t
      <4>1. /\ readyqueue \in Heads /\ k \in Kernel /\ Rings(k.heap, Q)
            /\ Q[readyqueue] # <<>>
        BY <1>1, <2>2, HeadsDiffer
      <4>2. t = Q[readyqueue][1]
        BY <3>1
      <4>3. FirstTaken(k, Q, readyqueue, t, Del(k, t),
                       [Q EXCEPT ![readyqueue] = Tail(@)])
        BY <4>1, <4>2, DelFirstEffect
      <4> QED
        BY <3>1, <3>2, <4>3 DEF FirstTaken
    <3>4. t \in k.procs /\ OnList(Q, t)
      BY <1>1, <3>3, HeadsDiffer, OneList DEF Leaving, Core, OnList
    <3>5. R[readyqueue] = Tail(Q[readyqueue])
      BY <1>1, <3>2, HeadsDiffer DEF Leaving, Core, Rings
    <3> QED
      BY <2>2, <3>1, <3>3, <3>4, <3>5, HeadsDiffer
  <2> QED
    BY <2>1, <2>2
<1>3. /\ d.policy = k.policy /\ d.procs = k.procs /\ d.cur = k.cur
      /\ d.saved = k.saved /\ d.state = k.state /\ d.reads = k.reads
      /\ d.rq = k.rq /\ d.panic = k.panic
  BY <1>1, <1>2 DEF Kernel
<1>4. \A s \in Slots : OnList(R, s) <=> OnList(Q, s) /\ s # t
  BY <1>2 DEF OnList
<1> DEFINE e == [d EXCEPT !.state[t] = "RUN", !.rq = Quantum]
<1>5. PICK f : /\ r = task_switch(f, t, place)
               /\ f = e \/ (f = d /\ BootPolicy = "FCFS")
  <2>1. sched_next_rr(k, place) = task_switch(e, t, place)
    BY <1>2 DEF sched_next_rr
  <2>2. BootPolicy = "FCFS" => sched_next(k, place) = task_switch(d, t, place)
    BY <1>1, <1>2 DEF sched_next, sched_next_fcfs
  <2>3. BootPolicy = "RR" => sched_next(k, place) = sched_next_rr(k, place)
    BY <1>1 DEF sched_next
  <2> QED
    BY <1>1, <2>1, <2>2, <2>3
<1> HIDE DEF t, d, R
<1>6. /\ e \in Kernel /\ e.heap = d.heap
      /\ e.policy = k.policy /\ e.procs = k.procs /\ e.cur = k.cur
      /\ e.saved = k.saved /\ e.reads = k.reads /\ e.rq = Quantum
      /\ e.panic = k.panic /\ e.state = [k.state EXCEPT ![t] = "RUN"]
  <2>1. [k.state EXCEPT ![t] = "RUN"] \in [Slots -> {"RUN", "READY", "BLOCKED"}]
    BY <1>1, <1>2 DEF Kernel
  <2>2. Quantum \in Int
    BY SizeAssumption
  <2>3. /\ d \in Kernel /\ d.state = k.state /\ d.policy = k.policy /\ d.procs = k.procs
        /\ d.cur = k.cur /\ d.saved = k.saved /\ d.reads = k.reads /\ d.panic = k.panic
    BY <1>2, <1>3 DEF Kernel
  <2>4. e = [d EXCEPT !.state = [k.state EXCEPT ![t] = "RUN"], !.rq = Quantum]
    BY <1>2, <2>3
  <2> QED
    BY <2>1, <2>2, <2>3, <2>4 DEF Kernel
<1>7. /\ f \in Kernel /\ f.heap = d.heap /\ f.policy = k.policy
      /\ f.procs = k.procs /\ f.cur = k.cur /\ f.saved = k.saved
      /\ f.reads = k.reads /\ f.rq \in 1..Quantum /\ f.panic = "no"
      /\ BootPolicy = "RR" =>
           f.rq = Quantum /\ f.state = [k.state EXCEPT ![t] = "RUN"]
  <2>1. /\ d \in Kernel /\ Quantum \in 1..Quantum
        /\ BootPolicy = "FCFS" => BootPolicy # "RR" /\ k.rq \in 1..Quantum
    BY <1>1, <1>2
  <2> HIDE DEF e
  <2>2. CASE f = e
    BY <1>6, <2>1, <2>2
  <2>3. CASE f = d /\ BootPolicy = "FCFS"
    BY <1>3, <2>1, <2>3
  <2> QED
    BY <1>5, <2>2, <2>3
<1> HIDE DEF e
<1>8. /\ r \in Kernel /\ r.heap = d.heap /\ r.policy = k.policy
      /\ r.procs = k.procs /\ r.cur = t
      /\ r.saved = [k.saved EXCEPT ![k.cur] = place]
      /\ r.reads = k.reads /\ r.rq = f.rq /\ r.state = f.state
      /\ r.panic \in {"no", "context"}
      /\ r.panic = "context" =>
           \/ t # k.cur /\ k.saved[t] \in {"none", "exit"}
           \/ t = k.cur
  <2>1. r \in Kernel /\ t \in Slots
    BY <1>2, <1>5, <1>7, TaskSwitchType
  <2>2. f \in Kernel /\ r = task_switch(f, t, place)
    BY <1>5, <1>7
  <2>3. /\ r.heap = f.heap /\ r.policy = f.policy /\ r.procs = f.procs /\ r.cur = t
        /\ r.saved = [f.saved EXCEPT ![f.cur] = place]
        /\ r.reads = f.reads /\ r.rq = f.rq /\ r.state = f.state
    BY <2>2 DEF task_switch, Kernel
  <2>4. r.panic = IF \/ t # f.cur /\ f.saved[t] \in {"none", "exit"}
                     \/ t = f.cur /\ f.saved[t] # place
                  THEN "context" ELSE f.panic
    BY <2>2 DEF task_switch, Kernel
  <2> QED
    BY <1>7, <2>1, <2>3, <2>4
<1>9. /\ \A s \in Slots : r.saved[s] = IF s = k.cur THEN place ELSE k.saved[s]
      /\ BootPolicy = "RR" =>
           \A s \in Slots : r.state[s] = IF s = t THEN "RUN" ELSE k.state[s]
  BY <1>1, <1>2, <1>7, <1>8 DEF Kernel
<1>10. NoPanic(r) /\ (first_ready(k) # k.cur => r.panic = "no")
  <2>1. t # k.cur => k.saved[t] \notin {"none", "exit"}
    BY <1>2 DEF Leaving, Core
  <2> QED
    BY <1>8, <2>1 DEF NoPanic, t
<1>11. Core(r, R)
  <2>1. \A s \in r.procs \ {r.cur} : r.saved[s] \notin {"none", "exit"}
    <3> SUFFICES ASSUME NEW s \in k.procs \ {t}
                 PROVE  r.saved[s] \notin {"none", "exit"}
      BY <1>8
    <3>1. CASE s = k.cur
      BY <1>1, <1>9, <3>1
    <3>2. CASE s # k.cur
      BY <1>1, <1>9, <3>2 DEF Leaving, Core
    <3> QED
      BY <3>1, <3>2
  <2>2. BootPolicy = "RR" =>
          \A s \in r.procs :
            /\ In(R[readyqueue], s) => r.state[s] = "READY"
            /\ In(R[console_blocked], s) => r.state[s] = "BLOCKED"
            /\ ~ OnList(R, s) => r.state[s] = "RUN"
    <3> SUFFICES ASSUME BootPolicy = "RR", NEW s \in k.procs
                 PROVE  /\ In(R[readyqueue], s) => r.state[s] = "READY"
                        /\ In(R[console_blocked], s) => r.state[s] = "BLOCKED"
                        /\ ~ OnList(R, s) => r.state[s] = "RUN"
      BY <1>8
    <3>1. CASE s = t
      BY <1>2, <1>9, <3>1, HeadsDiffer
    <3>2. CASE s # t
      BY <1>1, <1>2, <1>4, <1>9, <3>2, HeadsDiffer DEF Leaving, Core
    <3> QED
      BY <3>1, <3>2
  <2>3. \A s \in Slots : s \notin r.procs <=> In(R[freequeue], s)
    BY <1>2, <1>8, HeadsDiffer, OneList DEF Leaving, Core
  <2> QED
    BY <1>1, <1>2, <1>8, <2>1, <2>2, <2>3, HeadsDiffer DEF Leaving, Core
<1>12. Settled(r, R)
  BY <1>1, <1>2, <1>4, <1>8, <1>11 DEF Settled, Leaving
<1>13. Dispatched(Q[readyqueue], r, R)
  BY <1>2, <1>7, <1>8 DEF Dispatched
<1> QED
  BY <1>2, <1>7, <1>8, <1>10, <1>12, <1>13

\* The process whose request has been served goes to the readyqueue.
LEMMA WakeFirst ==
  ASSUME NEW k, NEW Q, Settled(k, Q), Q[console_blocked] # <<>>,
         NEW t, t = Q[console_blocked][1]
  PROVE  LET r == update_process_state(k, t, readyqueue)
         IN  \E R :
               /\ Settled(r, R)
               /\ r.cur = k.cur /\ r.reads = k.reads /\ r.rq = k.rq
               /\ r.panic = k.panic
               /\ R[console_blocked] = Tail(Q[console_blocked])
               /\ R[readyqueue] = Append(Q[readyqueue], t)
<1> DEFINE d == Del(k, t)
           P == [Q EXCEPT ![console_blocked] = Tail(@)]
           a == AddTail(d, t, readyqueue)
           R == [P EXCEPT ![readyqueue] = Append(@, t)]
<1>1. /\ console_blocked \in Heads /\ k \in Kernel /\ Rings(k.heap, Q)
      /\ Q[console_blocked] # <<>> /\ t = Q[console_blocked][1]
  BY HeadsDiffer DEF Settled, Core
<1>2. /\ t \in Slots /\ In(Q[console_blocked], t) /\ Linked(k.heap, t)
      /\ d \in Kernel /\ d = [k EXCEPT !.heap = d.heap]
      /\ Rings(d.heap, P) /\ ~ OnList(P, t)
      /\ P[console_blocked] = Tail(Q[console_blocked])
      /\ P[readyqueue] = Q[readyqueue]
      /\ \A x \in Heads, s \in Slots : In(P[x], s) <=> In(Q[x], s) /\ s # t
  <2>1. FirstTaken(k, Q, console_blocked, t, d, P)
    BY <1>1, DelFirstEffect
  <2> HIDE DEF d, P
  <2> QED
    BY <2>1, HeadsDiffer DEF FirstTaken
<1> HIDE DEF d, P
<1>3. /\ a \in Kernel /\ a = [d EXCEPT !.heap = a.heap]
      /\ Rings(a.heap, R)
      /\ \A x \in Heads \ {readyqueue} : R[x] = P[x]
      /\ R[readyqueue] = Append(P[readyqueue], t)
      /\ \A x \in Heads, s \in Slots :
           In(R[x], s) <=> In(P[x], s) \/ (x = readyqueue /\ s = t)
  <2>1. /\ readyqueue \in Heads /\ t \in Slots /\ d \in Kernel
        /\ Rings(d.heap, P) /\ ~ OnList(P, t)
    BY <1>2, HeadsDiffer
  <2>2. Appended(d, P, readyqueue, t, a, R)
    BY <2>1, AddTailEffect
  <2> HIDE DEF a, R
  <2> QED
    BY <2>2 DEF Appended
<1> HIDE DEF a, R
<1>4. /\ R[console_blocked] = Tail(Q[console_blocked])
      /\ R[readyqueue] = Append(Q[readyqueue], t)
  BY <1>2, <1>3, HeadsDiffer
<1>5. /\ t \in k.procs /\ t # Idle /\ t # k.cur /\ OnList(Q, t)
      /\ k.procs \subseteq Slots /\ k.cur \in Slots
      /\ k.policy = BootPolicy /\ BootPolicy \in {"RR", "FCFS"}
  <2>1. ~ In(Q[freequeue], t)
    BY <1>1, <1>2, HeadsDiffer, OneList
  <2> QED
    BY <1>1, <1>2, <2>1, HeadsDiffer, CurType, PolicyAssumption
    DEF Settled, Core, OnList, Kernel, Policies
<1>6. \A s \in Slots : OnList(R, s) <=> OnList(Q, s)
  <2>1. \A s \in Slots : OnList(P, s) <=> OnList(Q, s) /\ s # t
    BY <1>2 DEF OnList
  <2>2. \A s \in Slots : OnList(R, s) <=> OnList(P, s) \/ s = t
    BY <1>3, HeadsDiffer DEF OnList
  <2> QED
    BY <1>5, <2>1, <2>2
<1>7. /\ a.policy = k.policy /\ a.procs = k.procs /\ a.cur = k.cur
      /\ a.saved = k.saved /\ a.state = k.state /\ a.reads = k.reads
      /\ a.rq = k.rq /\ a.panic = k.panic
  <2>1. /\ d.policy = k.policy /\ d.procs = k.procs /\ d.cur = k.cur
        /\ d.saved = k.saved /\ d.state = k.state /\ d.reads = k.reads
        /\ d.rq = k.rq /\ d.panic = k.panic
    BY <1>1, <1>2 DEF Kernel
  <2> QED
    BY <1>2, <1>3, <2>1 DEF Kernel
<1>8. /\ \A s \in Slots : s \notin k.procs <=> In(R[freequeue], s)
      /\ ~ In(R[console_blocked], Idle)
      /\ BootPolicy = "FCFS" => ~ In(R[readyqueue], Idle)
  <2>1. /\ \A s \in Slots : s \notin k.procs <=> In(Q[freequeue], s)
        /\ ~ In(Q[console_blocked], Idle)
        /\ BootPolicy = "FCFS" => ~ In(Q[readyqueue], Idle)
    BY <1>2 DEF Settled, Core
  <2> QED
    BY <1>2, <1>3, <1>5, <2>1, HeadsDiffer
<1>9. CASE BootPolicy = "RR"
  <2> DEFINE r == [a EXCEPT !.state[t] = "READY"]
  <2>1. k.state[t] = "BLOCKED"
    BY <1>2, <1>5, <1>9 DEF Settled, Core
  <2>2. update_process_state(k, t, readyqueue) = r
    BY <1>5, <1>9, <2>1
    DEF update_process_state, update_process_state_rr, a, d
  <2>3. /\ r \in Kernel /\ r.heap = a.heap /\ r.policy = k.policy
        /\ r.procs = k.procs /\ r.cur = k.cur /\ r.saved = k.saved
        /\ r.reads = k.reads /\ r.rq = k.rq /\ r.panic = k.panic
        /\ r.state = [k.state EXCEPT ![t] = "READY"]
    BY <1>2, <1>3, <1>7 DEF Kernel
  <2>4. \A s \in Slots : r.state[s] = IF s = t THEN "READY" ELSE k.state[s]
    BY <1>1, <1>2, <2>3 DEF Kernel
  <2> HIDE DEF r
  <2>5. \A s \in r.procs :
          /\ In(R[readyqueue], s) => r.state[s] = "READY"
          /\ In(R[console_blocked], s) => r.state[s] = "BLOCKED"
          /\ ~ OnList(R, s) => r.state[s] = "RUN"
    <3> SUFFICES ASSUME NEW s \in k.procs
                 PROVE  /\ In(R[readyqueue], s) => r.state[s] = "READY"
                        /\ In(R[console_blocked], s) => r.state[s] = "BLOCKED"
                        /\ ~ OnList(R, s) => r.state[s] = "RUN"
      BY <2>3
    <3>1. CASE s = t
      BY <1>2, <1>3, <1>5, <1>6, <2>4, <3>1, HeadsDiffer
    <3>2. CASE s # t
      BY <1>2, <1>3, <1>5, <1>6, <1>9, <2>4, <3>2, HeadsDiffer
      DEF Settled, Core
    <3> QED
      BY <3>1, <3>2
  <2>6. Core(r, R)
    BY <1>3, <1>8, <1>9, <2>3, <2>5 DEF Settled, Core
  <2>7. Settled(r, R)
    BY <1>5, <1>6, <2>3, <2>6 DEF Settled
  <2> QED
    BY <1>4, <2>2, <2>3, <2>7
<1>10. CASE BootPolicy = "FCFS"
  <2>1. update_process_state(k, t, readyqueue) = a
    BY <1>2, <1>5, <1>10
    DEF update_process_state, update_process_state_fcfs, a, d
  <2>2. Core(a, R)
    BY <1>3, <1>7, <1>8, <1>10 DEF Settled, Core
  <2>3. Settled(a, R)
    BY <1>5, <1>6, <1>7, <2>2 DEF Settled
  <2> QED
    BY <1>4, <1>7, <2>1, <2>3
<1> QED
  BY <1>5, <1>9, <1>10

\* The current process gives way, or not, at the end of a handler.
LEMMA Reschedule ==
  ASSUME NEW k, NEW Q, Settled(k, Q), NEW place \in {"tick", "unblock"},
         k.panic = "no",
         k.rq \in 1..Quantum \/ (BootPolicy = "RR" /\ k.rq = 0)
  PROVE  \E R :
           /\ Settled(reschedule(k, place), R)
           /\ reschedule(k, place).rq \in 1..Quantum
           /\ reschedule(k, place).panic = "no"
           /\ reschedule(k, place).reads = k.reads
           /\ Rescheduled(k.cur, k.rq, Q, reschedule(k, place), R)
<1> DEFINE u == update_process_state(k, k.cur, readyqueue)
<1>1. /\ k \in Kernel /\ Rings(k.heap, Q) /\ Q[readyqueue] \in Seq(Slots)
      /\ k.policy = BootPolicy /\ BootPolicy \in {"RR", "FCFS"}
      /\ k.cur \in Slots /\ k.cur \in k.procs /\ ~ OnList(Q, k.cur)
  BY HeadsDiffer, CurType, PolicyAssumption
  DEF Settled, Core, Rings, Policies
<1>2. CASE needs_sched(k)
  <2>1. /\ Q[readyqueue] # <<>>
        /\ BootPolicy = "FCFS" => k.cur = Idle
        /\ BootPolicy = "RR" => k.rq = 0
    BY <1>1, <1>2, HeadsDiffer, FirstOfRing DEF needs_sched
  <2>2. PICK R :
          /\ Leaving(u, R)
          /\ u.cur = k.cur /\ u.reads = k.reads /\ u.rq = k.rq
          /\ u.panic = k.panic /\ u.procs = k.procs
          /\ IF k.cur = Idle /\ BootPolicy = "FCFS" THEN R = Q
             ELSE R = [Q EXCEPT ![readyqueue] = Append(@, k.cur)]
    BY HeadsDiffer, QueueCurrent
  <2> HIDE DEF u
  <2>3. /\ first_ready(u) # u.cur
        /\ R[readyqueue] # <<>> /\ R[readyqueue][1] # k.cur
    <3>1. Rings(u.heap, R) /\ Q \in [Heads -> Seq(Slots)]
      BY <1>1, <2>2 DEF Leaving, Core, Rings
    <3>2. R[readyqueue] # <<>> /\ R[readyqueue][1] = Q[readyqueue][1]
      <4>1. CASE R = Q
        BY <2>1, <4>1
      <4>2. CASE R = [Q EXCEPT ![readyqueue] = Append(@, k.cur)]
        <5>1. R[readyqueue] = Append(Q[readyqueue], k.cur)
          BY <3>1, <4>2, HeadsDiffer
        <5>2. \A q \in Seq(Slots) : q # <<>> =>
                /\ Append(q, k.cur)[1] = q[1]
                /\ Len(Append(q, k.cur)) # 0
          OBVIOUS
        <5> QED
          BY <1>1, <2>1, <5>1, <5>2
      <4> QED
        BY <2>2, <4>1, <4>2
    <3>3. first_ready(u) = Q[readyqueue][1]
      BY <3>1, <3>2, HeadsDiffer, FirstOfRing DEF first_ready
    <3>4. Q[readyqueue][1] # k.cur
      BY <1>1, <2>1, FirstIn, HeadsDiffer DEF OnList
    <3> QED
      BY <2>2, <3>2, <3>3, <3>4
  <2>4. reschedule(k, place) = sched_next(u, place)
    BY <1>2 DEF reschedule, u
  <2>5. /\ place \in Contexts \ {"none"} /\ place # "exit" /\ u.panic = "no"
        /\ BootPolicy = "RR" \/ u.rq \in 1..Quantum
    BY <1>1, <2>1, <2>2 DEF Contexts
  <2>6. PICK S :
          /\ Settled(sched_next(u, place), S)
          /\ sched_next(u, place).rq \in 1..Quantum
          /\ sched_next(u, place).panic = "no"
          /\ sched_next(u, place).reads = u.reads
          /\ S[console_blocked] = R[console_blocked]
          /\ Dispatched(R[readyqueue], sched_next(u, place), S)
    BY <2>2, <2>3, <2>5, DispatchNext
  <2>7. /\ R[console_blocked] = Q[console_blocked]
        /\ R[readyqueue] = IF k.cur = Idle /\ BootPolicy = "FCFS" THEN Q[readyqueue]
                           ELSE Append(Q[readyqueue], k.cur)
    BY <1>1, <2>2, HeadsDiffer DEF Rings
  <2>8. sched_next(u, place).cur # k.cur
    BY <2>3, <2>6 DEF Dispatched
  <2>9. Rescheduled(k.cur, k.rq, Q, sched_next(u, place), S)
    BY <2>1, <2>6, <2>7, <2>8 DEF Rescheduled
  <2> QED
    BY <2>2, <2>4, <2>6, <2>9
<1>3. CASE ~ needs_sched(k)
  <2>1. reschedule(k, place) = renew_quantum(k)
    BY <1>3 DEF reschedule
  <2>2. \A n \in Int : Settled([k EXCEPT !.rq = n], Q)
    <3> SUFFICES ASSUME NEW n \in Int PROVE Settled([k EXCEPT !.rq = n], Q)
      OBVIOUS
    <3> DEFINE r == [k EXCEPT !.rq = n]
    <3>1. /\ r \in Kernel /\ r.heap = k.heap /\ r.policy = k.policy
          /\ r.procs = k.procs /\ r.cur = k.cur /\ r.saved = k.saved
          /\ r.state = k.state
      BY <1>1 DEF Kernel
    <3> HIDE DEF r
    <3>2. Settled(r, Q)
      BY <3>1 DEF Settled, Core
    <3> QED
      BY <3>2 DEF r
  <2>3. Quantum \in Int /\ Quantum \in 1..Quantum
    BY SizeAssumption
  <2>4. CASE k.policy = "RR" /\ k.rq = 0
    <3>1. reschedule(k, place) = [k EXCEPT !.rq = Quantum]
      BY <2>1, <2>4 DEF renew_quantum
    <3>2. /\ [k EXCEPT !.rq = Quantum].rq = Quantum
          /\ [k EXCEPT !.rq = Quantum].reads = k.reads
          /\ [k EXCEPT !.rq = Quantum].panic = k.panic
      BY <1>1 DEF Kernel
    <3>3. Rescheduled(k.cur, k.rq, Q, [k EXCEPT !.rq = Quantum], Q)
      <4>1. k.rq = 0 /\ Q[readyqueue] = <<>> /\ [k EXCEPT !.rq = Quantum].cur = k.cur
        BY <1>1, <1>3, <2>4, HeadsDiffer, FirstOfRing DEF needs_sched, Kernel
      <4> QED
        BY <4>1 DEF Rescheduled
    <3> QED
      BY <2>2, <2>3, <3>1, <3>2, <3>3
  <2>5. CASE ~ (k.policy = "RR" /\ k.rq = 0)
    <3>1. reschedule(k, place) = k
      BY <2>1, <2>5 DEF renew_quantum
    <3>2. Rescheduled(k.cur, k.rq, Q, k, Q)
      BY DEF Rescheduled
    <3> QED
      BY <1>1, <2>5, <3>1, <3>2
  <2> QED
    BY <2>4, <2>5
<1> QED
  BY <1>2, <1>3

\* Idle, where it is never queued, is dispatched only when nobody is ready.
LEMMA DispatchServes ==
  ASSUME NEW k \in Kernel, NEW Q, Rings(k.heap, Q), NEW place,
         BootPolicy = "FCFS" => ~ In(Q[readyqueue], Idle),
         NEW r \in {sched_next(k, place), sched_next_rr(k, place)}
  PROVE  IdleServed(r)
<1> SUFFICES ASSUME BootPolicy = "FCFS", r.cur = Idle
             PROVE  ListEmpty(r.heap, readyqueue)
  BY DEF IdleServed
<1> DEFINE t == first_ready(k)
           d == take_ready(k)
           e == [d EXCEPT !.state[t] = "RUN", !.rq = Quantum]
<1>1. Q[readyqueue] \in Seq(Slots)
  BY HeadsDiffer DEF Rings
<1>2. t \in Slots
  BY HeadsDiffer, FirstOfRing DEF first_ready
<1>3. d \in Kernel /\ e.heap = d.heap /\ "cur" \in DOMAIN d /\ "cur" \in DOMAIN e
      /\ "heap" \in DOMAIN d /\ "heap" \in DOMAIN e
  BY <1>2, DelType DEF take_ready, Kernel
<1>4. ASSUME Q[readyqueue] # <<>> PROVE t # Idle
  <2>1. t = Q[readyqueue][1]
    BY <1>4, HeadsDiffer, FirstOfRing DEF first_ready
  <2> QED
    BY <1>1, <1>4, <2>1, FirstIn
<1>5. ASSUME Q[readyqueue] = <<>> PROVE ListEmpty(d.heap, readyqueue)
  BY <1>5, HeadsDiffer, FirstOfRing DEF take_ready
<1>6. r \in {task_switch(d, t, place), task_switch(e, t, place)}
  BY <1>2 DEF sched_next, sched_next_rr, sched_next_fcfs
<1> HIDE DEF d, e, t
<1>7. ASSUME NEW x, "cur" \in DOMAIN x, "heap" \in DOMAIN x
      PROVE  /\ task_switch(x, t, place).cur = t
             /\ task_switch(x, t, place).heap = x.heap
  BY <1>7 DEF task_switch
<1>8. r.cur = t /\ r.heap = d.heap
  BY <1>3, <1>6, <1>7
<1> QED
  BY <1>4, <1>5, <1>8

\* Whoever is ready when a handler ends does not leave idle the CPU.
LEMMA RescheduleServes ==
  ASSUME NEW k, NEW Q, Settled(k, Q), NEW place
  PROVE  IdleServed(reschedule(k, place))
<1> SUFFICES ASSUME BootPolicy = "FCFS"
             PROVE  IdleServed(reschedule(k, place))
  BY DEF IdleServed
<1> DEFINE u == update_process_state(k, k.cur, readyqueue)
<1>1. k.policy = "FCFS"
  BY DEF Settled, Core
<1>2. CASE needs_sched(k)
  <2>1. PICK R : Leaving(u, R)
    BY HeadsDiffer, QueueCurrent
  <2> HIDE DEF u
  <2>2. IdleServed(sched_next(u, place))
    BY <2>1, DispatchServes DEF Leaving, Core
  <2> QED
    BY <1>2, <2>2 DEF reschedule, u
<1>3. CASE ~ needs_sched(k)
  <2>1. reschedule(k, place) = k
    BY <1>1, <1>3 DEF reschedule, renew_quantum
  <2> QED
    BY <1>1, <1>3, <2>1 DEF needs_sched, IdleServed
<1> QED
  BY <1>2, <1>3

\* Giving way, or not, keeps the invariant.
LEMMA RescheduleGood ==
  ASSUME NEW k, NEW place \in {"tick", "unblock"}, k.panic = "no",
         k.rq \in 1..Quantum \/ (BootPolicy = "RR" /\ k.rq = 0),
         NEW Q, Settled(k, Q), ConsoleAgrees(k.reads, Q[console_blocked])
  PROVE  LET r == reschedule(k, place)
         IN  /\ r.rq \in 1..Quantum /\ r.panic = "no" /\ IdleServed(r)
             /\ \E R : /\ Settled(r, R)
                      /\ ConsoleAgrees(r.reads, R[console_blocked])
                      /\ Rescheduled(k.cur, k.rq, Q, r, R)
<1>1. PICK R :
        /\ Settled(reschedule(k, place), R)
        /\ reschedule(k, place).rq \in 1..Quantum
        /\ reschedule(k, place).panic = "no"
        /\ reschedule(k, place).reads = k.reads
        /\ Rescheduled(k.cur, k.rq, Q, reschedule(k, place), R)
  BY Reschedule
<1>2. R[console_blocked] = Q[console_blocked]
  BY <1>1 DEF Rescheduled
<1>3. IdleServed(reschedule(k, place))
  BY RescheduleServes
<1> QED
  BY <1>1, <1>2, <1>3

\* The end of a clock handler keeps the invariant.
LEMMA ScheduleGood ==
  ASSUME NEW k, k.panic = "no", k.rq \in 1..Quantum,
         NEW Q, Settled(k, Q), ConsoleAgrees(k.reads, Q[console_blocked])
  PROVE  LET r == schedule(k)
         IN  /\ r.rq \in 1..Quantum /\ r.panic = "no" /\ IdleServed(r)
             /\ \E R : /\ Settled(r, R)
                      /\ ConsoleAgrees(r.reads, R[console_blocked])
                      /\ Rescheduled(k.cur, IF BootPolicy = "RR" THEN k.rq - 1 ELSE k.rq,
                                     Q, r, R)
<1> DEFINE u == update_sched_data(k)
           left == IF BootPolicy = "RR" THEN k.rq - 1 ELSE k.rq
<1>1. k \in Kernel /\ k.policy = BootPolicy /\ Quantum \in Nat
  BY SizeAssumption DEF Settled, Core
<1>2. /\ u \in Kernel /\ u.heap = k.heap /\ u.policy = k.policy
      /\ u.procs = k.procs /\ u.cur = k.cur /\ u.saved = k.saved
      /\ u.state = k.state /\ u.reads = k.reads /\ u.panic = k.panic
      /\ u.rq = left
      /\ left \in 1..Quantum \/ (BootPolicy = "RR" /\ left = 0)
  <2>1. CASE k.policy = "RR"
    <3>1. u = [k EXCEPT !.rq = k.rq - 1]
      BY <2>1 DEF update_sched_data
    <3>2. k.rq - 1 \in 1..Quantum \/ k.rq - 1 = 0
      BY <1>1
    <3>3. k.rq - 1 \in Int
      BY <1>1
    <3> QED
      BY <1>1, <2>1, <3>1, <3>2, <3>3 DEF Kernel
  <2>2. CASE k.policy # "RR"
    BY <1>1, <2>2 DEF update_sched_data
  <2> QED
    BY <2>1, <2>2
<1> HIDE DEF u, left
<1>3. Settled(u, Q) /\ ConsoleAgrees(u.reads, Q[console_blocked])
  BY <1>2 DEF Settled, Core
<1>4. LET r == reschedule(u, "tick")
      IN  /\ r.rq \in 1..Quantum /\ r.panic = "no" /\ IdleServed(r)
          /\ \E R : /\ Settled(r, R)
                   /\ ConsoleAgrees(r.reads, R[console_blocked])
                   /\ Rescheduled(u.cur, u.rq, Q, r, R)
  BY <1>2, <1>3, RescheduleGood
<1> QED
  BY <1>2, <1>4 DEF schedule, u, left

\* The console's part of a clock handler keeps the invariant, and if it gives
\* the CPU to idle nobody is ready.
LEMMA ConsoleGood ==
  ASSUME NEW k, k.panic = "no", k.rq \in 1..Quantum,
         NEW Q, Settled(k, Q), ConsoleAgrees(k.reads, Q[console_blocked])
  PROVE  LET r == zeos_update_read_console_emul(k)
         IN  /\ r.rq \in 1..Quantum /\ r.panic = "no"
             /\ r.cur = k.cur \/ IdleServed(r)
             /\ \E W, R : /\ Settled(r, R)
                         /\ ConsoleAgrees(r.reads, R[console_blocked])
                         /\ Woken(Q, W)
                         /\ Rescheduled(k.cur, k.rq, W, r, R)
<1> DEFINE done(r) ==
             /\ r.rq \in 1..Quantum /\ r.panic = "no"
             /\ r.cur = k.cur \/ IdleServed(r)
             /\ \E W, R : /\ Settled(r, R)
                         /\ ConsoleAgrees(r.reads, R[console_blocked])
                         /\ Woken(Q, W)
                         /\ Rescheduled(k.cur, k.rq, W, r, R)
<1>1. ASSUME NEW r, r.rq = k.rq, r.panic = "no", r.cur = k.cur, Settled(r, Q),
             ConsoleAgrees(r.reads, Q[console_blocked])
      PROVE  done(r)
  <2>1. Rescheduled(k.cur, k.rq, Q, r, Q) /\ Woken(Q, Q)
    BY <1>1 DEF Rescheduled, Woken
  <2> QED
    BY <1>1, <2>1
<1> DEFINE R == [task : Slots, left : Int]
           q == Q[console_blocked]
<1>2. /\ k \in Kernel /\ k.rq \in 1..Quantum /\ k.reads \in Seq(R)
      /\ q \in Seq(Slots)
  BY HeadsDiffer DEF Settled, Core, Rings, Kernel
<1>3. CASE k.reads = <<>>
  <2>1. zeos_update_read_console_emul(k) = k
    BY <1>3 DEF zeos_update_read_console_emul
  <2> QED
    BY <1>1, <2>1
<1>4. CASE k.reads # <<>>
  <2>1. /\ k.reads[1] \in R /\ Tail(k.reads) \in Seq(R)
        /\ Len(k.reads) \in Nat \ {0}
        /\ Len(Tail(k.reads)) = Len(k.reads) - 1
        /\ \A i \in 1..(Len(k.reads) - 1) : Tail(k.reads)[i] = k.reads[i + 1]
    <3> HIDE DEF R
    <3> QED
      BY <1>2, <1>4
  <2>2. ASSUME NEW n \in Int PROVE done([k EXCEPT !.reads[1].left = n])
    <3> DEFINE e == [k.reads[1] EXCEPT !.left = n]
               rs == [k.reads EXCEPT ![1] = e]
               r == [k EXCEPT !.reads = rs]
    <3>1. e \in R /\ e.task = k.reads[1].task
      BY <2>1
    <3>2. /\ rs \in Seq(R) /\ Len(rs) = Len(k.reads)
          /\ rs[1] = e
          /\ \A i \in 1..Len(k.reads) : i # 1 => rs[i] = k.reads[i]
      <4> HIDE DEF e, R
      <4> QED
        BY <1>2, <2>1, <3>1
    <3> HIDE DEF rs, e
    <3>3. /\ r \in Kernel /\ r.heap = k.heap /\ r.policy = k.policy
          /\ r.procs = k.procs /\ r.cur = k.cur /\ r.saved = k.saved
          /\ r.state = k.state /\ r.reads = rs /\ r.panic = k.panic
          /\ r.rq = k.rq
      BY <1>2, <3>2 DEF Kernel
    <3> HIDE DEF r
    <3>4. ConsoleAgrees(r.reads, q)
      <4>1. Len(q) = Len(r.reads)
        BY <3>2, <3>3 DEF ConsoleAgrees
      <4>2. ASSUME NEW i \in 1..Len(k.reads) PROVE r.reads[i].task = q[i]
        <5>1. k.reads[i].task = q[i]
          BY DEF ConsoleAgrees
        <5> QED
          BY <3>1, <3>2, <3>3, <5>1
      <4> QED
        BY <3>2, <3>3, <4>1, <4>2 DEF ConsoleAgrees
    <3>5. Settled(r, Q)
      BY <3>3 DEF Settled, Core
    <3>6. done(r)
      BY <1>1, <3>3, <3>4, <3>5
    <3>7. r = [k EXCEPT !.reads[1].left = n]
      BY DEF r, rs, e
    <3> QED
      BY <3>6, <3>7
  <2>3. done(unblock_process([k EXCEPT !.reads = Tail(@)], k.reads[1].task))
    <3> DEFINE r == [k EXCEPT !.reads = Tail(@)]
               t == k.reads[1].task
               u == update_process_state(r, t, readyqueue)
    <3>1. /\ r \in Kernel /\ r.heap = k.heap /\ r.policy = k.policy
          /\ r.procs = k.procs /\ r.cur = k.cur /\ r.saved = k.saved
          /\ r.state = k.state /\ r.reads = Tail(k.reads) /\ r.panic = k.panic
          /\ r.rq = k.rq
      BY <1>2, <2>1 DEF Kernel
    <3> HIDE DEF r
    <3>2. Settled(r, Q)
      BY <3>1 DEF Settled, Core
    <3>3. Len(q) = Len(k.reads) /\ q # <<>> /\ q[1] = t
      <4>1. Len(q) = Len(k.reads)
        BY DEF ConsoleAgrees
      <4>2. 1 \in 1..Len(k.reads)
        BY <2>1
      <4>3. k.reads[1].task = q[1]
        BY <4>2 DEF ConsoleAgrees
      <4>4. q # <<>>
        BY <1>2, <2>1, <4>1
      <4> QED
        BY <4>1, <4>3, <4>4
    <3> HIDE DEF t
    <3>4. PICK P : /\ Settled(u, P)
                   /\ u.cur = r.cur /\ u.reads = r.reads /\ u.rq = r.rq
                   /\ u.panic = r.panic
                   /\ P[console_blocked] = Tail(q)
                   /\ P[readyqueue] = Append(Q[readyqueue], q[1])
      BY <3>2, <3>3, WakeFirst
    <3> HIDE DEF u
    <3>5. ConsoleAgrees(u.reads, P[console_blocked])
      <4>1. /\ Len(Tail(q)) = Len(q) - 1
            /\ \A i \in 1..(Len(q) - 1) : Tail(q)[i] = q[i + 1]
        BY <1>2, <3>3
      <4>0. /\ Len(k.reads) \in Nat \ {0} /\ Len(q) = Len(k.reads)
            /\ \A n \in Nat \ {0} : n - 1 \in Nat /\ (n - 1) + 1 = n
        BY <2>1, <3>3
      <4>2. PICK m \in Nat : m = Len(q) - 1 /\ m + 1 = Len(k.reads)
        <5> HIDE DEF q
        <5> QED
          BY <4>0
      <4>3. ASSUME NEW i \in 1..m
            PROVE  Tail(k.reads)[i].task = Tail(q)[i]
        <5>1. i + 1 \in 1..(m + 1)
          OBVIOUS
        <5>2. k.reads[i + 1].task = q[i + 1]
          BY <4>2, <5>1 DEF ConsoleAgrees
        <5>3. Tail(q)[i] = q[i + 1]
          BY <4>1, <4>2
        <5>4. Len(k.reads) - 1 = m
          BY <4>2
        <5>5. Tail(k.reads)[i] = k.reads[i + 1]
          <6>1. i \in 1..(Len(k.reads) - 1)
            BY <5>4
          <6> QED
            BY <2>1, <6>1
        <5> QED
          BY <5>2, <5>3, <5>5
      <4>4. Len(Tail(q)) = m
        BY <4>1, <4>2
      <4>5. Len(Tail(k.reads)) = m
        <5>1. Len(k.reads) - 1 = m
          BY <4>2
        <5>2. Len(Tail(k.reads)) = Len(k.reads) - 1
          BY <2>1
        <5> QED
          BY <5>1, <5>2
      <4> QED
        BY <3>1, <3>4, <4>3, <4>4, <4>5 DEF ConsoleAgrees
    <3>6. Woken(Q, P)
      BY <3>3, <3>4 DEF Woken
    <3>7. LET v == reschedule(u, "unblock")
          IN  /\ v.rq \in 1..Quantum /\ v.panic = "no" /\ IdleServed(v)
              /\ \E S : /\ Settled(v, S)
                       /\ ConsoleAgrees(v.reads, S[console_blocked])
                       /\ Rescheduled(k.cur, k.rq, P, v, S)
      BY <1>2, <3>1, <3>4, <3>5, RescheduleGood
    <3>8. done(reschedule(u, "unblock"))
      BY <3>6, <3>7
    <3> QED
      BY <3>8 DEF unblock_process, u, r, t
  <2>4. k.reads[1].left - 1 \in Int
    BY <2>1
  <2>5. \/ zeos_update_read_console_emul(k) =
             unblock_process([k EXCEPT !.reads = Tail(@)], k.reads[1].task)
        \/ zeos_update_read_console_emul(k) =
             [k EXCEPT !.reads[1].left = k.reads[1].left - 1]
    BY <1>4 DEF zeos_update_read_console_emul
  <2> HIDE DEF done
  <2>6. done(zeos_update_read_console_emul(k))
    BY <2>2, <2>3, <2>4, <2>5
  <2> QED
    BY <2>6 DEF done
<1> QED
  BY <1>3, <1>4

\* Unless it panics, the kernel is what the handler made of it.
LEMMA BecomeRuns ==
  ASSUME NEW k, Become(k), k.panic = "no"
  PROVE  kernel' = k /\ Running'
BY DEF Become, Running

\* What a handler leaves behind satisfies the invariant.
LEMMA BecomeGood ==
  ASSUME Good(kernel), NEW k, Good(k), IdleServed(k), Become(k)
  PROVE  SchedInv'
<1>1. CASE k.panic = "no"
  BY <1>1 DEF Become, SchedInv
<1>2. CASE k.panic # "no"
  <2>1. k.panic = "context" /\ "yield" \in Calls
    BY <1>2 DEF Good, NoPanic
  <2>2. kernel' = [kernel EXCEPT !.panic = "context"]
    BY <1>2, <2>1 DEF Become
  <2>3. PICK Q : /\ Settled(kernel, Q)
                 /\ ConsoleAgrees(kernel.reads, Q[console_blocked])
    BY DEF Good
  <2> DEFINE r == [kernel EXCEPT !.panic = "context"]
  <2>4. /\ r \in Kernel /\ r.heap = kernel.heap /\ r.policy = kernel.policy
        /\ r.procs = kernel.procs /\ r.cur = kernel.cur
        /\ r.saved = kernel.saved /\ r.state = kernel.state
        /\ r.reads = kernel.reads /\ r.panic = "context"
        /\ r.rq = kernel.rq
    BY <2>3 DEF Settled, Core, Kernel
  <2> HIDE DEF r
  <2>5. Settled(r, Q)
    BY <2>3, <2>4 DEF Settled, Core
  <2>6. Good(r)
    BY <2>1, <2>3, <2>4, <2>5 DEF Good, NoPanic
  <2> QED
    BY <2>2, <2>4, <2>6 DEF r, SchedInv, Running
<1> QED
  BY <1>1, <1>2

\* The first free slot is moved to the tail of readyqueue or of freequeue.
SlotMoved(k, Q, c, hd, a, R) ==
  /\ c \in Slots /\ c \notin k.procs
  /\ a \in Kernel /\ Rings(a.heap, R)
  /\ R[console_blocked] = Q[console_blocked]
  /\ R[readyqueue] = IF hd = readyqueue THEN Append(Q[readyqueue], c) ELSE Q[readyqueue]
  /\ a.policy = k.policy /\ a.procs = k.procs /\ a.cur = k.cur
  /\ a.reads = k.reads /\ a.rq = k.rq /\ a.panic = k.panic
  /\ \A s \in Slots \ {c} : a.state[s] = k.state[s] /\ a.saved[s] = k.saved[s]
  /\ \A x \in Heads, s \in Slots :
       In(R[x], s) <=> (In(Q[x], s) /\ s # c) \/ (x = hd /\ s = c)

\* A slot goes from the freequeue to another list, or to its tail.
LEMMA MoveSlot ==
  ASSUME NEW k, NEW Q, Settled(k, Q), ~ ListEmpty(k.heap, freequeue),
         NEW hd \in {readyqueue, freequeue}
  PROVE  LET c == ListFirst(k.heap, freequeue)
         IN  \E R : SlotMoved(k, Q, c, hd, AddTail(CopiedSlot(k, c), c, hd), R)
<1> DEFINE c == ListFirst(k.heap, freequeue)
           b == Del(k, c)
           d == CopiedSlot(k, c)
           P == [Q EXCEPT ![freequeue] = Tail(@)]
           a == AddTail(d, c, hd)
           R == [P EXCEPT ![hd] = Append(@, c)]
<1>1. /\ k \in Kernel /\ Rings(k.heap, Q) /\ freequeue \in Heads /\ hd \in Heads
      /\ hd # console_blocked
  BY HeadsDiffer DEF Settled, Core
<1>2. c = Q[freequeue][1] /\ Q[freequeue] # <<>> /\ c \in Slots
  BY <1>1, FirstOfRing
<1> HIDE DEF c
<1>3. FirstTaken(k, Q, freequeue, c, b, P)
  BY <1>1, <1>2, DelFirstEffect
<1>4. c \notin k.procs
  BY <1>2, <1>3 DEF FirstTaken, Settled, Core
<1>5. /\ b \in Kernel /\ b.heap = b.heap /\ b.policy = k.policy
      /\ b.procs = k.procs /\ b.cur = k.cur /\ b.saved = k.saved
      /\ b.state = k.state /\ b.reads = k.reads /\ b.panic = k.panic
      /\ b.rq = k.rq
  <2> HIDE DEF b, P
  <2> QED
    BY <1>1, <1>3 DEF FirstTaken, Kernel
<1>6. /\ d \in Kernel /\ d.heap = b.heap /\ d.policy = k.policy
      /\ d.procs = k.procs /\ d.cur = k.cur
      /\ d.reads = k.reads /\ d.panic = k.panic /\ d.rq = k.rq
      /\ \A s \in Slots \ {c} : d.state[s] = k.state[s] /\ d.saved[s] = k.saved[s]
  <2>1. d = [b EXCEPT !.state[c] = k.state[k.cur], !.saved[c] = k.saved[k.cur]]
    BY DEF CopiedSlot
  <2>2. d \in Kernel
    BY <1>1, <1>2, CopiedSlotType
  <2> HIDE DEF d, b
  <2>3. /\ d.heap = b.heap /\ d.policy = b.policy /\ d.procs = b.procs /\ d.cur = b.cur
        /\ d.reads = b.reads /\ d.panic = b.panic /\ d.rq = b.rq
    BY <1>5, <2>1 DEF Kernel
  <2>4. \A s \in Slots \ {c} : d.state[s] = b.state[s] /\ d.saved[s] = b.saved[s]
    BY <1>5, <2>1 DEF Kernel
  <2> QED
    BY <1>5, <2>2, <2>3, <2>4
<1>7. /\ Rings(d.heap, P) /\ ~ OnList(P, c)
      /\ P[console_blocked] = Q[console_blocked] /\ P[readyqueue] = Q[readyqueue]
      /\ \A x \in Heads, s \in Slots : In(P[x], s) <=> In(Q[x], s) /\ s # c
  <2> HIDE DEF b, d, P
  <2> QED
    BY <1>3, <1>6, HeadsDiffer DEF FirstTaken
<1> HIDE DEF b, d, P
<1>8. Appended(d, P, hd, c, a, R)
  BY <1>1, <1>2, <1>6, <1>7, AddTailEffect
<1> HIDE DEF a, R
<1>9. /\ a \in Kernel /\ Rings(a.heap, R) /\ a = [d EXCEPT !.heap = a.heap]
      /\ R[console_blocked] = Q[console_blocked]
      /\ R[readyqueue] = IF hd = readyqueue THEN Append(Q[readyqueue], c)
                         ELSE Q[readyqueue]
      /\ \A x \in Heads, s \in Slots :
           In(R[x], s) <=> In(P[x], s) \/ (x = hd /\ s = c)
  BY <1>1, <1>7, <1>8, HeadsDiffer DEF Appended
<1>10. /\ a.policy = k.policy /\ a.procs = k.procs /\ a.cur = k.cur
       /\ a.reads = k.reads /\ a.rq = k.rq /\ a.panic = k.panic
       /\ a.state = d.state /\ a.saved = d.saved
  BY <1>6, <1>9 DEF Kernel
<1>11. SlotMoved(k, Q, c, hd, a, R)
  BY <1>2, <1>4, <1>6, <1>7, <1>9, <1>10 DEF SlotMoved
<1> QED
  BY <1>11 DEF a, d, c

\* A fork that finds no frames keeps the invariant.
LEMMA ForkAgainGood ==
  ASSUME SchedInv, ForkAgain
  PROVE  SchedInv' /\ Running' /\ \E Q, R : Moved(Q, R) /\ ForkAgainMoves(Q, R)
<1> DEFINE c == ListFirst(kernel.heap, freequeue)
           a == AddTail(CopiedSlot(kernel, c), c, freequeue)
<1>1. PICK Q : /\ Settled(kernel, Q)
               /\ ConsoleAgrees(kernel.reads, Q[console_blocked])
  BY DEF SchedInv, Good
<1>2. PICK R : SlotMoved(kernel, Q, c, freequeue, a, R)
  BY <1>1, MoveSlot DEF ForkAgain
<1>3. Become(a)
  BY <1>2 DEF ForkAgain, SlotMoved
<1> HIDE DEF a, c
<1>4. /\ c \in Slots /\ c \notin kernel.procs
      /\ kernel.procs \subseteq Slots /\ kernel.cur \in kernel.procs
  BY <1>1, <1>2 DEF SlotMoved, Settled, Core, Kernel
<1>5. \A s \in kernel.procs : OnList(R, s) <=> OnList(Q, s)
  BY <1>2, <1>4 DEF SlotMoved, OnList
<1>6. Core(a, R)
  <2>1. \A s \in Slots : s \notin a.procs <=> In(R[freequeue], s)
    BY <1>1, <1>2, <1>4, HeadsDiffer DEF SlotMoved, Settled, Core
  <2>2. \A s \in kernel.procs : \A x \in Heads : In(R[x], s) <=> In(Q[x], s)
    BY <1>2, <1>4 DEF SlotMoved
  <2> QED
    BY <1>1, <1>2, <1>4, <1>5, <2>1, <2>2, HeadsDiffer
    DEF SlotMoved, Settled, Core
<1>7. Settled(a, R)
  BY <1>1, <1>2, <1>4, <1>5, <1>6 DEF SlotMoved, Settled
<1>8. Good(a)
  BY <1>1, <1>2, <1>7 DEF SlotMoved, SchedInv, Good, NoPanic
<1>9. IdleServed(a)
  BY <1>2 DEF SlotMoved, IdleServed, ForkAgain, Calling
<1>10. kernel' = a /\ Running'
  BY <1>2, <1>3, BecomeRuns DEF SlotMoved, ForkAgain, Calling, Interruptible
<1>11. Moved(Q, R) /\ ForkAgainMoves(Q, R)
  BY <1>1, <1>2, <1>7, <1>10, HeadsDiffer DEF SlotMoved, Moved, ForkAgainMoves
<1> QED
  BY <1>3, <1>8, <1>9, <1>10, <1>11, BecomeGood DEF SchedInv

\* A fork that succeeds keeps the invariant.
LEMMA ForkGood ==
  ASSUME SchedInv, Fork
  PROVE  SchedInv' /\ Running' /\ \E Q, R : Moved(Q, R) /\ ForkMoves(Q, R)
<1> DEFINE c == ListFirst(kernel.heap, freequeue)
           a == AddTail(CopiedSlot(kernel, c), c, readyqueue)
           r == [a EXCEPT !.procs = @ \cup {c}, !.state[c] = "READY",
                          !.saved[c] = "fork", !.page0[c] = TRUE,
                          !.frames = @ - NUM_PAG_DATA]
<1>1. PICK Q : /\ Settled(kernel, Q)
               /\ ConsoleAgrees(kernel.reads, Q[console_blocked])
  BY DEF SchedInv, Good
<1>2. PICK R : SlotMoved(kernel, Q, c, readyqueue, a, R)
  BY <1>1, MoveSlot DEF Fork
<1>3. Become(r) /\ kernel.frames >= NUM_PAG_DATA
  BY <1>2 DEF Fork, SlotMoved
<1>4. a.frames = kernel.frames
  BY <1>1 DEF AddTail, CopiedSlot, Del, Kernel, Settled, Core
<1> HIDE DEF a, c
<1>5. /\ c \in Slots /\ c \notin kernel.procs
      /\ kernel.procs \subseteq Slots /\ kernel.cur \in kernel.procs
      /\ Idle \in kernel.procs
  BY <1>1, <1>2 DEF SlotMoved, Settled, Core, Kernel
<1>6. /\ r \in Kernel /\ r.heap = a.heap /\ r.policy = a.policy
      /\ r.procs = a.procs \cup {c} /\ r.cur = a.cur
      /\ r.reads = a.reads /\ r.panic = a.panic /\ r.rq = a.rq
      /\ \A s \in Slots : r.state[s] = IF s = c THEN "READY" ELSE a.state[s]
      /\ \A s \in Slots : r.saved[s] = IF s = c THEN "fork" ELSE a.saved[s]
  <2>1. a \in Kernel
    BY <1>2 DEF SlotMoved
  <2>2. a.frames - NUM_PAG_DATA \in Nat /\ a.procs \cup {c} \in SUBSET Slots
    BY <1>3, <1>4, <1>5, <2>1, SizeAssumption DEF Kernel
  <2>3. /\ [a.state EXCEPT ![c] = "READY"] \in
             [Slots -> {"RUN", "READY", "BLOCKED"}]
        /\ [a.saved EXCEPT ![c] = "fork"] \in [Slots -> Contexts]
        /\ [a.page0 EXCEPT ![c] = TRUE] \in [Slots -> BOOLEAN]
        /\ \A s \in Slots : /\ [a.state EXCEPT ![c] = "READY"][s] =
                                 IF s = c THEN "READY" ELSE a.state[s]
                            /\ [a.saved EXCEPT ![c] = "fork"][s] =
                                 IF s = c THEN "fork" ELSE a.saved[s]
    BY <1>5, <2>1 DEF Kernel, Contexts
  <2> QED
    BY <1>5, <2>1, <2>2, <2>3 DEF Kernel
<1> HIDE DEF r
<1>7. /\ \A s \in kernel.procs : OnList(R, s) <=> OnList(Q, s)
      /\ OnList(R, c)
      /\ \A s \in kernel.procs : \A x \in Heads : In(R[x], s) <=> In(Q[x], s)
      /\ \A x \in Heads : In(R[x], c) <=> x = readyqueue
  BY <1>2, <1>5, HeadsDiffer DEF SlotMoved, OnList
<1>8. Core(r, R)
  <2>1. \A s \in Slots : s \notin r.procs <=> In(R[freequeue], s)
    BY <1>1, <1>2, <1>5, <1>6, <1>7, HeadsDiffer DEF SlotMoved, Settled, Core
  <2>2. BootPolicy = "RR" =>
          \A s \in r.procs :
            /\ In(R[readyqueue], s) => r.state[s] = "READY"
            /\ In(R[console_blocked], s) => r.state[s] = "BLOCKED"
            /\ ~ OnList(R, s) => r.state[s] = "RUN"
    <3> SUFFICES ASSUME BootPolicy = "RR", NEW s \in kernel.procs \cup {c}
                 PROVE  /\ In(R[readyqueue], s) => r.state[s] = "READY"
                        /\ In(R[console_blocked], s) => r.state[s] = "BLOCKED"
                        /\ ~ OnList(R, s) => r.state[s] = "RUN"
      BY <1>2, <1>6 DEF SlotMoved
    <3>1. CASE s = c
      BY <1>5, <1>6, <1>7, <3>1, HeadsDiffer
    <3>2. CASE s # c
      <4>1. s \in kernel.procs /\ r.state[s] = kernel.state[s]
        BY <1>2, <1>5, <1>6, <3>2 DEF SlotMoved
      <4>2. /\ In(Q[readyqueue], s) => kernel.state[s] = "READY"
            /\ In(Q[console_blocked], s) => kernel.state[s] = "BLOCKED"
            /\ ~ OnList(Q, s) => kernel.state[s] = "RUN"
        BY <1>1, <4>1 DEF Settled, Core
      <4>3. /\ In(R[readyqueue], s) <=> In(Q[readyqueue], s)
            /\ In(R[console_blocked], s) <=> In(Q[console_blocked], s)
            /\ OnList(R, s) <=> OnList(Q, s)
        BY <1>7, <4>1, HeadsDiffer
      <4> QED
        BY <4>1, <4>2, <4>3
    <3> QED
      BY <3>1, <3>2
  <2>3. \A s \in r.procs \ {r.cur} : r.saved[s] \notin {"none", "exit"}
    BY <1>1, <1>2, <1>5, <1>6 DEF SlotMoved, Settled, Core
  <2>4. /\ ~ In(R[console_blocked], Idle)
        /\ BootPolicy = "FCFS" => ~ In(R[readyqueue], Idle)
    BY <1>1, <1>5, <1>7, HeadsDiffer DEF Settled, Core
  <2> QED
    BY <1>1, <1>2, <1>5, <1>6, <2>1, <2>2, <2>3, <2>4
    DEF SlotMoved, Settled, Core
<1>9. Settled(r, R)
  BY <1>1, <1>2, <1>5, <1>6, <1>7, <1>8 DEF SlotMoved, Settled
<1>10. Good(r)
  BY <1>1, <1>2, <1>6, <1>9 DEF SlotMoved, SchedInv, Good, NoPanic
<1>11. IdleServed(r)
  BY <1>2, <1>6 DEF SlotMoved, IdleServed, Fork, Calling
<1>12. Become(r)
  BY <1>3 DEF r
<1>13. kernel' = r /\ Running'
  BY <1>2, <1>6, <1>12, BecomeRuns DEF SlotMoved, Fork, Calling, Interruptible
<1>14. Moved(Q, R) /\ ForkMoves(Q, R)
  BY <1>1, <1>2, <1>6, <1>9, <1>13 DEF SlotMoved, Moved, ForkMoves
<1> QED
  BY <1>10, <1>11, <1>12, <1>13, <1>14, BecomeGood DEF SchedInv

\* Who is not on the readyqueue is not dispatched.
LEMMA NotFirst ==
  ASSUME NEW k, NEW Q, Rings(k.heap, Q), NEW t, t # Idle,
         ~ In(Q[readyqueue], t)
  PROVE  first_ready(k) # t
<1>1. Q[readyqueue] \in Seq(Slots)
  BY HeadsDiffer DEF Rings
<1>2. CASE Q[readyqueue] = <<>>
  BY <1>2, HeadsDiffer, FirstOfRing DEF first_ready
<1>3. CASE Q[readyqueue] # <<>>
  <2>1. first_ready(k) = Q[readyqueue][1]
    BY <1>3, HeadsDiffer, FirstOfRing DEF first_ready
  <2> QED
    BY <1>1, <1>3, <2>1, FirstIn
<1> QED
  BY <1>2, <1>3

\* An exit keeps the invariant.
LEMMA ExitGood ==
  ASSUME SchedInv, Exit
  PROVE  SchedInv' /\ Running' /\ \E Q, R : Moved(Q, R) /\ ExitMoves(Q, R)
<1> DEFINE t == kernel.cur
           a == AddTail(kernel, t, freequeue)
           r == [a EXCEPT !.frames = @ + NUM_PAG_DATA, !.procs = @ \ {t}]
<1>1. PICK Q : /\ Settled(kernel, Q)
               /\ ConsoleAgrees(kernel.reads, Q[console_blocked])
  BY DEF SchedInv, Good
<1> DEFINE R == [Q EXCEPT ![freequeue] = Append(@, t)]
<1>2. /\ kernel \in Kernel /\ t \in Slots /\ t \in kernel.procs /\ t # Idle
      /\ Rings(kernel.heap, Q) /\ ~ OnList(Q, t) /\ freequeue \in Heads
      /\ kernel.procs \subseteq Slots
      /\ kernel.panic = "no" /\ kernel.rq \in 1..Quantum
  BY <1>1, CurType, HeadsDiffer
  DEF SchedInv, Good, Settled, Core, Exit, Calling, Interruptible, Kernel
<1>3. Become(sched_next_rr(r, "exit"))
  BY DEF Exit
<1>4. Appended(kernel, Q, freequeue, t, a, R)
  BY <1>2, AddTailEffect
<1> HIDE DEF R, a
<1>5. /\ a \in Kernel /\ a.policy = kernel.policy
      /\ a.procs = kernel.procs /\ a.cur = t /\ a.saved = kernel.saved
      /\ a.state = kernel.state /\ a.reads = kernel.reads
      /\ a.panic = kernel.panic /\ a.rq = kernel.rq
  BY <1>2, <1>4 DEF Appended, Kernel
<1>6. /\ r \in Kernel /\ r.heap = a.heap /\ r.policy = a.policy
      /\ r.procs = a.procs \ {t} /\ r.cur = a.cur /\ r.saved = a.saved
      /\ r.state = a.state /\ r.reads = a.reads /\ r.panic = a.panic
      /\ r.rq = a.rq
  <2>1. a.frames + NUM_PAG_DATA \in Nat /\ a.procs \ {t} \in SUBSET Slots
    BY <1>5, SizeAssumption DEF Kernel
  <2> QED
    BY <1>5, <2>1 DEF Kernel
<1> HIDE DEF r, t
<1>7. /\ Rings(a.heap, R) /\ R[console_blocked] = Q[console_blocked]
      /\ R[readyqueue] = Q[readyqueue]
      /\ \A x \in Heads, s \in Slots :
           In(R[x], s) <=> In(Q[x], s) \/ (x = freequeue /\ s = t)
      /\ ~ In(R[readyqueue], t)
  BY <1>2, <1>4, HeadsDiffer DEF Appended, OnList
<1>8. \A s \in Slots : OnList(R, s) <=> OnList(Q, s) \/ s = t
  BY <1>2, <1>7 DEF OnList
<1>9. Leaving(r, R)
  <2>1. \A s \in Slots : s \notin r.procs <=> In(R[freequeue], s)
    BY <1>1, <1>2, <1>5, <1>6, <1>7, HeadsDiffer DEF Settled, Core
  <2>2. Core(r, R)
    BY <1>1, <1>2, <1>5, <1>6, <1>7, <1>8, <2>1, HeadsDiffer DEF Settled, Core
  <2> QED
    BY <1>1, <1>2, <1>5, <1>6, <1>8, <2>2 DEF Settled, Leaving, t
<1>10. first_ready(r) # r.cur
  BY <1>2, <1>5, <1>6, <1>7, NotFirst
<1>11. PICK S :
         /\ Settled(sched_next_rr(r, "exit"), S)
         /\ sched_next_rr(r, "exit").rq \in 1..Quantum
         /\ sched_next_rr(r, "exit").panic = "no"
         /\ sched_next_rr(r, "exit").reads = r.reads
         /\ S[console_blocked] = R[console_blocked]
         /\ Dispatched(R[readyqueue], sched_next_rr(r, "exit"), S)
  <2>1. "exit" \in Contexts \ {"none"} /\ r.panic = "no" /\ r.rq \in 1..Quantum
        /\ r.cur \notin r.procs
    BY <1>2, <1>5, <1>6 DEF Contexts
  <2> QED
    BY <1>9, <1>10, <2>1, DispatchNext
<1>12. Good(sched_next_rr(r, "exit"))
  BY <1>1, <1>5, <1>6, <1>7, <1>11 DEF Good, NoPanic
<1>13. IdleServed(sched_next_rr(r, "exit"))
  BY <1>9, DispatchServes DEF Leaving, Core
<1>14. Become(sched_next_rr(r, "exit"))
  BY <1>3 DEF r, t
<1>15. kernel' = sched_next_rr(r, "exit") /\ Running'
  BY <1>11, <1>14, BecomeRuns
<1>16. Moved(Q, S) /\ ExitMoves(Q, S)
  BY <1>1, <1>7, <1>11, <1>15 DEF Moved, ExitMoves
<1> QED
  BY <1>12, <1>13, <1>14, <1>15, <1>16, BecomeGood DEF SchedInv

\* A yield keeps the invariant under a steady policy.
LEMMA YieldGood ==
  ASSUME SteadyPolicy, SchedInv, Yield
  PROVE  /\ SchedInv'
         /\ \/ Running' /\ \E Q, R : Moved(Q, R) /\ YieldMoves(Q, R)
            \/ ~ Running' /\ \E Q : Settled(kernel, Q) /\ Q[readyqueue] = <<>>
<1> DEFINE u == update_process_state(kernel, kernel.cur, readyqueue)
<1>1. PICK Q : /\ Settled(kernel, Q)
               /\ ConsoleAgrees(kernel.reads, Q[console_blocked])
  BY DEF SchedInv, Good
<1>2. /\ kernel.policy = "RR" /\ BootPolicy = "RR" /\ "yield" \in Calls
      /\ kernel.panic = "no"
  BY <1>1, PolicyAssumption
  DEF SteadyPolicy, Settled, Core, Yield, Calling, Interruptible, Policies
<1>3. Become(sched_next_rr(u, "yield"))
  BY <1>2 DEF Yield, update_process_state
<1>4. PICK R :
        /\ Leaving(u, R)
        /\ u.reads = kernel.reads /\ u.panic = kernel.panic /\ u.cur = kernel.cur
        /\ IF kernel.cur = Idle /\ BootPolicy = "FCFS" THEN R = Q
           ELSE R = [Q EXCEPT ![readyqueue] = Append(@, kernel.cur)]
  BY <1>1, HeadsDiffer, QueueCurrent
<1> HIDE DEF u
<1>5. /\ R[console_blocked] = Q[console_blocked]
      /\ R[readyqueue] = Append(Q[readyqueue], kernel.cur)
  BY <1>1, <1>2, <1>4, HeadsDiffer DEF Settled, Core, Rings
<1>6. PICK S :
        /\ Settled(sched_next_rr(u, "yield"), S)
        /\ sched_next_rr(u, "yield").rq \in 1..Quantum
        /\ NoPanic(sched_next_rr(u, "yield"))
        /\ first_ready(u) # u.cur => sched_next_rr(u, "yield").panic = "no"
        /\ sched_next_rr(u, "yield").reads = u.reads
        /\ S[console_blocked] = R[console_blocked]
        /\ Dispatched(R[readyqueue], sched_next_rr(u, "yield"), S)
  <2>1. "yield" \in Contexts \ {"none"} /\ u.panic = "no"
    BY <1>2, <1>4 DEF Contexts
  <2> QED
    BY <1>2, <1>4, <2>1, DispatchNext
<1>7. Good(sched_next_rr(u, "yield"))
  BY <1>1, <1>4, <1>5, <1>6 DEF Good
<1>8. Become(sched_next_rr(u, "yield"))
  BY <1>3 DEF u
<1>9. SchedInv'
  BY <1>2, <1>7, <1>8, BecomeGood DEF SchedInv, IdleServed
<1>10. CASE sched_next_rr(u, "yield").panic = "no"
  <2>1. kernel' = sched_next_rr(u, "yield") /\ Running'
    BY <1>8, <1>10, BecomeRuns
  <2>2. Moved(Q, S) /\ YieldMoves(Q, S)
    BY <1>1, <1>5, <1>6, <2>1 DEF Moved, YieldMoves
  <2> QED
    BY <1>9, <2>1, <2>2
<1>11. CASE sched_next_rr(u, "yield").panic # "no"
  <2>1. ~ Running'
    <3>1. \A p : [kernel EXCEPT !.panic = p].panic = p
      BY <1>1 DEF Settled, Core, Kernel
    <3> QED
      BY <1>8, <1>11, <3>1 DEF Become, Running
  <2>2. Q[readyqueue] = <<>>
    <3> SUFFICES ASSUME Q[readyqueue] # <<>> PROVE first_ready(u) # u.cur
      BY <1>6, <1>11
    <3>1. Q[readyqueue] \in Seq(Slots) /\ kernel.cur \in Slots /\ Rings(u.heap, R)
          /\ Rings(kernel.heap, Q) /\ ~ OnList(Q, kernel.cur)
      BY <1>1, <1>4, HeadsDiffer, CurType DEF Leaving, Settled, Core, Rings
    <3>2. \A q \in Seq(Slots) : q # <<>> =>
            Append(q, kernel.cur)[1] = q[1] /\ Append(q, kernel.cur) # <<>>
      BY <3>1
    <3>3. first_ready(u) = Q[readyqueue][1]
      BY <1>5, <3>1, <3>2, HeadsDiffer, FirstOfRing DEF first_ready
    <3> QED
      BY <1>4, <3>1, <3>3, FirstIn, HeadsDiffer DEF OnList
  <2> QED
    BY <1>1, <1>9, <2>1, <2>2
<1> QED
  BY <1>10, <1>11

\* A read keeps the invariant.
LEMMA ReadGood ==
  ASSUME SchedInv, NEW n \in ReadTicks, Read(n)
  PROVE  SchedInv' /\ Running' /\ \E Q, R : Moved(Q, R) /\ ReadMoves(Q, R)
<1> DEFINE req == [task |-> kernel.cur, left |-> n]
           rs == Append(kernel.reads, req)
           k == [kernel EXCEPT !.reads = Append(@, req)]
           u == update_process_state(k, k.cur, console_blocked)
<1>1. PICK Q : /\ Settled(kernel, Q)
               /\ ConsoleAgrees(kernel.reads, Q[console_blocked])
  BY DEF SchedInv, Good
<1> DEFINE q == Q[console_blocked]
<1>2. /\ kernel \in Kernel /\ kernel.cur \in Slots /\ kernel.cur # Idle
      /\ kernel.panic = "no" /\ kernel.rq \in 1..Quantum
      /\ Q \in [Heads -> Seq(Slots)] /\ q \in Seq(Slots)
      /\ ~ In(Q[readyqueue], kernel.cur)
  BY <1>1, CurType, HeadsDiffer
  DEF SchedInv, Good, Settled, Core, Read, Calling, Interruptible, Rings, OnList
<1>3. Become(sched_next(u, "read"))
  BY DEF Read, block_process
<1>4. /\ rs \in Seq([task : Slots, left : Int])
      /\ Len(rs) = Len(kernel.reads) + 1 /\ Len(kernel.reads) \in Nat
      /\ \A i \in 1..Len(kernel.reads) : rs[i] = kernel.reads[i]
      /\ rs[Len(kernel.reads) + 1].task = kernel.cur
  <2>1. req \in [task : Slots, left : Int] /\ req.task = kernel.cur
    BY <1>2, SizeAssumption
  <2>2. kernel.reads \in Seq([task : Slots, left : Int])
    BY <1>2 DEF Kernel
  <2> DEFINE E == [task : Slots, left : Int]
  <2>3. req \in E /\ kernel.reads \in Seq(E) /\ req.task = kernel.cur
    BY <2>1, <2>2
  <2> HIDE DEF req, E
  <2>4. /\ rs \in Seq(E)
        /\ Len(rs) = Len(kernel.reads) + 1 /\ Len(kernel.reads) \in Nat
        /\ \A i \in 1..Len(kernel.reads) : rs[i] = kernel.reads[i]
        /\ rs[Len(kernel.reads) + 1] = req
    BY <2>3
  <2> QED
    BY <2>3, <2>4 DEF E
<1> HIDE DEF rs, req
<1>5. /\ k \in Kernel /\ k.heap = kernel.heap /\ k.policy = kernel.policy
      /\ k.procs = kernel.procs /\ k.cur = kernel.cur /\ k.saved = kernel.saved
      /\ k.state = kernel.state /\ k.reads = rs /\ k.panic = "no"
      /\ k.rq = kernel.rq
  BY <1>2, <1>4 DEF Kernel, rs
<1> HIDE DEF k
<1>6. Settled(k, Q)
  BY <1>1, <1>5 DEF Settled, Core
<1>7. PICK R :
        /\ Leaving(u, R)
        /\ u.cur = k.cur /\ u.reads = k.reads /\ u.rq = k.rq
        /\ u.panic = k.panic
        /\ IF k.cur = Idle /\ BootPolicy = "FCFS" THEN R = Q
           ELSE R = [Q EXCEPT ![console_blocked] = Append(@, k.cur)]
  <2>1. k.cur # Idle
    BY <1>2, <1>5
  <2> QED
    BY <1>6, <2>1, QueueCurrent
<1> HIDE DEF u
<1>8. /\ R[console_blocked] = Append(q, kernel.cur)
      /\ R[readyqueue] = Q[readyqueue]
  BY <1>2, <1>5, <1>7, HeadsDiffer
<1>9. first_ready(u) # u.cur
  BY <1>2, <1>5, <1>7, <1>8, NotFirst DEF Leaving, Core
<1>10. PICK S :
         /\ Settled(sched_next(u, "read"), S)
         /\ sched_next(u, "read").rq \in 1..Quantum
         /\ sched_next(u, "read").panic = "no"
         /\ sched_next(u, "read").reads = u.reads
         /\ S[console_blocked] = R[console_blocked]
         /\ Dispatched(R[readyqueue], sched_next(u, "read"), S)
  <2>1. "read" \in Contexts \ {"none"} /\ u.panic = "no" /\ u.rq \in 1..Quantum
    BY <1>2, <1>5, <1>7 DEF Contexts
  <2> QED
    BY <1>7, <1>9, <2>1, DispatchNext
<1>11. ConsoleAgrees(rs, Append(q, kernel.cur))
  <2> DEFINE a == Append(q, kernel.cur)
             m == Len(kernel.reads)
  <2>1. Len(q) = m /\ m \in Nat /\ \A i \in 1..m : kernel.reads[i].task = q[i]
    BY <1>1, <1>4 DEF ConsoleAgrees
  <2>2. /\ Len(a) = Len(q) + 1 /\ \A i \in 1..Len(q) : a[i] = q[i]
        /\ a[Len(q) + 1] = kernel.cur
    BY <1>2
  <2> HIDE DEF a, m, q
  <2>3. /\ Len(a) = m + 1 /\ a[m + 1] = kernel.cur
        /\ \A i \in 1..m : a[i] = q[i]
    BY <2>1, <2>2
  <2>4. /\ Len(rs) = m + 1 /\ rs[m + 1].task = kernel.cur
        /\ \A i \in 1..m : rs[i] = kernel.reads[i]
    BY <1>4 DEF m
  <2>5. \A i \in 1..(m + 1) : i \in 1..m \/ i = m + 1
    BY <2>1
  <2>6. \A i \in 1..(m + 1) : rs[i].task = a[i]
    BY <2>1, <2>3, <2>4, <2>5
  <2> QED
    BY <2>3, <2>4, <2>6 DEF ConsoleAgrees, a
<1>12. Good(sched_next(u, "read"))
  BY <1>5, <1>7, <1>8, <1>10, <1>11 DEF Good, NoPanic
<1>13. IdleServed(sched_next(u, "read"))
  BY <1>7, DispatchServes DEF Leaving, Core
<1>14. Become(sched_next(u, "read"))
  BY <1>3 DEF u, k
<1>15. kernel' = sched_next(u, "read") /\ Running'
  BY <1>10, <1>14, BecomeRuns
<1>16. Moved(Q, S) /\ ReadMoves(Q, S)
  BY <1>1, <1>8, <1>10, <1>15 DEF Moved, ReadMoves
<1> QED
  BY <1>12, <1>13, <1>14, <1>15, <1>16, BecomeGood DEF SchedInv

\* The system boots with the invariant.
LEMMA InitGood == Init => SchedInv
<1>0. Init => IdleServed(kernel)
  BY HeadsDiffer DEF Init, IdleServed
<1> SUFFICES ASSUME Init PROVE Good(kernel)
  BY <1>0 DEF SchedInv
<1> DEFINE n == NR_TASKS - 2
           fq == [i \in 1..n |-> i + 1]
           Q == [x \in Heads |-> IF x = freequeue THEN fq ELSE <<>>]
           h == BootHeap
<1>1. /\ NR_TASKS \in Nat /\ n \in Nat /\ NR_TASKS = n + 2
      /\ Slots = 0..(n + 1) /\ Idle = 0 /\ Task1 = 1
      /\ \A x \in Heads : x \notin Slots /\ x \in Cells /\ x # NULL
      /\ \A s \in Slots : s \in Cells /\ s \notin Heads /\ s # NULL
      /\ h \in Heap /\ kernel.heap = h
  BY HeadsDiffer, SlotAssumption, InitType
  DEF Slots, Idle, Task1, Cells, Init, TypeOK, Kernel
<1>2. /\ fq \in Seq(Slots) /\ Len(fq) = n
      /\ \A i \in 1..n : fq[i] = i + 1
  <2>1. \A i \in 1..n : i + 1 \in Slots
    BY <1>1
  <2>2. n \in Nat
    BY <1>1
  <2> HIDE DEF n
  <2> QED
    BY <2>1, <2>2
<1>3. /\ Q \in [Heads -> Seq(Slots)] /\ Q[freequeue] = fq
      /\ \A x \in Heads \ {freequeue} : Q[x] = <<>>
  <2> HIDE DEF fq
  <2> QED
    BY <1>2, HeadsDiffer
<1> HIDE DEF Q, fq
<1>4. /\ h.next[freequeue] = IF n = 0 THEN freequeue ELSE 2
      /\ h.prev[freequeue] = IF n = 0 THEN freequeue ELSE n + 1
      /\ \A x \in Heads \ {freequeue} : h.next[x] = x /\ h.prev[x] = x
      /\ \A s \in {0, 1} : h.next[s] = NULL /\ h.prev[s] = NULL
      /\ \A s \in 2..(n + 1) :
           /\ h.next[s] = IF s = n + 1 THEN freequeue ELSE s + 1
           /\ h.prev[s] = IF s = 2 THEN freequeue ELSE s - 1
  <2>1. /\ BootHeap.next = [c \in Cells |->
                   IF c = freequeue THEN IF NR_TASKS > 2 THEN 2 ELSE freequeue
                   ELSE IF c \in Heads THEN c
                   ELSE IF c \in {Idle, Task1} THEN NULL
                   ELSE IF c = NR_TASKS - 1 THEN freequeue ELSE c + 1]
        /\ BootHeap.prev = [c \in Cells |->
                   IF c = freequeue
                   THEN IF NR_TASKS > 2 THEN NR_TASKS - 1 ELSE freequeue
                   ELSE IF c \in Heads THEN c
                   ELSE IF c \in {Idle, Task1} THEN NULL
                   ELSE IF c = 2 THEN freequeue ELSE c - 1]
    BY DEF BootHeap
  <2>2. /\ NR_TASKS > 2 <=> n # 0
        /\ NR_TASKS - 1 = n + 1
    BY <1>1
  <2>3. \A s \in 2..(n + 1) : s \in Slots /\ s \notin {Idle, Task1}
    BY <1>1
  <2>4. \A s \in {0, 1} : s \in Slots /\ s \in {Idle, Task1}
    BY <1>1
  <2>5. freequeue \in Cells /\ freequeue \in Heads
    BY <1>1, HeadsDiffer
  <2>6. /\ h.next[freequeue] = IF n = 0 THEN freequeue ELSE 2
        /\ h.prev[freequeue] = IF n = 0 THEN freequeue ELSE n + 1
    BY <2>1, <2>2, <2>5
  <2>7. \A s \in {0, 1} : h.next[s] = NULL /\ h.prev[s] = NULL
    BY <1>1, <2>1, <2>4, <2>5
  <2>8. \A s \in 2..(n + 1) :
           /\ h.next[s] = IF s = n + 1 THEN freequeue ELSE s + 1
           /\ h.prev[s] = IF s = 2 THEN freequeue ELSE s - 1
    BY <1>1, <2>1, <2>2, <2>3, <2>5
  <2>9. \A x \in Heads \ {freequeue} : h.next[x] = x /\ h.prev[x] = x
    BY <1>1, <2>1
  <2> QED
    BY <2>6, <2>7, <2>8, <2>9
<1> HIDE DEF h
<1>5. /\ Len(fq) = n /\ \A i \in 1..n : fq[i] = i + 1
      /\ \A x \in Heads \ {freequeue} : \A i \in 1..Len(Q[x]) : FALSE
      /\ \A s : In(Q[freequeue], s) <=> s \in 2..(n + 1)
      /\ \A x \in Heads \ {freequeue} : \A s : ~ In(Q[x], s)
  <2>1. \A x \in Heads \ {freequeue} : Len(Q[x]) = 0
    BY <1>3
  <2>2. \A x \in Heads \ {freequeue} : \A i \in 1..Len(Q[x]) : FALSE
    BY <2>1
  <2>3. \A s : In(fq, s) <=> s \in 2..(n + 1)
    <3>1. ASSUME NEW s, In(fq, s) PROVE s \in 2..(n + 1)
      <4>1. PICK i \in 1..n : fq[i] = s
        BY <1>2, <3>1 DEF In
      <4> QED
        BY <1>1, <1>2, <4>1
    <3>2. ASSUME NEW s \in 2..(n + 1) PROVE In(fq, s)
      <4>1. s - 1 \in 1..n /\ (s - 1) + 1 = s
        BY <1>1
      <4>2. fq[s - 1] = s
        BY <1>2, <4>1
      <4> QED
        BY <1>2, <4>1, <4>2 DEF In
    <3> QED
      BY <3>1, <3>2
  <2> QED
    BY <1>2, <1>3, <2>2, <2>3 DEF In
<1>6. Ring(h, freequeue, fq)
  <2>1. fq = <<>> <=> n = 0
    BY <1>1, <1>2
  <2>2. n # 0 => fq[1] = 2 /\ fq[n] = n + 1
    BY <1>1, <1>2
  <2>3. ASSUME NEW i \in 1..n
        PROVE  /\ h.next[fq[i]] = IF i = n THEN freequeue ELSE fq[i + 1]
               /\ h.prev[fq[i]] = IF i = 1 THEN freequeue ELSE fq[i - 1]
    <3>1. fq[i] = i + 1 /\ i + 1 \in 2..(n + 1)
      BY <1>1, <1>2
    <3>2. i # n => i + 1 \in 1..n /\ fq[i + 1] = (i + 1) + 1
      BY <1>1, <1>2
    <3>3. i # 1 => i - 1 \in 1..n /\ fq[i - 1] = (i - 1) + 1
      BY <1>1, <1>2
    <3>4. /\ (i + 1 = n + 1) <=> i = n
          /\ (i + 1 = 2) <=> i = 1
          /\ (i + 1) - 1 = (i - 1) + 1
      BY <1>1
    <3>5. /\ h.next[i + 1] = IF i + 1 = n + 1 THEN freequeue ELSE (i + 1) + 1
          /\ h.prev[i + 1] = IF i + 1 = 2 THEN freequeue ELSE (i + 1) - 1
      BY <1>4, <3>1
    <3> QED
      BY <3>1, <3>2, <3>3, <3>4, <3>5
  <2> QED
    BY <1>2, <1>4, <2>1, <2>2, <2>3 DEF Ring
<1>7. Rings(h, Q)
  <2>1. ASSUME NEW x \in Heads PROVE Ring(h, x, Q[x])
    <3>1. CASE x = freequeue
      BY <1>3, <1>6, <3>1
    <3>2. CASE x # freequeue
      BY <1>3, <1>4, <1>5, <3>2 DEF Ring
    <3> QED
      BY <3>1, <3>2
  <2>2. ASSUME NEW x \in Heads, NEW y \in Heads,
               NEW i \in 1..Len(Q[x]), NEW j \in 1..Len(Q[y]), Q[x][i] = Q[y][j]
        PROVE  x = y /\ i = j
    <3>1. x = freequeue /\ y = freequeue
      BY <1>5
    <3>2. i \in 1..n /\ j \in 1..n /\ fq[i] = fq[j]
      BY <1>2, <1>3, <2>2, <3>1
    <3>3. i + 1 = j + 1
      BY <1>2, <3>2
    <3> QED
      BY <1>1, <3>1, <3>2, <3>3
  <2>3. ASSUME NEW s \in Slots, ~ OnList(Q, s)
        PROVE  h.next[s] = NULL /\ h.prev[s] = NULL
    <3>1. s \notin 2..(n + 1)
      BY <1>5, <2>3, HeadsDiffer DEF OnList
    <3>2. s \in {0, 1}
      BY <1>1, <3>1
    <3> QED
      BY <1>4, <3>2
  <2> QED
    BY <1>1, <1>3, <2>1, <2>2, <2>3 DEF Rings
<1>8. /\ kernel \in Kernel /\ kernel.policy = BootPolicy
      /\ kernel.procs = {Idle, Task1} /\ kernel.cur = Task1
      /\ kernel.reads = <<>> /\ kernel.rq = Quantum /\ kernel.panic = "no"
      /\ kernel.state = [t \in Slots |-> "RUN"]
      /\ kernel.saved = [t \in Slots |-> IF t = Idle THEN "boot" ELSE "none"]
  BY InitType DEF Init, TypeOK
<1>9. \A s \in Slots : OnList(Q, s) <=> s \in 2..(n + 1)
  BY <1>5, HeadsDiffer DEF OnList
<1>10. Core(kernel, Q)
  <2>1. \A s \in Slots : s \notin kernel.procs <=> In(Q[freequeue], s)
    BY <1>1, <1>5, <1>8
  <2>2. \A s \in kernel.procs \ {kernel.cur} :
          kernel.saved[s] \notin {"none", "exit"}
    BY <1>8, HeadsDiffer
  <2>3. \A s \in kernel.procs :
          /\ In(Q[readyqueue], s) => kernel.state[s] = "READY"
          /\ In(Q[console_blocked], s) => kernel.state[s] = "BLOCKED"
          /\ ~ OnList(Q, s) => kernel.state[s] = "RUN"
    <3> SUFFICES ASSUME NEW s \in kernel.procs
                 PROVE  /\ kernel.state[s] = "RUN"
                        /\ ~ In(Q[readyqueue], s) /\ ~ In(Q[console_blocked], s)
      OBVIOUS
    <3>1. s \in Slots
      BY <1>8, HeadsDiffer
    <3> QED
      BY <1>5, <1>8, <3>1, HeadsDiffer
  <2>4. ~ In(Q[console_blocked], Idle) /\ ~ In(Q[readyqueue], Idle)
    BY <1>5, HeadsDiffer
  <2> QED
    BY <1>1, <1>7, <1>8, <2>1, <2>2, <2>3, <2>4 DEF Core
<1>11. Settled(kernel, Q)
  <2>1. Task1 \notin 2..(n + 1) /\ Task1 \in Slots
    BY <1>1, HeadsDiffer
  <2> QED
    BY <1>8, <1>9, <1>10, <2>1 DEF Settled
<1>12. ConsoleAgrees(kernel.reads, Q[console_blocked])
  <2>1. Q[console_blocked] = <<>>
    BY <1>3, HeadsDiffer
  <2> QED
    BY <1>8, <2>1 DEF ConsoleAgrees
<1> QED
  BY <1>8, <1>11, <1>12, SizeAssumption DEF Good, NoPanic

\* A tick keeps the invariant.
LEMMA TickGood ==
  ASSUME SchedInv, Tick
  PROVE  SchedInv' /\ Running' /\ \E Q, R : Moved(Q, R) /\ TickMoves(Q, R)
<1> DEFINE k == zeos_update_read_console_emul(kernel)
<1>1. PICK Q : /\ Settled(kernel, Q)
               /\ ConsoleAgrees(kernel.reads, Q[console_blocked])
  BY DEF SchedInv, Good
<1>2. /\ kernel \in Kernel /\ kernel.rq \in 1..Quantum /\ kernel.panic = "no"
      /\ Quantum \in Nat
  BY <1>1, SizeAssumption DEF SchedInv, Good, Settled, Core, Tick, Interruptible
<1>3. /\ k.rq \in 1..Quantum /\ k.panic = "no"
      /\ k.cur = kernel.cur \/ IdleServed(k)
      /\ \E W, R : /\ Settled(k, R)
                  /\ ConsoleAgrees(k.reads, R[console_blocked])
                  /\ Woken(Q, W)
                  /\ Rescheduled(kernel.cur, kernel.rq, W, k, R)
  BY <1>1, <1>2, ConsoleGood
<1>4. Become(IF k.cur # kernel.cur THEN k ELSE schedule(k))
  BY DEF Tick
<1> HIDE DEF k
<1>5. PICK W, R : /\ Settled(k, R)
                  /\ ConsoleAgrees(k.reads, R[console_blocked])
                  /\ Woken(Q, W)
                  /\ Rescheduled(kernel.cur, kernel.rq, W, k, R)
  BY <1>3
<1>6. CASE k.cur # kernel.cur
  <2>1. Good(k) /\ IdleServed(k) /\ Become(k)
    BY <1>3, <1>4, <1>5, <1>6 DEF Good, NoPanic
  <2>2. Rescheduled(kernel.cur, left_of_turn, W, k, R)
    BY <1>2, <1>5, <1>6 DEF Rescheduled, left_of_turn
  <2>3. kernel' = k /\ Running'
    BY <1>3, <2>1, BecomeRuns
  <2>4. Moved(Q, R) /\ TickMoves(Q, R)
    BY <1>1, <1>5, <2>2, <2>3 DEF Moved, TickMoves
  <2> QED
    BY <2>1, <2>3, <2>4, BecomeGood DEF SchedInv
<1>7. CASE k.cur = kernel.cur
  <2>1. /\ R[readyqueue] = W[readyqueue] /\ R[console_blocked] = W[console_blocked]
        /\ k.rq = kernel.rq
    BY <1>2, <1>5, <1>7 DEF Rescheduled
  <2> DEFINE r == schedule(k)
  <2>2. /\ r.rq \in 1..Quantum /\ r.panic = "no" /\ IdleServed(r)
        /\ \E S : /\ Settled(r, S)
                 /\ ConsoleAgrees(r.reads, S[console_blocked])
                 /\ Rescheduled(k.cur, IF BootPolicy = "RR" THEN k.rq - 1 ELSE k.rq,
                                R, r, S)
    BY <1>3, <1>5, ScheduleGood
  <2>3. Become(r)
    BY <1>4, <1>7
  <2> HIDE DEF r
  <2>4. PICK S : /\ Settled(r, S)
                 /\ ConsoleAgrees(r.reads, S[console_blocked])
                 /\ Rescheduled(kernel.cur, left_of_turn, R, r, S)
    BY <1>7, <2>1, <2>2 DEF left_of_turn
  <2>5. Rescheduled(kernel.cur, left_of_turn, W, r, S)
    BY <2>1, <2>4 DEF Rescheduled
  <2>6. Good(r)
    BY <2>2, <2>4 DEF Good, NoPanic
  <2>7. kernel' = r /\ Running'
    BY <2>2, <2>3, BecomeRuns
  <2>8. Moved(Q, S) /\ TickMoves(Q, S)
    BY <1>1, <1>5, <2>4, <2>5, <2>7 DEF Moved, TickMoves
  <2> QED
    BY <2>2, <2>3, <2>6, <2>7, <2>8, BecomeGood DEF SchedInv
<1> QED
  BY <1>6, <1>7

\* So does the rest of an interrupted clock handler.
LEMMA ResumeGood ==
  ASSUME SchedInv, Resume
  PROVE  SchedInv' /\ Running' /\ \E Q, R : Moved(Q, R) /\ ResumeMoves(Q, R)
<1> DEFINE k == [kernel EXCEPT !.pc = "user"]
           r == schedule(k)
<1>1. PICK Q : /\ Settled(kernel, Q)
               /\ ConsoleAgrees(kernel.reads, Q[console_blocked])
  BY DEF SchedInv, Good
<1>2. kernel \in Kernel /\ kernel.rq \in 1..Quantum /\ kernel.panic = "no"
  BY <1>1 DEF SchedInv, Good, Settled, Core, Resume
<1>3. /\ k \in Kernel /\ k.heap = kernel.heap /\ k.policy = kernel.policy
      /\ k.procs = kernel.procs /\ k.cur = kernel.cur
      /\ k.saved = kernel.saved /\ k.state = kernel.state
      /\ k.reads = kernel.reads /\ k.panic = kernel.panic
      /\ k.rq = kernel.rq
  BY <1>2 DEF Kernel
<1>4. Become(r)
  BY DEF Resume
<1> HIDE DEF k
<1>5. Settled(k, Q)
  BY <1>1, <1>3 DEF Settled, Core
<1>6. /\ r.rq \in 1..Quantum /\ r.panic = "no" /\ IdleServed(r)
      /\ \E R : /\ Settled(r, R)
               /\ ConsoleAgrees(r.reads, R[console_blocked])
               /\ Rescheduled(k.cur, IF BootPolicy = "RR" THEN k.rq - 1 ELSE k.rq,
                              Q, r, R)
  BY <1>1, <1>2, <1>3, <1>5, ScheduleGood
<1> HIDE DEF r
<1>7. PICK R : /\ Settled(r, R)
               /\ ConsoleAgrees(r.reads, R[console_blocked])
               /\ Rescheduled(kernel.cur, left_of_turn, Q, r, R)
  BY <1>3, <1>6 DEF left_of_turn
<1>8. Good(r)
  BY <1>6, <1>7 DEF Good, NoPanic
<1>9. kernel' = r /\ Running'
  BY <1>4, <1>6, BecomeRuns
<1>10. Moved(Q, R) /\ ResumeMoves(Q, R)
  BY <1>1, <1>7, <1>9 DEF Moved, ResumeMoves
<1> QED
  BY <1>4, <1>6, <1>8, <1>9, <1>10, BecomeGood DEF SchedInv

\* Every step keeps the invariant under a steady policy.
LEMMA SchedInvStep ==
  ASSUME SteadyPolicy, SchedInv, [Next]_kernel
  PROVE  SchedInv'
<1>1. CASE \E p \in Policies : SetSchedPolicy(p)
  BY <1>1 DEF SetSchedPolicy, Calling, SteadyPolicy
<1>2. CASE UNCHANGED kernel
  BY <1>2 DEF SchedInv, Running, IdleServed
<1> QED
  BY <1>1, <1>2, TickGood, ResumeGood, ForkGood, ForkAgainGood, ExitGood,
     YieldGood, ReadGood DEF Next

-----------------------------------------------------------------------------
(***************************************************************************)
(* What the invariant implies                                              *)
(***************************************************************************)

\* An entry of a list, or its head, between its two neighbours.
LEMMA Neighbours ==
  ASSUME NEW h, NEW Q, Rings(h, Q), NEW hd \in Heads,
         NEW c, c = hd \/ In(Q[hd], c)
  PROVE  /\ h.next[c] = hd \/ In(Q[hd], h.next[c])
         /\ h.prev[c] = hd \/ In(Q[hd], h.prev[c])
         /\ h.prev[h.next[c]] = c /\ h.next[h.prev[c]] = c
<1> DEFINE q == Q[hd]
<1>1. q \in Seq(Slots) /\ Ring(h, hd, q)
  BY DEF Rings
<1>2. PICK m \in Nat : m = Len(q)
  BY <1>1
<1>3. /\ q = <<>> <=> m = 0
      /\ m = 0 => h.next[hd] = hd /\ h.prev[hd] = hd
      /\ m # 0 => h.next[hd] = q[1] /\ h.prev[hd] = q[m]
      /\ \A i \in 1..m :
           /\ h.next[q[i]] = IF i = m THEN hd ELSE q[i + 1]
           /\ h.prev[q[i]] = IF i = 1 THEN hd ELSE q[i - 1]
      /\ \A s : In(q, s) <=> \E i \in 1..m : q[i] = s
  BY <1>1, <1>2 DEF Ring, In
<1> HIDE DEF q
<1>4. m # 0 => 1 \in 1..m /\ m \in 1..m
  BY <1>2
<1>5. CASE c = hd
  <2>1. CASE m = 0
    BY <1>3, <1>5, <2>1 DEF q
  <2>2. CASE m # 0
    BY <1>3, <1>4, <1>5, <2>2 DEF q
  <2> QED
    BY <2>1, <2>2
<1>6. CASE In(q, c)
  <2>1. PICK i \in 1..m : q[i] = c
    BY <1>3, <1>6
  <2>2. /\ h.next[c] = hd \/ In(q, h.next[c])
        /\ h.prev[h.next[c]] = c
    <3>1. CASE i = m
      BY <1>3, <1>4, <2>1, <3>1
    <3>2. CASE i # m
      <4>1. i + 1 \in 1..m /\ i + 1 # 1 /\ (i + 1) - 1 = i
        BY <1>2, <3>2
      <4>2. h.next[c] = q[i + 1] /\ h.prev[q[i + 1]] = q[(i + 1) - 1]
        BY <1>3, <2>1, <3>2, <4>1
      <4> QED
        BY <1>3, <2>1, <4>1, <4>2
    <3> QED
      BY <3>1, <3>2
  <2>3. /\ h.prev[c] = hd \/ In(q, h.prev[c])
        /\ h.next[h.prev[c]] = c
    <3>1. CASE i = 1
      BY <1>3, <2>1, <3>1
    <3>2. CASE i # 1
      <4>1. i - 1 \in 1..m /\ i - 1 # m /\ (i - 1) + 1 = i
        BY <1>2, <3>2
      <4>2. h.prev[c] = q[i - 1] /\ h.next[q[i - 1]] = q[(i - 1) + 1]
        BY <1>3, <2>1, <3>2, <4>1
      <4> QED
        BY <1>3, <2>1, <4>1, <4>2
    <3> QED
      BY <3>1, <3>2
  <2> QED
    BY <2>2, <2>3 DEF q
<1> QED
  BY <1>5, <1>6 DEF q

\* Owner names the list an entry is on.
LEMMA OwnerIsList ==
  ASSUME NEW Q, Settled(kernel, Q),
         ConsoleAgrees(kernel.reads, Q[console_blocked])
  PROVE  /\ \A x \in Heads : Owner(x) = x
         /\ \A x \in Heads : \A s : In(Q[x], s) => Owner(s) = x
         /\ \A s \in Slots : ~ OnList(Q, s) => Owner(s) = NULL
<1>1. /\ Rings(kernel.heap, Q) /\ kernel.cur \in Slots
      /\ kernel.procs \subseteq Slots
      /\ \A s \in Slots : s \notin Heads
      /\ \A s \in Slots : s \notin kernel.procs <=> In(Q[freequeue], s)
      /\ ~ OnList(Q, kernel.cur) /\ kernel.cur \in kernel.procs
      /\ \A s \in kernel.procs \ {Idle, kernel.cur} : OnList(Q, s)
      /\ ~ In(Q[console_blocked], Idle)
  BY SlotAssumption, CurType DEF Settled, Core, Kernel
<1>2. \A s : Waiting(s) <=> In(Q[console_blocked], s)
  <2>1. Q[console_blocked] \in Seq(Slots)
        /\ kernel.reads \in Seq([task : Slots, left : Int])
    BY HeadsDiffer DEF Settled, Core, Kernel, Rings
  <2>2. DOMAIN kernel.reads = 1..Len(kernel.reads)
    BY <2>1
  <2> QED
    BY <2>2 DEF Waiting, In, ConsoleAgrees
<1>3. \A s \in Slots : Linked(kernel.heap, s) <=> OnList(Q, s)
  BY <1>1, LinkedIsOnList
<1>4. ASSUME NEW x \in Heads, NEW s, In(Q[x], s) PROVE Owner(s) = x
  <2>1. s \in Slots /\ \A y \in Heads : In(Q[y], s) => y = x
    BY <1>1, <1>4, OneList
  <2>2. OnList(Q, s) /\ s # kernel.cur
    BY <1>1, <1>4 DEF OnList
  <2>3. x \in {freequeue, readyqueue, console_blocked}
    BY DEF Heads
  <2> QED
    BY <1>1, <1>2, <1>3, <1>4, <2>1, <2>2, <2>3, HeadsDiffer DEF Owner
<1>5. ASSUME NEW s \in Slots, ~ OnList(Q, s) PROVE Owner(s) = NULL
  <2>1. s \in kernel.procs /\ ~ Waiting(s)
    BY <1>1, <1>2, <1>5, HeadsDiffer DEF OnList
  <2>2. s = kernel.cur \/ s = Idle
    BY <1>1, <1>5, <2>1
  <2> QED
    BY <1>1, <1>3, <1>5, <2>1, <2>2 DEF Owner
<1> QED
  BY <1>4, <1>5 DEF Owner

\* The invariant implies that links agree.
LEMMA SchedInvLinks == SchedInv => LinksAgree
<1> SUFFICES ASSUME SchedInv, NEW c \in Cells
             PROVE  IF Owner(c) = NULL
                    THEN kernel.heap.next[c] = NULL /\ kernel.heap.prev[c] = NULL
                    ELSE /\ kernel.heap.next[c] \in Cells
                         /\ kernel.heap.prev[c] \in Cells
                         /\ kernel.heap.prev[kernel.heap.next[c]] = c
                         /\ kernel.heap.next[kernel.heap.prev[c]] = c
                         /\ Owner(kernel.heap.next[c]) = Owner(c)
  BY DEF LinksAgree
<1>1. PICK Q : /\ Settled(kernel, Q)
               /\ ConsoleAgrees(kernel.reads, Q[console_blocked])
  BY DEF SchedInv, Good
<1>2. Rings(kernel.heap, Q)
  BY <1>1 DEF Settled, Core
<1>3. CASE c \in Slots /\ ~ OnList(Q, c)
  BY <1>1, <1>2, <1>3, OwnerIsList DEF Rings
<1>4. CASE c \in Heads \/ OnList(Q, c)
  <2>1. PICK hd \in Heads : c = hd \/ In(Q[hd], c)
    BY <1>4 DEF OnList
  <2>2. Owner(c) = hd /\ hd # NULL /\ hd \in Cells
    BY <1>1, <2>1, OwnerIsList, SlotAssumption DEF Cells
  <2>3. /\ kernel.heap.next[c] = hd \/ In(Q[hd], kernel.heap.next[c])
        /\ kernel.heap.prev[c] = hd \/ In(Q[hd], kernel.heap.prev[c])
        /\ kernel.heap.prev[kernel.heap.next[c]] = c
        /\ kernel.heap.next[kernel.heap.prev[c]] = c
    BY <1>2, <2>1, Neighbours
  <2>4. /\ kernel.heap.next[c] \in Cells /\ kernel.heap.prev[c] \in Cells
        /\ Owner(kernel.heap.next[c]) = hd
    BY <1>1, <1>2, <2>2, <2>3, OneList, OwnerIsList, HeadsDiffer
  <2> QED
    BY <2>2, <2>3, <2>4
<1> QED
  BY <1>3, <1>4 DEF Cells

\* The invariant implies that the state fields agree.
LEMMA SchedInvState == SchedInv => StateAgrees
<1> SUFFICES ASSUME SchedInv, kernel.policy = "RR", NEW t \in kernel.procs
             PROVE  /\ Owner(t) = readyqueue => kernel.state[t] = "READY"
                    /\ Owner(t) = console_blocked => kernel.state[t] = "BLOCKED"
                    /\ Owner(t) = NULL => kernel.state[t] = "RUN"
  BY DEF StateAgrees
<1>1. PICK Q : /\ Settled(kernel, Q)
               /\ ConsoleAgrees(kernel.reads, Q[console_blocked])
  BY DEF SchedInv, Good
<1>2. /\ BootPolicy = "RR" /\ t \in Slots /\ kernel.procs \subseteq Slots
      /\ \A x \in Heads : x # NULL
  BY <1>1, SlotAssumption DEF Settled, Core, Kernel, Cells
<1>3. CASE OnList(Q, t)
  <2>1. PICK x \in Heads : In(Q[x], t)
    BY <1>3 DEF OnList
  <2>2. Owner(t) = x
    BY <1>1, <2>1, OwnerIsList
  <2> QED
    BY <1>1, <1>2, <2>1, <2>2 DEF Settled, Core
<1>4. CASE ~ OnList(Q, t)
  <2>1. Owner(t) = NULL /\ kernel.state[t] = "RUN"
    BY <1>1, <1>2, <1>4, OwnerIsList DEF Settled, Core
  <2> QED
    BY <1>2, <2>1, HeadsDiffer
<1> QED
  BY <1>3, <1>4

\* With a steady policy the links of the lists are right after every handler,
\* however many processes fork, exit, read and are switched: each entry is
\* on the list that its process's condition calls for, between neighbours of
\* that same list.
THEOREM ListsStayLinked ==
  ASSUME SteadyPolicy PROVE Spec => []LinksAgree
<1>1. SchedInv /\ [Next]_kernel => SchedInv'
  BY SchedInvStep
<1> QED
  BY <1>1, InitGood, SchedInvLinks, PTL DEF Spec

\* With a steady policy list_del is never given an entry that is on no list and
\* no list head is ever taken for a process.
THEOREM NothingUnlinkedTwice ==
  ASSUME SteadyPolicy PROVE Spec => []NeverUnlinksTwice
<1>1. SchedInv /\ [Next]_kernel => SchedInv'
  BY SchedInvStep
<1>2. SchedInv => NeverUnlinksTwice
  BY DEF SchedInv, Good, NoPanic, NeverUnlinksTwice
<1> QED
  BY <1>1, <1>2, InitGood, PTL DEF Spec

\* With a steady policy the state fields that update_process_state_rr trusts
\* agree with the lists.
THEOREM StatesStayRight ==
  ASSUME SteadyPolicy PROVE Spec => []StateAgrees
<1>1. SchedInv /\ [Next]_kernel => SchedInv'
  BY SchedInvStep
<1> QED
  BY <1>1, InitGood, SchedInvState, PTL DEF Spec

\* With a steady policy whoever leaves the kernel has between one tick and a
\* full quantum to go.
THEOREM QuantumStaysInRange ==
  ASSUME SteadyPolicy PROVE Spec => []QuantumInRange
<1>1. SchedInv /\ [Next]_kernel => SchedInv'
  BY SchedInvStep
<1>2. SchedInv => QuantumInRange
  BY DEF SchedInv, Good, QuantumInRange
<1> QED
  BY <1>1, <1>2, InitGood, PTL DEF Spec

\* If, besides, no program yields, a switch always restores the context that
\* the task itself saved last: forks, exits, reads and ticks leave no other.
THEOREM ContextsStayFresh ==
  ASSUME SteadyPolicy, "yield" \notin Calls PROVE Spec => []NeverStaleContext
<1>1. SchedInv /\ [Next]_kernel => SchedInv'
  BY SchedInvStep
<1>2. SchedInv => NeverStaleContext
  BY DEF SchedInv, Good, NoPanic, NeverStaleContext
<1> QED
  BY <1>1, <1>2, InitGood, PTL DEF Spec

-----------------------------------------------------------------------------
(***************************************************************************)
(* What FCFS promises.  Neither property follows from SchedInv: the first  *)
(* is about a step, and the second needs that whoever is dispatched is the *)
(* first of readyqueue whenever there is one.                              *)
(***************************************************************************)

\* From k to r the current task, the policy, the processes and their requests
\* stay.
SameTurn(k, r) ==
  /\ r.cur = k.cur /\ r.policy = k.policy
  /\ r.procs = k.procs /\ r.reads = k.reads

\* Moving a task between lists takes nobody's turn.
LEMMA QueueingKeepsTurn ==
  ASSUME NEW k \in Kernel, NEW t \in Slots, NEW hd \in Heads
  PROVE  /\ SameTurn(k, AddTail(k, t, hd))
         /\ SameTurn(k, Del(k, t))
         /\ SameTurn(k, update_process_state(k, t, hd))
<1>1. /\ SameTurn(k, AddTail(k, t, hd))
      /\ SameTurn(k, Del(k, t))
  BY DEF Kernel, SameTurn, AddTail, Del
<1>2. /\ AddTail(k, t, hd) \in Kernel /\ Del(k, t) \in Kernel
      /\ AddTail(Del(k, t), t, hd) \in Kernel
  BY AddTailType, DelType
<1>3. SameTurn(k, AddTail(Del(k, t), t, hd))
  BY <1>1, <1>2 DEF SameTurn, AddTail, Kernel
<1>4. ASSUME NEW a \in Kernel, NEW v, SameTurn(k, a)
      PROVE  SameTurn(k, [a EXCEPT !.state[t] = v])
  BY <1>4 DEF SameTurn, Kernel
<1>5. SameTurn(k, update_process_state_rr(k, t, hd))
  BY <1>1, <1>2, <1>3, <1>4 DEF update_process_state_rr
<1>6. SameTurn(k, update_process_state_fcfs(k, t, hd))
  BY <1>1, <1>2, <1>3 DEF update_process_state_fcfs, SameTurn
<1>7. update_process_state(k, t, hd) \in {update_process_state_rr(k, t, hd),
                                         update_process_state_fcfs(k, t, hd)}
  BY DEF update_process_state
<1> QED
  BY <1>1, <1>5, <1>6, <1>7

\* A dispatch keeps the processes and their requests.
LEMMA DispatchKeeps ==
  ASSUME NEW k \in Kernel, NEW place,
         NEW r \in {sched_next(k, place), sched_next_rr(k, place)}
  PROVE  r.procs = k.procs /\ r.reads = k.reads
<1> DEFINE t == first_ready(k)
           d == take_ready(k)
<1>1. CASE t \notin Slots
  BY <1>1 DEF sched_next, sched_next_rr, sched_next_fcfs, Kernel
<1>2. CASE t \in Slots
  <2>1. d \in Kernel /\ d.procs = k.procs /\ d.reads = k.reads
    BY <1>2, DelType, QueueingKeepsTurn, HeadsDiffer DEF take_ready, SameTurn
  <2> HIDE DEF d, t
  <2>2. r \in {task_switch(d, t, place),
               task_switch([d EXCEPT !.state[t] = "RUN", !.rq = Quantum], t, place)}
    BY <1>2 DEF sched_next, sched_next_rr, sched_next_fcfs, d, t
  <2>3. ASSUME NEW x, x.procs = k.procs, x.reads = k.reads,
               "procs" \in DOMAIN x, "reads" \in DOMAIN x
        PROVE  /\ task_switch(x, t, place).procs = k.procs
               /\ task_switch(x, t, place).reads = k.reads
    BY <2>3 DEF task_switch
  <2> DEFINE e == [d EXCEPT !.state[t] = "RUN", !.rq = Quantum]
  <2>4. /\ e.procs = k.procs /\ e.reads = k.reads
        /\ "procs" \in DOMAIN e /\ "reads" \in DOMAIN e
        /\ "procs" \in DOMAIN d /\ "reads" \in DOMAIN d
    BY <2>1 DEF Kernel
  <2> HIDE DEF e
  <2>5. r \in {task_switch(d, t, place), task_switch(e, t, place)}
    BY <2>2 DEF e
  <2> QED
    BY <2>1, <2>3, <2>4, <2>5
<1> QED
  BY <1>1, <1>2

\* Under FCFS only idle gives way at the end of a handler.
LEMMA FcfsKeepsTurn ==
  ASSUME NEW k \in Kernel, k.policy = "FCFS", k.cur # Idle
  PROVE  /\ schedule(k) = k
         /\ zeos_update_read_console_emul(k).cur = k.cur
         /\ zeos_update_read_console_emul(k).policy = k.policy
<1>1. ASSUME NEW u, NEW place, u.policy = "FCFS", u.cur # Idle
      PROVE  reschedule(u, place) = u
  BY <1>1 DEF reschedule, needs_sched, renew_quantum
<1>2. schedule(k) = k
  BY <1>1 DEF schedule, update_sched_data
<1>3. CASE k.reads = <<>>
  <2>1. zeos_update_read_console_emul(k) = k
    BY <1>3 DEF zeos_update_read_console_emul
  <2> QED
    BY <1>2, <2>1
<1>4. CASE k.reads # <<>>
  <2> DEFINE E == [task : Slots, left : Int]
             t == k.reads[1].task
             m == [k EXCEPT !.reads = Tail(@)]
  <2>1. k.reads[1] \in E /\ Tail(k.reads) \in Seq(E)
    <3>1. k.reads \in Seq(E)
      BY DEF Kernel
    <3> HIDE DEF E
    <3> QED
      BY <1>4, <3>1
  <2>2. m \in Kernel /\ t \in Slots /\ m.cur = k.cur /\ m.policy = k.policy
    BY <2>1 DEF Kernel
  <2> HIDE DEF m, t
  <2>3. SameTurn(m, update_process_state(m, t, readyqueue))
    BY <2>2, HeadsDiffer, QueueingKeepsTurn
  <2>4. unblock_process(m, t) = update_process_state(m, t, readyqueue)
    BY <1>1, <2>2, <2>3 DEF unblock_process, SameTurn
  <2>5. \A n : LET r == [k EXCEPT !.reads[1].left = n]
               IN  r.cur = k.cur /\ r.policy = k.policy
    BY DEF Kernel
  <2> DEFINE w(n) == [k EXCEPT !.reads[1].left = n]
  <2>6. zeos_update_read_console_emul(k) = unblock_process(m, t)
        \/ \E n : zeos_update_read_console_emul(k) = w(n)
    <3> DEFINE left == k.reads[1].left - 1
    <3>1. zeos_update_read_console_emul(k) =
            IF left > 0 THEN w(left) ELSE unblock_process(m, t)
      BY <1>4 DEF zeos_update_read_console_emul, m, t
    <3> HIDE DEF left, w
    <3> QED
      BY <3>1
  <2>7. \A n : w(n).cur = k.cur /\ w(n).policy = k.policy
    BY <2>5
  <2> HIDE DEF w
  <2> QED
    BY <1>2, <2>2, <2>3, <2>4, <2>6, <2>7 DEF SameTurn
<1> QED
  BY <1>2, <1>3, <1>4

\* If the turn changed, the handler ended without a panic.
LEMMA BecomeTurn ==
  ASSUME kernel \in Kernel, NEW k, Become(k), kernel'.cur # kernel.cur
  PROVE  kernel' = k
<1>1. \A p : [kernel EXCEPT !.panic = p].cur = kernel.cur
  BY DEF Kernel
<1> QED
  BY <1>1 DEF Become

\* Under FCFS a step takes the CPU from a process only to block or to end it.
LEMMA FcfsStep ==
  ASSUME TypeOK, "yield" \notin Calls, Next, kernel.policy = "FCFS",
         NEW t \in Slots \ {Idle}, kernel.cur = t, kernel'.cur # t
  PROVE  t \notin kernel'.procs \/ Waiting(t)'
<1>1. kernel \in Kernel /\ t \in Slots
  BY DEF TypeOK
<1>2. CASE Tick
  <2>1. PICK k \in {zeos_update_read_console_emul(kernel)} :
          Become(IF k.cur # kernel.cur THEN k ELSE schedule(k))
    BY <1>2 DEF Tick
  <2>2. k \in Kernel /\ k.cur = t /\ k.policy = "FCFS"
    BY <1>1, <2>1, ConsoleType, FcfsKeepsTurn
  <2>3. schedule(k) = k
    BY <2>2, FcfsKeepsTurn
  <2> QED
    BY <1>1, <2>1, <2>2, <2>3, BecomeTurn
<1>3. CASE Resume
  <2> DEFINE r == [kernel EXCEPT !.pc = "user"]
  <2>1. r \in Kernel /\ r.cur = t /\ r.policy = "FCFS"
    BY <1>1 DEF Kernel
  <2>2. Become(schedule(r))
    BY <1>3 DEF Resume
  <2> HIDE DEF r
  <2>3. Become(r)
    BY <2>1, <2>2, FcfsKeepsTurn
  <2> QED
    BY <1>1, <2>1, <2>3, BecomeTurn
<1>4. CASE Fork \/ ForkAgain
  <2> DEFINE c == ListFirst(kernel.heap, freequeue)
             x == CopiedSlot(kernel, c)
             f(a) == [a EXCEPT !.procs = @ \cup {c}, !.state[c] = "READY",
                               !.saved[c] = "fork", !.page0[c] = TRUE,
                               !.frames = @ - NUM_PAG_DATA]
  <2>1. \/ Become([kernel EXCEPT !.panic = "wild"])
        \/ c \in Slots /\ (\/ Become(AddTail(x, c, freequeue))
                           \/ Become(f(AddTail(x, c, readyqueue))))
    BY <1>4 DEF Fork, ForkAgain
  <2>2. [kernel EXCEPT !.panic = "wild"].cur = t
    BY <1>1 DEF Kernel
  <2>3. ASSUME c \in Slots, NEW hd \in Heads
        PROVE  AddTail(x, c, hd) \in Kernel /\ AddTail(x, c, hd).cur = t
    <3>1. x \in Kernel /\ x.cur = t
      <4>1. Del(kernel, c) \in Kernel /\ Del(kernel, c).cur = t
        BY <1>1, <2>3, DelType, QueueingKeepsTurn DEF SameTurn
      <4>2. CopiedSlot(kernel, c) \in Kernel
        BY <1>1, <2>3, CopiedSlotType
      <4> HIDE DEF c
      <4> QED
        BY <4>1, <4>2 DEF CopiedSlot, Kernel
    <3> HIDE DEF x
    <3> QED
      BY <2>3, <3>1, AddTailType, QueueingKeepsTurn DEF SameTurn
  <2>4. \A a \in Kernel : f(a).cur = a.cur
    BY DEF Kernel
  <2> HIDE DEF c, x, f
  <2> QED
    BY <1>1, <2>1, <2>2, <2>3, <2>4, BecomeTurn, HeadsDiffer
<1>5. CASE Exit
  <2> DEFINE a == AddTail(kernel, t, freequeue)
             r == [a EXCEPT !.frames = @ + NUM_PAG_DATA, !.procs = @ \ {t}]
  <2>1. a \in Kernel
    BY <1>1, AddTailType, HeadsDiffer
  <2>2. r \in Kernel /\ t \notin r.procs
    <3>1. a.frames + NUM_PAG_DATA \in Nat /\ a.procs \ {t} \in SUBSET Slots
      BY <2>1, SizeAssumption DEF Kernel
    <3> HIDE DEF a
    <3> QED
      BY <2>1, <3>1 DEF Kernel
  <2>3. Become(sched_next_rr(r, "exit"))
    BY <1>5 DEF Exit
  <2> HIDE DEF r
  <2>4. kernel' = sched_next_rr(r, "exit")
    BY <1>1, <2>3, BecomeTurn
  <2> QED
    BY <2>2, <2>4, DispatchKeeps
<1>6. CASE Yield
  BY <1>6 DEF Yield, Calling
<1>7. ASSUME NEW n \in ReadTicks, Read(n) PROVE Waiting(t)'
  <2> DEFINE E == [task : Slots, left : Int]
             req == [task |-> t, left |-> n]
             k == [kernel EXCEPT !.reads = Append(@, req)]
             u == update_process_state(k, t, console_blocked)
  <2>1. kernel.reads \in Seq(E) /\ req \in E /\ req.task = t
    BY <1>1, SizeAssumption DEF Kernel
  <2> HIDE DEF E, req
  <2>2. \E i \in DOMAIN Append(kernel.reads, req) :
          Append(kernel.reads, req)[i] = req
    <3>1. /\ Len(kernel.reads) + 1 \in DOMAIN Append(kernel.reads, req)
          /\ Append(kernel.reads, req)[Len(kernel.reads) + 1] = req
      BY <2>1
    <3> QED
      BY <3>1
  <2>3. /\ k \in Kernel /\ k.cur = t
        /\ k.reads = Append(kernel.reads, req)
    <3>1. Append(kernel.reads, req) \in Seq(E)
      BY <2>1
    <3> QED
      BY <1>1, <3>1 DEF Kernel, E
  <2>4. Become(sched_next(u, "read"))
    BY <1>7, <2>3 DEF Read, block_process, req
  <2> HIDE DEF k
  <2>5. u \in Kernel /\ u.reads = k.reads
    BY <1>1, <2>3, UpdateStateType, QueueingKeepsTurn, HeadsDiffer DEF SameTurn
  <2> HIDE DEF u
  <2>6. kernel'.reads = Append(kernel.reads, req)
    BY <1>1, <2>3, <2>4, <2>5, BecomeTurn, DispatchKeeps
  <2> QED
    BY <2>1, <2>2, <2>6 DEF Waiting
<1>8. ASSUME NEW p \in Policies, SetSchedPolicy(p) PROVE FALSE
  <2>1. Become([kernel EXCEPT !.policy = p])
    BY <1>8 DEF SetSchedPolicy
  <2>2. [kernel EXCEPT !.policy = p].cur = t
    BY <1>1 DEF Kernel
  <2> QED
    BY <1>1, <2>1, <2>2, BecomeTurn
<1> QED
  BY <1>2, <1>3, <1>4, <1>5, <1>6, <1>7, <1>8 DEF Next

\* Where no program yields, FCFS never preempts: whoever loses the CPU under it
\* has asked for a read or has ended, even where programs change the policy at
\* any time.
THEOREM FcfsKeepsTheCpu ==
  ASSUME "yield" \notin Calls PROVE Spec => FcfsNeverPreempts
<1>1. TypeOK /\ [Next]_kernel =>
        [\A t \in Slots \ {Idle} :
           kernel.policy = "FCFS" /\ kernel.cur = t /\ kernel'.cur # t =>
             t \notin kernel'.procs \/ Waiting(t)']_kernel
  <2> SUFFICES ASSUME TypeOK, Next, NEW t \in Slots \ {Idle},
                      kernel.policy = "FCFS", kernel.cur = t, kernel'.cur # t
               PROVE  t \notin kernel'.procs \/ Waiting(t)'
    OBVIOUS
  <2> QED
    BY FcfsStep
<1> QED
  BY <1>1, TypeCorrect, PTL DEF Spec, FcfsNeverPreempts

\* With a steady policy idle has the CPU under FCFS only while no process is
\* ready, however the wake-ups of the clock handler interleave with its rest.
THEOREM IdleRunsAlone ==
  ASSUME SteadyPolicy PROVE Spec => []IdleOnlyWhenNoneReady
<1>1. SchedInv /\ [Next]_kernel => SchedInv'
  BY SchedInvStep
<1>2. SchedInv => IdleOnlyWhenNoneReady
  BY DEF SchedInv, Good, Settled, Core, Running, Interruptible, IdleServed,
         IdleOnlyWhenNoneReady
<1> QED
  BY <1>1, <1>2, InitGood, PTL DEF Spec

-----------------------------------------------------------------------------
(***************************************************************************)
(* Part three: the queues                                                  *)
(***************************************************************************)

(***************************************************************************)
(* The walks see the lists of the invariant                                *)
(***************************************************************************)

\* The queues of the kernel are the lists it is settled with.
LEMMA QueuesOfKernel ==
  ASSUME NEW Q, Settled(kernel, Q)
  PROVE  /\ Free = Q[freequeue] /\ Ready = Q[readyqueue]
         /\ Blocked = Q[console_blocked] /\ AllRings
         /\ Ready \in Seq(Slots) /\ Blocked \in Seq(Slots) /\ kernel.cur \in Slots
<1>1. Rings(kernel.heap, Q) /\ kernel \in Kernel
  BY DEF Settled, Core
<1>2. \A hd \in Heads : /\ IsRing(kernel.heap, hd)
                        /\ Entries(kernel.heap, hd) = Q[hd]
  BY <1>1, EntriesOfRing
<1>3. \A hd \in Heads : Q[hd] \in Seq(Slots)
  BY <1>1 DEF Rings
<1> QED
  BY <1>1, <1>2, <1>3, HeadsDiffer, CurType DEF Free, Ready, Blocked, AllRings

\* The same after a step.
LEMMA QueuesOfNext ==
  ASSUME NEW Q, Settled(kernel', Q)
  PROVE  /\ Ready' = Q[readyqueue] /\ Blocked' = Q[console_blocked]
         /\ Ready' \in Seq(Slots) /\ Blocked' \in Seq(Slots)
<1>1. Rings(kernel'.heap, Q)
  BY DEF Settled, Core
<1>2. \A hd \in Heads : Entries(kernel'.heap, hd) = Q[hd]
  BY <1>1, EntriesOfRing
<1>3. \A hd \in Heads : Q[hd] \in Seq(Slots)
  BY <1>1 DEF Rings
<1> QED
  BY <1>2, <1>3, HeadsDiffer DEF Ready, Blocked

\* Who waits is on the list of the console.
LEMMA WaitingIsBlocked ==
  ASSUME NEW Q, Settled(kernel, Q), ConsoleAgrees(kernel.reads, Q[console_blocked])
  PROVE  /\ DOMAIN kernel.reads = 1..Len(kernel.reads)
         /\ \A s : Waiting(s) <=> In(Q[console_blocked], s)
<1>1. Q[console_blocked] \in Seq(Slots)
      /\ kernel.reads \in Seq([task : Slots, left : Int])
  BY HeadsDiffer DEF Settled, Core, Kernel, Rings
<1>2. DOMAIN kernel.reads = 1..Len(kernel.reads)
  BY <1>1
<1> QED
  BY <1>2 DEF Waiting, In, ConsoleAgrees

\* The invariant implies that every task is in its queue.
LEMMA SchedInvQueues == SchedInv => EveryTaskInItsQueue
<1> SUFFICES ASSUME SchedInv PROVE EveryTaskInItsQueue
  OBVIOUS
<1>1. PICK Q : Settled(kernel, Q) /\ ConsoleAgrees(kernel.reads, Q[console_blocked])
  BY DEF SchedInv, Good
<1>2. /\ Free = Q[freequeue] /\ Ready = Q[readyqueue]
      /\ Blocked = Q[console_blocked] /\ AllRings
  BY <1>1, QueuesOfKernel
<1>3. \A s : Waiting(s) <=> In(Q[console_blocked], s)
  BY <1>1, WaitingIsBlocked
<1>4. ASSUME NEW hd \in Heads
      PROVE  \A s : s \in ToSet(Q[hd]) <=> In(Q[hd], s)
  <2>1. Q[hd] \in Seq(Slots)
    BY <1>1 DEF Settled, Core, Rings
  <2>2. DOMAIN Q[hd] = 1..Len(Q[hd])
    BY <2>1
  <2> QED
    BY <2>2 DEF ToSet, In
<1>5. ASSUME NEW hd \in Heads, NEW s, In(Q[hd], s)
      PROVE  s \in Slots /\ \A y \in Heads : In(Q[y], s) => y = hd
  BY <1>1, <1>5, OneList DEF Settled, Core
<1>6. /\ kernel.procs \subseteq Slots
      /\ \A s \in Slots : s \notin kernel.procs <=> In(Q[freequeue], s)
      /\ kernel.cur \in kernel.procs /\ ~ OnList(Q, kernel.cur)
      /\ \A s \in kernel.procs \ {Idle, kernel.cur} : OnList(Q, s)
  BY <1>1 DEF Settled, Core, Kernel
<1>7. ToSet(Free) = Slots \ kernel.procs
  BY <1>2, <1>4, <1>5, <1>6, HeadsDiffer
<1>8. ToSet(Blocked) = {t \in kernel.procs : Waiting(t)}
  BY <1>2, <1>3, <1>4, <1>5, <1>6, HeadsDiffer
<1>9. ToSet(Ready) \ {Idle} =
        {t \in kernel.procs \ {Idle, kernel.cur} : ~ Waiting(t)}
  <2>1. \A s \in kernel.procs \ {Idle, kernel.cur} :
          In(Q[readyqueue], s) \/ In(Q[console_blocked], s)
    BY <1>6 DEF OnList, Heads
  <2>2. \A s : In(Q[readyqueue], s) =>
          s \in kernel.procs /\ s # kernel.cur /\ ~ Waiting(s)
    BY <1>3, <1>5, <1>6, HeadsDiffer DEF OnList
  <2> QED
    BY <1>2, <1>3, <1>4, <2>1, <2>2, HeadsDiffer
<1>10. kernel.cur \notin ToSet(Ready) \cup ToSet(Blocked) \cup ToSet(Free)
  BY <1>2, <1>4, <1>6, HeadsDiffer DEF OnList
<1> QED
  BY <1>2, <1>7, <1>8, <1>9, <1>10 DEF EveryTaskInItsQueue

\* The invariant implies that console_blocked is in the order of the requests.
LEMMA SchedInvOrder == SchedInv => BlockedInRequestOrder
<1> SUFFICES ASSUME SchedInv
             PROVE  Blocked = [i \in DOMAIN kernel.reads |-> kernel.reads[i].task]
  BY DEF BlockedInRequestOrder
<1>1. PICK Q : Settled(kernel, Q) /\ ConsoleAgrees(kernel.reads, Q[console_blocked])
  BY DEF SchedInv, Good
<1>2. Blocked = Q[console_blocked] /\ Blocked \in Seq(Slots)
  BY <1>1, QueuesOfKernel
<1>3. Blocked = [i \in 1..Len(Blocked) |-> Blocked[i]]
  BY <1>2
<1>4. /\ DOMAIN kernel.reads = 1..Len(Blocked)
      /\ \A i \in 1..Len(Blocked) : Blocked[i] = kernel.reads[i].task
  BY <1>1, <1>2, WaitingIsBlocked DEF ConsoleAgrees
<1> QED
  BY <1>3, <1>4

\* With a steady policy a walk along the three queues meets every process and
\* every free slot exactly where it belongs, however many processes fork, exit,
\* read and are switched: list.c's pointers never lose one.
THEOREM NobodyFallsOffTheQueues ==
  ASSUME SteadyPolicy PROVE Spec => []EveryTaskInItsQueue
<1>1. SchedInv /\ [Next]_kernel => SchedInv'
  BY SchedInvStep
<1> QED
  BY <1>1, InitGood, SchedInvQueues, PTL DEF Spec

\* With a steady policy console_blocked and pending_reads name the same processes
\* in the same order, so the process that unblock_process takes from the list is
\* the one whose request the console has served.
THEOREM BlockedAsRequested ==
  ASSUME SteadyPolicy PROVE Spec => []BlockedInRequestOrder
<1>1. SchedInv /\ [Next]_kernel => SchedInv'
  BY SchedInvStep
<1> QED
  BY <1>1, InitGood, SchedInvOrder, PTL DEF Spec

-----------------------------------------------------------------------------
(***************************************************************************)
(* The only stale context                                                  *)
(***************************************************************************)

\* A step that panics is a yield that found nobody ready.
LEMMA PanicsAlone ==
  ASSUME SteadyPolicy, SchedInv, Next, ~ Running'
  PROVE  Yield /\ Ready = <<>>
<1>1. Yield
  <2>1. \A p \in Policies : ~ SetSchedPolicy(p)
    BY DEF SetSchedPolicy, Calling, SteadyPolicy
  <2> QED
    BY <2>1, TickGood, ResumeGood, ForkGood, ForkAgainGood, ExitGood, ReadGood DEF Next
<1>2. PICK Q : Settled(kernel, Q) /\ Q[readyqueue] = <<>>
  BY <1>1, YieldGood
<1> QED
  BY <1>1, <1>2, QueuesOfKernel

\* With a steady policy the CPU never goes to a process whose saved context is
\* not its own, but for a process that yields while no other is ready.
THEOREM OnlyLoneYieldIsStale ==
  ASSUME SteadyPolicy PROVE Spec => StaleOnlyIfAlone
<1>1. SchedInv /\ [Next]_kernel => SchedInv'
  BY SchedInvStep
<1>2. ASSUME SchedInv, [Next]_kernel
      PROVE  [kernel'.panic = "context" => Yield /\ Ready = <<>>]_kernel
  BY <1>2, PanicsAlone DEF Running
<1> QED
  BY <1>1, <1>2, InitGood, PTL DEF Spec, StaleOnlyIfAlone

-----------------------------------------------------------------------------
(***************************************************************************)
(* The lists implement the queues of ProcQueues                            *)
(***************************************************************************)

\* What the queues are before and after a step that returns.
LEMMA QueuesMove ==
  ASSUME NEW Q, NEW R, Moved(Q, R)
  PROVE  /\ Ready = Q[readyqueue] /\ Blocked = Q[console_blocked]
         /\ Ready' = R[readyqueue] /\ Blocked' = R[console_blocked]
         /\ Ready \in Seq(Slots) /\ Blocked \in Seq(Slots) /\ kernel.cur \in Slots
BY QueuesOfKernel, QueuesOfNext DEF Moved

\* The first of a queue gets the CPU.
LEMMA DispatchImplements ==
  ASSUME NEW q \in Seq(Slots), NEW Q, NEW R, Moved(Q, R), Dispatched(q, kernel', R)
  PROVE  Queues!Dispatch(q)
<1>1. Ready' = R[readyqueue]
  BY QueuesMove
<1> QED
  BY <1>1 DEF Queues!Dispatch, Dispatched

\* Boot leaves idle and task 1 off the queues.
LEMMA InitQueues == Init => Queues!Init
<1> SUFFICES ASSUME Init PROVE Queues!Init
  OBVIOUS
<1>1. PICK Q : Settled(kernel, Q)
  BY InitGood DEF SchedInv, Good
<1>2. kernel.heap = BootHeap /\ kernel.cur = Task1
  BY DEF Init
<1>3. /\ ListEmpty(kernel.heap, readyqueue)
      /\ ListEmpty(kernel.heap, console_blocked)
  BY <1>2, HeadsDiffer DEF ListEmpty, BootHeap, Cells
<1>4. Q[readyqueue] = <<>> /\ Q[console_blocked] = <<>>
  BY <1>1, <1>3, HeadsDiffer, FirstOfRing DEF Settled, Core
<1> QED
  BY <1>1, <1>2, <1>4, QueuesOfKernel DEF Queues!Init

\* The clock wakes at most one process, and then the current one stays or gives
\* way to the first in the queue.
LEMMA TickImplements ==
  ASSUME NEW Q, NEW R, Moved(Q, R), TickMoves(Q, R)
  PROVE  [Queues!Clock]_(Queues!vars)
<1>1. PICK W : Woken(Q, W) /\ Rescheduled(kernel.cur, left_of_turn, W, kernel', R)
  BY DEF TickMoves
<1>2. /\ Ready = Q[readyqueue] /\ Blocked = Q[console_blocked]
      /\ Ready' = R[readyqueue] /\ Blocked' = R[console_blocked]
      /\ Ready \in Seq(Slots) /\ Blocked \in Seq(Slots) /\ kernel.cur \in Slots
  BY QueuesMove
<1> DEFINE q == W[readyqueue]
<1>3. q \in Seq(Slots)
  <2>1. CASE q = Ready
    BY <1>2, <2>1
  <2>2. CASE Blocked # <<>> /\ q = Append(Ready, Blocked[1])
    <3>1. Blocked[1] \in Slots
      BY <1>2, <2>2
    <3> QED
      BY <1>2, <2>2, <3>1
  <2> QED
    BY <1>1, <1>2, <2>1, <2>2 DEF Woken
<1>4. \/ q = Ready /\ Blocked' = Blocked
      \/ /\ Blocked # <<>>
         /\ q = Append(Ready, Head(Blocked))
         /\ Blocked' = Tail(Blocked)
  BY <1>1, <1>2 DEF Woken, Rescheduled
<1>5. \/ Ready' = q /\ kernel'.cur = kernel.cur
      \/ Queues!Preempt(q)
  <2>1. CASE R[readyqueue] = q /\ kernel'.cur = kernel.cur
    BY <1>2, <2>1
  <2>2. CASE /\ q # <<>>
             /\ Dispatched(IF kernel.cur = Idle /\ BootPolicy = "FCFS" THEN q
                           ELSE Append(q, kernel.cur), kernel', R)
    <3>1. CASE kernel.cur = Idle /\ BootPolicy = "FCFS"
      BY <1>3, <2>2, <3>1, DispatchImplements DEF Queues!Preempt
    <3>2. CASE ~ (kernel.cur = Idle /\ BootPolicy = "FCFS")
      <4>1. Append(q, kernel.cur) \in Seq(Slots)
        BY <1>2, <1>3
      <4> QED
        BY <2>2, <3>2, <4>1, DispatchImplements DEF Queues!Preempt
    <3> QED
      BY <3>1, <3>2
  <2> QED
    BY <1>1, <2>1, <2>2 DEF Rescheduled
<1>6. CASE q = Ready /\ Blocked' = Blocked
  BY <1>5, <1>6 DEF Queues!Clock, Queues!vars
<1>7. CASE /\ Blocked # <<>>
           /\ q = Append(Ready, Head(Blocked))
           /\ Blocked' = Tail(Blocked)
  BY <1>5, <1>7 DEF Queues!Clock
<1> QED
  BY <1>4, <1>6, <1>7

\* So does the rest of an interrupted clock handler, which wakes nobody.
LEMMA ResumeImplements ==
  ASSUME NEW Q, NEW R, Moved(Q, R), ResumeMoves(Q, R)
  PROVE  [Queues!Clock]_(Queues!vars)
<1>1. TickMoves(Q, R)
  BY DEF ResumeMoves, TickMoves, Woken
<1> QED
  BY <1>1, TickImplements

\* The child of a fork was nowhere before.
LEMMA ForkImplements ==
  ASSUME NEW Q, NEW R, Moved(Q, R), ForkMoves(Q, R), kernel.cur # Idle
  PROVE  Queues!Fork
<1>1. PICK c \in Slots \ kernel.procs : R[readyqueue] = Append(Q[readyqueue], c)
  BY DEF ForkMoves
<1>2. /\ Ready = Q[readyqueue] /\ Blocked = Q[console_blocked]
      /\ Ready' = R[readyqueue] /\ Blocked' = R[console_blocked]
  BY QueuesMove
<1>3. /\ Rings(kernel.heap, Q) /\ Idle \in kernel.procs /\ kernel.cur \in kernel.procs
      /\ In(Q[freequeue], c)
  BY DEF Moved, Settled, Core
<1>4. ~ In(Ready, c) /\ ~ In(Blocked, c)
  BY <1>2, <1>3, OneList, HeadsDiffer
<1>5. c \in Slots \ Queues!Alive
  BY <1>3, <1>4 DEF In, Queues!Alive, Queues!Queued
<1> QED
  BY <1>1, <1>2, <1>5 DEF ForkMoves, Queues!Fork

\* Exit, yield and read, by a process that is not idle.
LEMMA ExitImplements ==
  ASSUME NEW Q, NEW R, Moved(Q, R), ExitMoves(Q, R), kernel.cur # Idle
  PROVE  Queues!Exit
BY QueuesMove, DispatchImplements DEF ExitMoves, Queues!Exit

LEMMA YieldImplements ==
  ASSUME NEW Q, NEW R, Moved(Q, R), YieldMoves(Q, R), kernel.cur # Idle
  PROVE  Queues!Yield
<1>1. Append(Ready, kernel.cur) \in Seq(Slots)
  BY QueuesMove
<1> QED
  BY <1>1, QueuesMove, DispatchImplements DEF YieldMoves, Queues!Yield

LEMMA ReadImplements ==
  ASSUME NEW Q, NEW R, Moved(Q, R), ReadMoves(Q, R), kernel.cur # Idle
  PROVE  Queues!Block
BY QueuesMove, DispatchImplements DEF ReadMoves, Queues!Block

\* A panic moves nobody.
LEMMA PanicStutters ==
  ASSUME SchedInv, Yield, ~ Running'
  PROVE  UNCHANGED Queues!vars
<1>1. kernel'.heap = kernel.heap /\ kernel'.cur = kernel.cur
  BY DEF Yield, Become, Running, SchedInv, Good, Settled, Core, Kernel
<1> QED
  BY <1>1 DEF Queues!vars, Ready, Blocked

\* Every step implements a step of ProcQueues, or moves nobody.
LEMMA StepImplements ==
  ASSUME SteadyPolicy, SchedInv, [Next]_kernel
  PROVE  [Queues!Next]_(Queues!vars)
<1> USE DEF Queues!Next
<1>1. CASE Tick
  BY <1>1, TickGood, TickImplements
<1>2. CASE Resume
  BY <1>2, ResumeGood, ResumeImplements
<1>3. CASE Fork
  BY <1>3, ForkGood, ForkImplements DEF Fork, Calling
<1>4. CASE ForkAgain
  <2>1. PICK Q, R : Moved(Q, R) /\ ForkAgainMoves(Q, R)
    BY <1>4, ForkAgainGood
  <2> QED
    BY <2>1, QueuesMove DEF ForkAgainMoves, Queues!vars
<1>5. CASE Exit
  BY <1>5, ExitGood, ExitImplements DEF Exit, Calling
<1>6. CASE Yield
  <2>1. CASE Running'
    BY <1>6, <2>1, YieldGood, YieldImplements DEF Yield, Calling
  <2>2. CASE ~ Running'
    BY <1>6, <2>2, PanicStutters
  <2> QED
    BY <2>1, <2>2
<1>7. ASSUME NEW n \in ReadTicks, Read(n) PROVE Queues!Block
  BY <1>7, ReadGood, ReadImplements DEF Read, Calling
<1>8. \A p \in Policies : ~ SetSchedPolicy(p)
  BY DEF SetSchedPolicy, Calling, SteadyPolicy
<1>9. CASE UNCHANGED kernel
  BY <1>9 DEF Queues!vars, Ready, Blocked
<1> QED
  BY <1>1, <1>2, <1>3, <1>4, <1>5, <1>6, <1>7, <1>8, <1>9 DEF Next

\* With a steady policy the descriptors on their pointer-linked lists implement
\* the three queues of ProcQueues: boot leaves its initial state and every
\* handler does one of its steps or moves nobody.
THEOREM ListsImplementQueues ==
  ASSUME SteadyPolicy PROVE Spec => ImplementsQueues
<1>1. SchedInv /\ [Next]_kernel => SchedInv'
  BY SchedInvStep
<1>2. SchedInv /\ [Next]_kernel => [Queues!Next]_(Queues!vars)
  BY StepImplements
<1> QED
  BY <1>1, <1>2, InitGood, InitQueues, PTL DEF Spec, ImplementsQueues, Queues!Spec

-----------------------------------------------------------------------------
(***************************************************************************)
(* Bounded waiting under round robin                                       *)
(***************************************************************************)

\* e is q and behind it some who were not on q.
Longer(q, e) ==
  /\ e \in Seq(Slots) /\ Len(e) >= Len(q)
  /\ \A i \in 1..Len(q) : e[i] = q[i]
  /\ \A j \in (Len(q) + 1)..Len(e) : ~ In(q, e[j])

\* Who was on q comes at the same place, or one place ahead of it.
SamePlaces(q, r) ==
  \A i \in 1..Len(q), j \in 1..Len(r) : q[i] = r[j] => j = i
OneAhead(q, r) ==
  \A i \in 1..Len(q), j \in 1..Len(r) : q[i] = r[j] => j = i - 1

Distinct(q) == \A i, j \in 1..Len(q) : q[i] = q[j] => i = j

LEMMA LongerAppend ==
  ASSUME NEW q \in Seq(Slots), NEW e, Longer(q, e), NEW x \in Slots, ~ In(q, x)
  PROVE  Longer(q, Append(e, x))
<1>1. e \in Seq(Slots) /\ Len(q) \in Nat /\ Len(e) \in Nat /\ Len(e) >= Len(q)
  BY DEF Longer
<1>2. /\ Append(e, x) \in Seq(Slots) /\ Len(Append(e, x)) = Len(e) + 1
      /\ Append(e, x)[Len(e) + 1] = x
      /\ \A i \in 1..Len(e) : Append(e, x)[i] = e[i]
  BY <1>1
<1>3. \A j \in (Len(q) + 1)..(Len(e) + 1) :
        j = Len(e) + 1 \/ (j \in (Len(q) + 1)..Len(e) /\ j \in 1..Len(e))
  <2> SUFFICES ASSUME NEW j \in (Len(q) + 1)..(Len(e) + 1), j # Len(e) + 1
               PROVE  j \in (Len(q) + 1)..Len(e) /\ j \in 1..Len(e)
    OBVIOUS
  <2>1. j \in Int /\ Len(q) + 1 <= j /\ j <= Len(e)
    BY <1>1
  <2> QED
    BY <1>1, <2>1
<1>4. 1..Len(q) \subseteq 1..Len(e)
  BY <1>1
<1> QED
  BY <1>1, <1>2, <1>3, <1>4 DEF Longer

LEMMA LongerSelf ==
  ASSUME NEW q \in Seq(Slots) PROVE Longer(q, q)
<1>1. Len(q) \in Nat /\ (Len(q) + 1)..Len(q) = {}
  OBVIOUS
<1> QED
  BY <1>1 DEF Longer

\* Newcomers leave the others where they are.
LEMMA LongerKeepsPlaces ==
  ASSUME NEW q \in Seq(Slots), Distinct(q), NEW e, Longer(q, e)
  PROVE  SamePlaces(q, e)
<1> SUFFICES ASSUME NEW i \in 1..Len(q), NEW j \in 1..Len(e), q[i] = e[j]
             PROVE  j = i
  BY DEF SamePlaces
<1>1. Len(q) \in Nat /\ Len(e) \in Nat
  BY DEF Longer
<1>2. j \in 1..Len(q)
  BY <1>1 DEF Longer, In
<1> QED
  BY <1>2 DEF Longer, Distinct

\* When the first one leaves, the others come one place ahead.
LEMMA TailBringsForward ==
  ASSUME NEW q \in Seq(Slots), Distinct(q), NEW e, Longer(q, e), e # <<>>
  PROVE  OneAhead(q, Tail(e))
<1> SUFFICES ASSUME NEW i \in 1..Len(q), NEW j \in 1..Len(Tail(e)), q[i] = Tail(e)[j]
             PROVE  j = i - 1
  BY DEF OneAhead
<1>1. e \in Seq(Slots)
  BY DEF Longer
<1>2. Tail(e)[j] = e[j + 1] /\ j + 1 \in 1..Len(e) /\ j \in Int /\ i \in Int
  BY <1>1
<1>3. j + 1 = i
  BY <1>2, LongerKeepsPlaces DEF SamePlaces
<1> QED
  BY <1>2, <1>3

\* The number of processes ahead of one on the queue.
LEMMA AheadOf ==
  ASSUME NEW q \in Seq(Slots), Distinct(q), NEW i \in 1..Len(q)
  PROVE  (CHOOSE n \in 0..(Len(q) - 1) : q[n + 1] = q[i]) = i - 1
<1>1. i - 1 \in 0..(Len(q) - 1) /\ (i - 1) + 1 = i
  OBVIOUS
<1>2. \A n \in 0..(Len(q) - 1) : n + 1 \in 1..Len(q) /\ n = (n + 1) - 1
  OBVIOUS
<1>3. \A n \in 0..(Len(q) - 1) : q[n + 1] = q[i] => n = i - 1
  BY <1>2 DEF Distinct
<1> DEFINE n == CHOOSE m \in 0..(Len(q) - 1) : q[m + 1] = q[i]
<1>4. n \in 0..(Len(q) - 1) /\ q[n + 1] = q[i]
  BY <1>1
<1> QED
  BY <1>3, <1>4

\* The bound by the place on the queue.
LEMMA BoundByPlace ==
  ASSUME NEW Q, Settled(kernel, Q), NEW i \in 1..Len(Ready), NEW t, t = Ready[i]
  PROVE  WaitBound(t) = kernel.rq + Quantum * (i - 1)
<1>1. Ready \in Seq(Slots) /\ Distinct(Ready)
  <2>1. Ready = Q[readyqueue] /\ Ready \in Seq(Slots)
    BY QueuesOfKernel
  <2>2. Rings(kernel.heap, Q)
    BY DEF Settled, Core
  <2>3. Distinct(Q[readyqueue])
    BY <2>2, HeadsDiffer DEF Distinct, Rings
  <2> QED
    BY <2>1, <2>3
<1>2. (CHOOSE n \in 0..(Len(Ready) - 1) : Ready[n + 1] = t) = i - 1
  BY <1>1, AheadOf
<1> QED
  BY <1>2 DEF WaitBound

LEMMA BoundByNextPlace ==
  ASSUME NEW Q, Settled(kernel', Q), NEW i \in 1..Len(Ready'), NEW t, t = Ready'[i]
  PROVE  WaitBound(t)' = kernel'.rq + Quantum * (i - 1)
<1>1. Ready' \in Seq(Slots) /\ Distinct(Ready')
  <2>1. Ready' = Q[readyqueue] /\ Ready' \in Seq(Slots)
    BY QueuesOfNext
  <2>2. Rings(kernel'.heap, Q)
    BY DEF Settled, Core
  <2>3. Distinct(Q[readyqueue])
    BY <2>2, HeadsDiffer DEF Distinct, Rings
  <2> QED
    BY <2>1, <2>3
<1>2. (CHOOSE n \in 0..(Len(Ready') - 1) : Ready'[n + 1] = t) = i - 1
  BY <1>1, AheadOf
<1>3. WaitBound(t)' = kernel'.rq +
        Quantum * (CHOOSE n \in 0..(Len(Ready') - 1) : Ready'[n + 1] = t)
  BY DEF WaitBound
<1> QED
  BY <1>2, <1>3

\* Nobody was ready, or who stays ready keeps its place while the turn goes on,
\* or comes one place ahead and a new turn begins.
NoFurtherBack ==
  \/ Ready = <<>>
  \/ SamePlaces(Ready, Ready') /\ kernel'.rq <= kernel.rq
  \/ OneAhead(Ready, Ready') /\ kernel'.rq = Quantum

\* The same when a tick counts.
Closer ==
  \/ Ready = <<>>
  \/ SamePlaces(Ready, Ready') /\ kernel'.rq < kernel.rq
  \/ OneAhead(Ready, Ready') /\ kernel'.rq = Quantum

\* So the bound does not grow.
LEMMA BoundShrinks ==
  ASSUME SchedInv, NEW Q, NEW R, Moved(Q, R), kernel'.rq \in Int,
         NEW t, t \in ToSet(Ready), t \in ToSet(Ready')
  PROVE  /\ NoFurtherBack => WaitBound(t)' <= WaitBound(t)
         /\ Closer => /\ WaitBound(t)' < WaitBound(t)
                      /\ WaitBound(t)' <= WaitBound(t)
<1>1. Ready \in Seq(Slots) /\ Ready' \in Seq(Slots) /\ Ready # <<>>
  <2>1. Ready \in Seq(Slots) /\ Ready' \in Seq(Slots)
    BY QueuesOfKernel, QueuesOfNext DEF Moved
  <2> QED
    BY <2>1 DEF ToSet
<1>2. PICK i \in 1..Len(Ready) : t = Ready[i]
  BY <1>1 DEF ToSet
<1>3. PICK j \in 1..Len(Ready') : t = Ready'[j]
  BY <1>1 DEF ToSet
<1>4. WaitBound(t) = kernel.rq + Quantum * (i - 1)
  BY <1>2, BoundByPlace DEF Moved
<1>5. WaitBound(t)' = kernel'.rq + Quantum * (j - 1)
  BY <1>3, BoundByNextPlace DEF Moved
<1>6. /\ SamePlaces(Ready, Ready') => j = i
      /\ OneAhead(Ready, Ready') => j = i - 1
  BY <1>2, <1>3 DEF SamePlaces, OneAhead
<1>7. kernel.rq \in 1..Quantum /\ Quantum \in Nat /\ i \in Int /\ j \in Int
  BY SizeAssumption DEF SchedInv, Good
<1>8. Quantum * (i - 1) = Quantum * ((i - 1) - 1) + Quantum
      /\ Quantum * (i - 1) \in Int /\ Quantum * ((i - 1) - 1) \in Int
  BY <1>7
<1> HIDE DEF NoFurtherBack, Closer
<1>9. CASE j = i
  BY <1>1, <1>4, <1>5, <1>6, <1>7, <1>8, <1>9 DEF NoFurtherBack, Closer
<1>10. CASE j = i - 1
  BY <1>1, <1>4, <1>5, <1>6, <1>7, <1>8, <1>10 DEF NoFurtherBack, Closer
<1> QED
  BY <1>1, <1>6, <1>9, <1>10 DEF NoFurtherBack, Closer

\* What is known of a handler's lists when the policy is round robin.
LEMMA RoundRobinLists ==
  ASSUME NEW Q, NEW R, Moved(Q, R), kernel.policy = "RR"
  PROVE  /\ BootPolicy = "RR" /\ kernel'.rq \in Int
         /\ Distinct(Ready)
         /\ ~ In(Ready, kernel.cur)
         /\ \A i \in 1..Len(Blocked) : Blocked[i] \in Slots /\ ~ In(Ready, Blocked[i])
<1>1. Rings(kernel.heap, Q) /\ ~ OnList(Q, kernel.cur) /\ kernel.policy = BootPolicy
  BY DEF Moved, Settled, Core
<1>2. Ready = Q[readyqueue] /\ Blocked = Q[console_blocked] /\ Blocked \in Seq(Slots)
  BY QueuesMove
<1>3. Distinct(Ready)
  <2>1. Distinct(Q[readyqueue])
    BY <1>1, HeadsDiffer DEF Distinct, Rings
  <2> QED
    BY <1>2, <2>1
<1>4. ~ In(Ready, kernel.cur)
  BY <1>1, <1>2, HeadsDiffer DEF OnList
<1>5. ASSUME NEW i \in 1..Len(Blocked)
      PROVE  Blocked[i] \in Slots /\ ~ In(Ready, Blocked[i])
  <2>1. Blocked[i] \in Slots /\ In(Blocked, Blocked[i])
    BY <1>2 DEF In
  <2> QED
    BY <1>1, <1>2, <2>1, OneList, HeadsDiffer
<1>6. kernel'.rq \in Int
  <2>1. kernel' \in Kernel
    BY DEF Moved, Settled, Core
  <2> QED
    BY <2>1 DEF Kernel
<1> QED
  BY <1>1, <1>3, <1>4, <1>5, <1>6

\* The first of a queue that is longer than Ready gets the CPU.
LEMMA DispatchComesCloser ==
  ASSUME NEW Q, NEW R, Moved(Q, R), kernel.policy = "RR",
         NEW e, Longer(Ready, e), Dispatched(e, kernel', R)
  PROVE  OneAhead(Ready, Ready') /\ kernel'.rq = Quantum
<1>1. Ready \in Seq(Slots) /\ Ready' = R[readyqueue]
  BY QueuesMove
<1>2. BootPolicy = "RR" /\ Distinct(Ready)
  BY RoundRobinLists
<1>3. CASE e = <<>>
  <2>1. Len(Ready') = 0
    BY <1>1, <1>3 DEF Dispatched
  <2> QED
    BY <1>2, <2>1 DEF Dispatched, OneAhead
<1>4. CASE e # <<>>
  BY <1>1, <1>2, <1>4, TailBringsForward DEF Dispatched
<1> QED
  BY <1>3, <1>4

\* A tick brings everybody closer.
LEMMA TickComesCloser ==
  ASSUME NEW Q, NEW R, Moved(Q, R), TickMoves(Q, R), kernel.policy = "RR",
         kernel.rq \in Int
  PROVE  Closer
<1>1. PICK W : Woken(Q, W) /\ Rescheduled(kernel.cur, left_of_turn, W, kernel', R)
  BY DEF TickMoves
<1>2. /\ Ready = Q[readyqueue] /\ Blocked = Q[console_blocked]
      /\ Ready' = R[readyqueue]
      /\ Ready \in Seq(Slots) /\ Blocked \in Seq(Slots) /\ kernel.cur \in Slots
  BY QueuesMove
<1>3. /\ BootPolicy = "RR" /\ Distinct(Ready)
      /\ ~ In(Ready, kernel.cur)
      /\ \A i \in 1..Len(Blocked) : Blocked[i] \in Slots /\ ~ In(Ready, Blocked[i])
  BY RoundRobinLists
<1>4. left_of_turn = kernel.rq - 1
  BY <1>3 DEF left_of_turn
<1> DEFINE q == W[readyqueue]
<1>5. Longer(Ready, q)
  <2>1. CASE q = Ready
    BY <1>2, <2>1, LongerSelf
  <2>2. CASE Blocked # <<>> /\ q = Append(Ready, Blocked[1])
    <3>1. 1 \in 1..Len(Blocked)
      BY <1>2, <2>2
    <3> QED
      BY <1>2, <1>3, <2>2, <3>1, LongerSelf, LongerAppend
  <2> QED
    BY <1>1, <1>2, <2>1, <2>2 DEF Woken
<1>6. CASE R[readyqueue] = q /\ kernel'.rq = left_of_turn
  BY <1>2, <1>3, <1>4, <1>5, <1>6, LongerKeepsPlaces DEF Closer
<1>7. CASE R[readyqueue] = q /\ q = <<>>
  <2>1. Ready = <<>>
    BY <1>2, <1>5, <1>7 DEF Longer
  <2> QED
    BY <2>1 DEF Closer
<1>8. CASE Dispatched(Append(q, kernel.cur), kernel', R)
  <2>1. Longer(Ready, Append(q, kernel.cur))
    BY <1>2, <1>3, <1>5, LongerAppend
  <2> QED
    BY <1>8, <2>1, DispatchComesCloser DEF Closer
<1> QED
  BY <1>1, <1>3, <1>6, <1>7, <1>8 DEF Rescheduled

\* No other step sends anybody back.
LEMMA NobodySentBack ==
  ASSUME SteadyPolicy, SchedInv, Next, Running', kernel.policy = "RR"
  PROVE  \E Q, R : Moved(Q, R) /\ (Closer \/ NoFurtherBack)
<1>1. kernel.rq \in Int
  BY DEF SchedInv, Good
<1>2. ASSUME NEW Q, NEW R, Moved(Q, R)
      PROVE  /\ Longer(Ready, Ready)
             /\ Longer(Ready, Append(Ready, kernel.cur))
             /\ Distinct(Ready) /\ Ready \in Seq(Slots)
  <2>1. Ready \in Seq(Slots) /\ kernel.cur \in Slots /\ ~ In(Ready, kernel.cur)
        /\ Distinct(Ready)
    BY <1>2, QueuesMove, RoundRobinLists
  <2> QED
    BY <2>1, LongerSelf, LongerAppend
<1>3. CASE Tick
  BY <1>1, <1>3, TickGood, TickComesCloser
<1>4. CASE Resume
  <2>1. PICK Q, R : Moved(Q, R) /\ ResumeMoves(Q, R)
    BY <1>4, ResumeGood
  <2>2. TickMoves(Q, R)
    BY <2>1 DEF ResumeMoves, TickMoves, Woken
  <2> QED
    BY <1>1, <2>1, <2>2, TickComesCloser
<1>5. CASE Fork
  <2>1. PICK Q, R : Moved(Q, R) /\ ForkMoves(Q, R)
    BY <1>5, ForkGood
  <2>2. PICK c \in Slots \ kernel.procs : Ready' = Append(Ready, c)
    BY <2>1, QueuesMove DEF ForkMoves
  <2>3. ~ In(Ready, c)
    <3>1. Rings(kernel.heap, Q) /\ In(Q[freequeue], c)
      BY <2>1 DEF Moved, Settled, Core
    <3> QED
      BY <2>1, <3>1, QueuesMove, OneList, HeadsDiffer
  <2>4. SamePlaces(Ready, Ready')
    BY <1>2, <2>1, <2>2, <2>3, LongerAppend, LongerKeepsPlaces
  <2> QED
    BY <1>1, <2>1, <2>4 DEF ForkMoves, NoFurtherBack
<1>6. CASE ForkAgain
  <2>1. PICK Q, R : Moved(Q, R) /\ ForkAgainMoves(Q, R)
    BY <1>6, ForkAgainGood
  <2>2. SamePlaces(Ready, Ready')
    BY <1>2, <2>1, QueuesMove, LongerKeepsPlaces DEF ForkAgainMoves
  <2> QED
    BY <1>1, <2>1, <2>2 DEF ForkAgainMoves, NoFurtherBack
<1>7. CASE Exit
  <2>1. PICK Q, R : Moved(Q, R) /\ ExitMoves(Q, R)
    BY <1>7, ExitGood
  <2>2. Dispatched(Ready, kernel', R)
    BY <2>1, QueuesMove DEF ExitMoves
  <2> QED
    BY <1>2, <2>1, <2>2, DispatchComesCloser DEF NoFurtherBack
<1>8. CASE Yield
  <2>1. PICK Q, R : Moved(Q, R) /\ YieldMoves(Q, R)
    BY <1>8, YieldGood
  <2>2. Dispatched(Append(Ready, kernel.cur), kernel', R)
    BY <2>1, QueuesMove DEF YieldMoves
  <2> QED
    BY <1>2, <2>1, <2>2, DispatchComesCloser DEF NoFurtherBack
<1>9. ASSUME NEW n \in ReadTicks, Read(n)
      PROVE  \E Q, R : Moved(Q, R) /\ NoFurtherBack
  <2>1. PICK Q, R : Moved(Q, R) /\ ReadMoves(Q, R)
    BY <1>9, ReadGood
  <2>2. Dispatched(Ready, kernel', R)
    BY <2>1, QueuesMove DEF ReadMoves
  <2> QED
    BY <1>2, <2>1, <2>2, DispatchComesCloser DEF NoFurtherBack
<1>10. \A p \in Policies : ~ SetSchedPolicy(p)
  BY DEF SetSchedPolicy, Calling, SteadyPolicy
<1> QED
  BY <1>3, <1>4, <1>5, <1>6, <1>7, <1>8, <1>9, <1>10 DEF Next

\* Under a steady round robin a ready process waits at most for the rest of the
\* current turn and a full one for each process ahead of it: no fork, exit, read
\* or yield of others makes that longer, and every tick makes it shorter.
THEOREM WaitIsBounded ==
  ASSUME SteadyPolicy PROVE Spec => WaitShrinks
<1>1. SchedInv /\ [Next]_kernel => SchedInv'
  BY SchedInvStep
<1>2. ASSUME SchedInv, Next, kernel.policy = "RR", kernel'.panic = "no",
             NEW t \in ToSet(Ready) \cap ToSet(Ready)'
      PROVE  /\ WaitBound(t)' <= WaitBound(t)
             /\ Tick => WaitBound(t)' < WaitBound(t)
  <2>1. t \in ToSet(Ready) /\ t \in ToSet(Ready')
    OBVIOUS
  <2>2. kernel.rq \in Int /\ Running'
    BY <1>2 DEF SchedInv, Good, Running
  <2>3. CASE Tick
    <3>1. PICK Q, R : Moved(Q, R) /\ TickMoves(Q, R)
      BY <1>2, <2>3, TickGood
    <3>2. Closer
      BY <1>2, <2>2, <3>1, TickComesCloser
    <3> QED
      BY <1>2, <2>1, <3>1, <3>2, RoundRobinLists, BoundShrinks
  <2>4. CASE ~ Tick
    <3>1. PICK Q, R : Moved(Q, R) /\ (Closer \/ NoFurtherBack)
      BY <1>2, <2>2, NobodySentBack
    <3> QED
      BY <1>2, <2>1, <2>4, <3>1, RoundRobinLists, BoundShrinks
  <2> QED
    BY <2>3, <2>4
<1>3. ASSUME SchedInv, [Next]_kernel
      PROVE  [kernel.policy = "RR" /\ kernel'.panic = "no" =>
                \A t \in ToSet(Ready) \cap ToSet(Ready)' :
                  /\ WaitBound(t)' <= WaitBound(t)
                  /\ Tick => WaitBound(t)' < WaitBound(t)]_kernel
  BY <1>2, <1>3
<1> QED
  BY <1>1, <1>3, InitGood, PTL DEF Spec, WaitShrinks

-----------------------------------------------------------------------------
(***************************************************************************)
(* Part four: scheduler and memory together                                *)
(***************************************************************************)

\* The theorems about the memory.
MP == INSTANCE ProcMemoryProofs WITH Word <- {0}, Blank <- 0

-----------------------------------------------------------------------------
(***************************************************************************)
(* The handlers that move processes change nothing else the memory shares  *)
(***************************************************************************)
Fields == {"heap", "procs", "state", "saved", "page0", "cur", "rq", "policy",
           "reads", "frames", "pc", "panic"}

Shaped(k) == DOMAIN k = Fields

\* r agrees with k on what the memory knows, too, but who runs.
Keeps(k, r) ==
  /\ Shaped(r)
  /\ r.procs = k.procs /\ r.frames = k.frames /\ r.page0 = k.page0

\* And on the pending requests, which only the console and sys_read touch.
Spares(k, r) == Keeps(k, r) /\ r.reads = k.reads

LEMMA ListsSpare ==
  ASSUME NEW k, Shaped(k), NEW t, NEW hd
  PROVE  Spares(k, AddTail(k, t, hd)) /\ Spares(k, Del(k, t))
BY DEF Shaped, Fields, Keeps, Spares, AddTail, Del

LEMMA UpdateSpares ==
  ASSUME NEW k, Shaped(k), NEW t, NEW hd
  PROVE  Spares(k, update_process_state_rr(k, t, hd)) /\ Spares(k, update_process_state(k, t, hd))
<1>1. ASSUME NEW j, Spares(k, j) PROVE Spares(k, AddTail(j, t, hd)) /\ Spares(k, Del(j, t))
  BY <1>1, ListsSpare DEF Spares, Keeps
<1>2. Spares(k, k)
  BY DEF Spares, Keeps
<1>3. Spares(k, update_process_state_rr(k, t, hd))
  <2> DEFINE k1 == IF k.state[t] # "RUN" THEN Del(k, t) ELSE k
             k2 == AddTail(k1, t, hd)
  <2>1. Spares(k, k1)
    BY <1>1, <1>2
  <2>2. Spares(k, k2)
    BY <1>1, <2>1
  <2> HIDE DEF k2
  <2>3. Spares(k, [k2 EXCEPT !.state[t] = IF hd = readyqueue THEN "READY" ELSE "BLOCKED"])
    BY <2>2 DEF Spares, Keeps, Shaped, Fields
  <2> QED
    BY <2>3 DEF update_process_state_rr, k2
<1>4. Spares(k, update_process_state_fcfs(k, t, hd))
  BY <1>1, <1>2 DEF update_process_state_fcfs
<1> QED
  BY <1>3, <1>4 DEF update_process_state

LEMMA NextSpares ==
  ASSUME NEW k, Shaped(k), NEW place
  PROVE  Spares(k, sched_next_rr(k, place)) /\ Spares(k, sched_next(k, place))
<1>1. ASSUME NEW j, Spares(k, j), NEW t PROVE Spares(k, task_switch(j, t, place))
  BY <1>1 DEF Spares, Keeps, Shaped, Fields, task_switch
<1>2. Spares(k, take_ready(k)) /\ Spares(k, [k EXCEPT !.panic = "wild"])
  BY ListsSpare DEF take_ready, Spares, Keeps, Shaped, Fields
<1>3. \A t : Spares(k, [take_ready(k) EXCEPT !.state[t] = "RUN", !.rq = Quantum])
  BY <1>2 DEF Spares, Keeps, Shaped, Fields
<1>4. Spares(k, sched_next_rr(k, place))
  BY <1>1, <1>2, <1>3 DEF sched_next_rr
<1>5. Spares(k, sched_next_fcfs(k, place))
  BY <1>1, <1>2 DEF sched_next_fcfs
<1> QED
  BY <1>4, <1>5 DEF sched_next

LEMMA RescheduleSpares ==
  ASSUME NEW k, Shaped(k), NEW place
  PROVE  Spares(k, reschedule(k, place))
<1>1. Spares(k, renew_quantum(k))
  BY DEF renew_quantum, Spares, Keeps, Shaped, Fields
<1>2. Spares(k, update_process_state(k, k.cur, readyqueue))
  BY UpdateSpares
<1>3. Spares(k, sched_next(update_process_state(k, k.cur, readyqueue), place))
  BY <1>2, NextSpares DEF Spares, Keeps
<1> QED
  BY <1>1, <1>3 DEF reschedule

LEMMA ScheduleSpares ==
  ASSUME NEW k, Shaped(k)
  PROVE  Spares(k, schedule(k))
<1>1. Spares(k, update_sched_data(k))
  BY DEF update_sched_data, Spares, Keeps, Shaped, Fields
<1> QED
  BY <1>1, RescheduleSpares DEF schedule, Spares, Keeps

LEMMA UnblockSpares ==
  ASSUME NEW k, Shaped(k), NEW t
  PROVE  Spares(k, unblock_process(k, t))
<1>1. Spares(k, update_process_state(k, t, readyqueue))
  BY UpdateSpares
<1> QED
  BY <1>1, RescheduleSpares DEF unblock_process, Spares, Keeps

LEMMA ConsoleKeeps ==
  ASSUME NEW k, Shaped(k)
  PROVE  Keeps(k, zeos_update_read_console_emul(k))
<1>1. ASSUME NEW x PROVE Keeps(k, [k EXCEPT !.reads = x])
  BY DEF Keeps, Shaped, Fields
<1>2. ASSUME NEW j, Keeps(k, j), NEW t PROVE Keeps(k, unblock_process(j, t))
  BY <1>2, UnblockSpares DEF Spares, Keeps
<1>3. Keeps(k, k) /\ Keeps(k, [k EXCEPT !.reads = Tail(@)])
  BY <1>1 DEF Keeps
<1>4. \A n : Keeps(k, [k EXCEPT !.reads[1].left = n])
  BY DEF Keeps, Shaped, Fields
<1> QED
  BY <1>2, <1>3, <1>4 DEF zeos_update_read_console_emul

\* A handler that panics moves nobody.
LEMMA BecomeKeeps ==
  ASSUME Shaped(kernel), NEW k, Keeps(kernel, k), Become(k)
  PROVE  /\ Keeps(kernel, kernel')
         /\ kernel'.panic # "no" => kernel'.cur = kernel.cur
BY DEF Become, Keeps, Shaped, Fields

\* The handlers that only move processes.
LEMMA HandlersKeep ==
  ASSUME Shaped(kernel),
         \/ Tick \/ Resume \/ Yield
         \/ \E n \in ReadTicks : Read(n)
         \/ \E p \in Policies : SetSchedPolicy(p)
  PROVE  /\ Keeps(kernel, kernel')
         /\ kernel'.panic # "no" => kernel'.cur = kernel.cur
<1>1. \A x : /\ Keeps(kernel, [kernel EXCEPT !.reads = x])
             /\ Keeps(kernel, [kernel EXCEPT !.pc = x])
             /\ Keeps(kernel, [kernel EXCEPT !.policy = x])
  BY DEF Keeps, Shaped, Fields
<1>2. ASSUME NEW k, Keeps(kernel, k), NEW t, NEW hd, NEW place
      PROVE  /\ Keeps(kernel, schedule(k))
             /\ Keeps(kernel, sched_next(update_process_state(k, t, hd), place))
             /\ Keeps(kernel, sched_next_rr(update_process_state_rr(k, t, hd), place))
  <2>1. /\ Keeps(kernel, update_process_state(k, t, hd))
        /\ Keeps(kernel, update_process_state_rr(k, t, hd))
    BY <1>2, UpdateSpares DEF Spares, Keeps
  <2> QED
    BY <1>2, <2>1, ScheduleSpares, NextSpares DEF Spares, Keeps
<1>3. Keeps(kernel, kernel)
  BY DEF Keeps
<1>4. \E k : Keeps(kernel, k) /\ Become(k)
  <2>1. CASE Tick
    <3>1. Keeps(kernel, zeos_update_read_console_emul(kernel))
      BY ConsoleKeeps
    <3> QED
      BY <1>2, <2>1, <3>1 DEF Tick
  <2>2. CASE Resume
    BY <1>1, <1>2, <2>2 DEF Resume
  <2>3. CASE Yield
    BY <1>2, <1>3, <2>3 DEF Yield
  <2>4. CASE \E n \in ReadTicks : Read(n)
    BY <1>1, <1>2, <2>4 DEF Read, block_process
  <2>5. CASE \E p \in Policies : SetSchedPolicy(p)
    BY <1>1, <2>5 DEF SetSchedPolicy
  <2> QED
    BY <2>1, <2>2, <2>3, <2>4, <2>5
<1> QED
  BY <1>4, BecomeKeeps

\* A fork takes frames for one process more, a failed one nothing.
LEMMA ForkKeeps ==
  ASSUME Shaped(kernel), kernel.page0 \in [Slots -> BOOLEAN], Fork, kernel'.panic = "no"
  PROVE  LET c == ListFirst(kernel.heap, freequeue)
         IN  /\ c \in Slots
             /\ Shaped(kernel') /\ kernel'.cur = kernel.cur
             /\ kernel'.procs = kernel.procs \cup {c}
             /\ kernel'.frames = kernel.frames - NUM_PAG_DATA
             /\ kernel'.reads = kernel.reads
             /\ kernel'.page0 = [kernel.page0 EXCEPT ![c] = TRUE]
             /\ kernel.frames >= NUM_PAG_DATA
<1> DEFINE c == ListFirst(kernel.heap, freequeue)
           k == AddTail(CopiedSlot(kernel, c), c, readyqueue)
           r == [k EXCEPT !.procs = @ \cup {c}, !.state[c] = "READY", !.saved[c] = "fork",
                          !.page0[c] = TRUE, !.frames = @ - NUM_PAG_DATA]
<1>1. /\ kernel.frames >= NUM_PAG_DATA
      /\ IF c \notin Slots THEN Become([kernel EXCEPT !.panic = "wild"]) ELSE Become(r)
  BY DEF Fork
<1>2. c \in Slots
  BY <1>1 DEF Become, Shaped, Fields
<1>3. kernel' = r
  <2>1. Become(r)
    BY <1>1, <1>2
  <2> HIDE DEF r
  <2> QED
    BY <2>1 DEF Become, Shaped, Fields
<1>4. /\ Shaped(k) /\ k.cur = kernel.cur /\ k.procs = kernel.procs
      /\ k.frames = kernel.frames /\ k.page0 = kernel.page0 /\ k.reads = kernel.reads
  BY DEF Shaped, Fields, AddTail, CopiedSlot, Del
<1> HIDE DEF k, c
<1>5. /\ Shaped(r) /\ r.cur = k.cur /\ r.procs = k.procs \cup {c}
      /\ r.frames = k.frames - NUM_PAG_DATA /\ r.page0 = [k.page0 EXCEPT ![c] = TRUE]
      /\ r.reads = k.reads
  BY <1>4 DEF Shaped, Fields
<1> QED
  BY <1>1, <1>2, <1>3, <1>4, <1>5 DEF c

LEMMA ForkAgainKeeps ==
  ASSUME Shaped(kernel), ForkAgain
  PROVE  /\ Spares(kernel, kernel') /\ kernel'.cur = kernel.cur
         /\ kernel.frames < NUM_PAG_DATA
         /\ kernel'.panic = "no" => ListFirst(kernel.heap, freequeue) \in Slots
<1> DEFINE c == ListFirst(kernel.heap, freequeue)
<1>1. /\ Spares(kernel, CopiedSlot(kernel, c))
      /\ CopiedSlot(kernel, c).cur = kernel.cur
  BY DEF CopiedSlot, Del, Spares, Keeps, Shaped, Fields
<1>2. /\ Spares(kernel, AddTail(CopiedSlot(kernel, c), c, freequeue))
      /\ AddTail(CopiedSlot(kernel, c), c, freequeue).cur = kernel.cur
  BY <1>1 DEF AddTail, Spares, Keeps, Shaped, Fields
<1>3. /\ Spares(kernel, [kernel EXCEPT !.panic = "wild"])
      /\ [kernel EXCEPT !.panic = "wild"].cur = kernel.cur
  BY DEF Spares, Keeps, Shaped, Fields
<1>4. \E k : Spares(kernel, k) /\ k.cur = kernel.cur /\ Become(k)
  BY <1>2, <1>3 DEF ForkAgain
<1>5. /\ kernel.frames < NUM_PAG_DATA
      /\ kernel'.panic = "no" => c \in Slots
  BY DEF ForkAgain, Become, Shaped, Fields
<1> QED
  BY <1>4, <1>5 DEF Become, Spares, Keeps, Shaped, Fields

\* An exit leaves the frames of one process.
LEMMA ExitKeeps ==
  ASSUME Shaped(kernel), Exit, kernel'.panic = "no"
  PROVE  /\ Shaped(kernel')
         /\ kernel'.procs = kernel.procs \ {kernel.cur}
         /\ kernel'.frames = kernel.frames + NUM_PAG_DATA
         /\ kernel'.page0 = kernel.page0 /\ kernel'.reads = kernel.reads
<1> DEFINE k == AddTail(kernel, kernel.cur, freequeue)
           j == [k EXCEPT !.frames = @ + NUM_PAG_DATA, !.procs = @ \ {kernel.cur}]
<1>1. /\ Shaped(j) /\ j.procs = kernel.procs \ {kernel.cur}
      /\ j.frames = kernel.frames + NUM_PAG_DATA /\ j.page0 = kernel.page0
      /\ j.reads = kernel.reads
  BY DEF AddTail, Shaped, Fields
<1>2. Become(sched_next_rr(j, "exit"))
  BY DEF Exit
<1> HIDE DEF j
<1>3. Spares(j, sched_next_rr(j, "exit"))
  BY <1>1, NextSpares
<1>4. kernel' = sched_next_rr(j, "exit")
  BY <1>2 DEF Become, Shaped, Fields
<1> QED
  BY <1>1, <1>3, <1>4 DEF Spares, Keeps

\* Whoever panics has changed nothing.
LEMMA PanicKeeps ==
  ASSUME Shaped(kernel), Fork \/ Exit, kernel'.panic # "no"
  PROVE  Keeps(kernel, kernel') /\ kernel'.cur = kernel.cur
<1>1. \E k : Become(k)
  BY DEF Fork, Exit
<1> QED
  BY <1>1 DEF Become, Keeps, Shaped, Fields

-----------------------------------------------------------------------------
(***************************************************************************)
(* The memory of Machine is the one the theorems about it speak of         *)
(***************************************************************************)
LEMMA MemorySlots == MP!SlotAssumption
BY SlotAssumption DEF MP!SlotAssumption

LEMMA MemoryPages == MP!PageAssumption
BY PagesAssumption
   DEF Mem!PageAssumption, Mem!DataPages, Mem!TempPages, Mem!Page, Mem!KernelPages,
       Mem!PAG_LOG_INIT_DATA, Mem!PAG_LOG_INIT_CODE,
       MP!PageAssumption, MP!DataPages, MP!TempPages, MP!Page, MP!KernelPages,
       MP!PAG_LOG_INIT_DATA, MP!PAG_LOG_INIT_CODE

LEMMA SamePages ==
  /\ Mem!DataPages = MP!DataPages /\ Mem!TempPages = MP!TempPages
  /\ Mem!CodePages = MP!CodePages /\ Mem!KernelPages = MP!KernelPages
  /\ Mem!Page = MP!Page /\ Mem!Frame = MP!Frame /\ Mem!Candidates = MP!Candidates
  /\ Mem!PAG_LOG_INIT_DATA = MP!PAG_LOG_INIT_DATA
  /\ Mem!NoEntry = MP!NoEntry /\ Mem!Flushed = MP!Flushed
  /\ Mem!Slots = MP!Slots /\ Slots = MP!Slots /\ Mem!Idle = MP!Idle /\ Idle = MP!Idle
BY DEF Mem!DataPages, Mem!TempPages, Mem!CodePages, Mem!KernelPages, Mem!Page, Mem!Frame,
       Mem!Candidates, Mem!PAG_LOG_INIT_DATA, Mem!PAG_LOG_INIT_CODE, Mem!NoEntry,
       Mem!Flushed, Mem!NotCached, Mem!Slots, Mem!Idle,
       MP!DataPages, MP!TempPages, MP!CodePages, MP!KernelPages, MP!Page, MP!Frame,
       MP!Candidates, MP!PAG_LOG_INIT_DATA, MP!PAG_LOG_INIT_CODE, MP!NoEntry,
       MP!Flushed, MP!NotCached, MP!Slots, MP!Idle, Slots, Idle

\* (Both count with the operator of FiniteSets.)
LEMMA SameCount ==
  \A S : Mem!Cardinality(S) = Cardinality(S) /\ MP!Cardinality(S) = Cardinality(S)
BY DEF Cardinality, Mem!Cardinality, MP!Cardinality

LEMMA SameFrames ==
  /\ \A pm : Mem!FreeFrames(pm) = MP!FreeFrames(pm)
  /\ \A pm, n : Mem!alloc_frame(pm, n) = MP!alloc_frame(pm, n)
  /\ \A pm : Mem!enough_frames(pm) = MP!enough_frames(pm)
  /\ \A pm, fs : Mem!MarkUsed(pm, fs) = MP!MarkUsed(pm, fs)
  /\ \A pm, fs : Mem!free_frame(pm, fs) = MP!free_frame(pm, fs)
  /\ \A pt, ps : Mem!del_ss_pag(pt, ps) = MP!del_ss_pag(pt, ps)
  /\ \A c, own : Mem!ChildTable(c, own) = MP!ChildTable(c, own)
  /\ \A p : Mem!Translations(p) = MP!Translations(p)
<1>1. \A pm : Mem!FreeFrames(pm) = MP!FreeFrames(pm)
  BY SamePages DEF Mem!FreeFrames, MP!FreeFrames
<1>2. \A pm, n : Mem!alloc_frame(pm, n) = MP!alloc_frame(pm, n)
  BY DEF Mem!alloc_frame, Mem!FreeFrames, Mem!Candidates, Mem!Frame, Mem!Page, Mem!Cardinality,
         MP!alloc_frame, MP!FreeFrames, MP!Candidates, MP!Frame, MP!Page, MP!Cardinality
<1>3. \A pm : Mem!enough_frames(pm) = MP!enough_frames(pm)
  BY <1>2 DEF Mem!enough_frames, MP!enough_frames
<1>4. \A pm, fs : /\ Mem!MarkUsed(pm, fs) = MP!MarkUsed(pm, fs)
                  /\ Mem!free_frame(pm, fs) = MP!free_frame(pm, fs)
  BY SamePages DEF Mem!MarkUsed, MP!MarkUsed, Mem!free_frame, MP!free_frame
<1>5. \A pt, ps : Mem!del_ss_pag(pt, ps) = MP!del_ss_pag(pt, ps)
  BY SamePages DEF Mem!del_ss_pag, MP!del_ss_pag
<1>6. \A c, own : Mem!ChildTable(c, own) = MP!ChildTable(c, own)
  BY SamePages DEF Mem!ChildTable, MP!ChildTable, Mem!set_ss_pag, MP!set_ss_pag,
                   Mem!get_frame, MP!get_frame
<1>7. \A p : Mem!Translations(p) = MP!Translations(p)
  BY SamePages DEF Mem!Translations, MP!Translations, Mem!set_ss_pag, MP!set_ss_pag
<1> QED
  BY <1>1, <1>2, <1>3, <1>4, <1>5, <1>6, <1>7

LEMMA SameInit == Mem!Init => MP!Init
BY DEF Mem!Init, Mem!BootMemory, Mem!Flushed, Mem!NotCached, Mem!Page, Mem!Frame,
       Mem!BootTable, Mem!Task1, Mem!Slots, Mem!KernelPages, Mem!CodePages,
       Mem!DataPages, Mem!BootFrame, Mem!set_ss_pag, Mem!NoEntry, Mem!PAG_LOG_INIT_DATA,
       Mem!PAG_LOG_INIT_CODE,
       MP!Init, MP!BootMemory, MP!Flushed, MP!NotCached, MP!Page, MP!Frame,
       MP!BootTable, MP!Task1, MP!Slots, MP!KernelPages, MP!CodePages,
       MP!DataPages, MP!BootFrame, MP!set_ss_pag, MP!NoEntry, MP!PAG_LOG_INIT_DATA,
       MP!PAG_LOG_INIT_CODE

LEMMA SameSteps ==
  ASSUME NEW c
  PROVE  /\ Mem!Switch(c) <=> MP!Switch(c)
         /\ Mem!Exit(c) <=> MP!Exit(c)
         /\ Mem!ForkAgain(c) <=> MP!ForkAgain(c)
         /\ Mem!Fork(c) <=> MP!Fork(c)
<1>1. Mem!Switch(c) <=> MP!Switch(c)
  BY SamePages DEF Mem!Switch, MP!Switch, Mem!task_switch, MP!task_switch
<1>2. Mem!Exit(c) <=> MP!Exit(c)
  BY SamePages, SameFrames
     DEF Mem!Exit, MP!Exit, Mem!task_switch, MP!task_switch, Mem!get_frame, MP!get_frame
<1>3. Mem!ForkAgain(c) <=> MP!ForkAgain(c)
  BY SamePages, SameFrames, SameCount
     DEF Mem!ForkAgain, MP!ForkAgain, Mem!give_back, MP!give_back
<1>4. \A own : Mem!CopyData(own) <=> MP!CopyData(own)
  BY DEF Mem!CopyData, Mem!Translations, Mem!flush_after_copy, Mem!Flushed, Mem!NotCached,
         Mem!DataPages, Mem!TempPages, Mem!Page, Mem!Frame, Mem!set_ss_pag,
         Mem!PAG_LOG_INIT_DATA, Mem!PAG_LOG_INIT_CODE,
         MP!CopyData, MP!Translations, MP!flush_after_copy, MP!Flushed, MP!NotCached,
         MP!DataPages, MP!TempPages, MP!Page, MP!Frame, MP!set_ss_pag,
         MP!PAG_LOG_INIT_DATA, MP!PAG_LOG_INIT_CODE
<1>5. Mem!Fork(c) <=> MP!Fork(c)
  BY <1>4, SamePages, SameFrames DEF Mem!Fork, MP!Fork
<1> QED
  BY <1>1, <1>2, <1>3, <1>5

-----------------------------------------------------------------------------
(***************************************************************************)
(* In step                                                                 *)
(***************************************************************************)
MInv ==
  /\ Shaped(kernel) /\ kernel.page0 \in [Slots -> BOOLEAN]
  /\ InStep
  /\ MP!IInv

\* What every handler is to the memory: nothing, a switch, a fork that takes
\* frames, one that does not, or an exit.
Stays == Keeps(kernel, kernel') /\ kernel'.cur = kernel.cur /\ UNCHANGED memvars
Switches == Keeps(kernel, kernel') /\ MP!Switch(kernel'.cur)
ForksAgain(c) == Keeps(kernel, kernel') /\ kernel'.cur = kernel.cur /\ MP!ForkAgain(c)
Forks(c) ==
  /\ Shaped(kernel') /\ kernel'.cur = kernel.cur
  /\ kernel'.procs = kernel.procs \cup {c}
  /\ kernel'.frames = kernel.frames - NUM_PAG_DATA
  /\ kernel'.page0 = [kernel.page0 EXCEPT ![c] = TRUE]
  /\ MP!Fork(c)
Exits ==
  /\ Shaped(kernel')
  /\ kernel'.procs = kernel.procs \ {kernel.cur}
  /\ kernel'.frames = kernel.frames + NUM_PAG_DATA
  /\ kernel'.page0 = kernel.page0
  /\ MP!Exit(kernel'.cur)

\* The scheduler finds too few frames exactly when alloc_frame does.
LEMMA SameVerdict ==
  ASSUME MInv
  PROVE  /\ MP!enough_frames(phys_mem) <=> kernel.frames >= NUM_PAG_DATA
         /\ kernel.frames \in Nat
<1>1. MP!enough_frames(phys_mem) <=> MP!FreeCount >= NUM_PAG_DATA
  BY MP!EnoughIsCount, MemorySlots, MemoryPages
<1>2. MP!FreeCount = kernel.frames
  BY SameCount, SameFrames DEF MP!FreeCount, MInv, InStep
<1>3. MP!FreeFrames(phys_mem) \in SUBSET MP!Candidates
  BY DEF MP!FreeFrames
<1>4. MP!FreeCount \in Nat
  BY <1>3, MP!SomeFrames, MemorySlots, MemoryPages DEF MP!FreeCount
<1> QED
  BY <1>1, <1>2, <1>4

LEMMA StepOfMachine ==
  ASSUME MInv, MachineNext
  PROVE  Stays \/ Switches \/ Exits \/ \E c \in Slots : Forks(c) \/ ForksAgain(c)
<1> USE DEF MInv
<1>1. ASSUME \/ Tick \/ Resume \/ Yield
             \/ \E n \in ReadTicks : Read(n)
             \/ \E p \in Policies : SetSchedPolicy(p),
             \/ kernel'.panic # "no" /\ UNCHANGED memvars
             \/ Follow(kernel'.cur)
      PROVE  Stays \/ Switches
  BY <1>1, HandlersKeep, SameSteps DEF Follow, InStep, Stays, Switches
<1>2. CASE TickStep \/ ResumeStep \/ YieldStep \/ ReadStep
  BY <1>1, <1>2 DEF TickStep, ResumeStep, YieldStep, ReadStep, With
<1>3. CASE PolicyStep
  <2>1. PICK p \in Policies : SetSchedPolicy(p) /\ UNCHANGED memvars
    BY <1>3 DEF PolicyStep, With
  <2>2. Keeps(kernel, kernel')
    BY <2>1, HandlersKeep
  <2>3. kernel'.cur = kernel.cur
    BY <2>1 DEF SetSchedPolicy, Become, Shaped, Fields
  <2> QED
    BY <2>1, <2>2, <2>3 DEF Stays
<1>4. CASE ForkStep
  <2> DEFINE c == ListFirst(kernel.heap, freequeue)
  <2>1. Fork \/ ForkAgain
    BY <1>4 DEF ForkStep, With
  <2>2. CASE kernel'.panic # "no"
    BY <1>4, <2>1, <2>2, PanicKeeps, ForkAgainKeeps DEF Spares, ForkStep, With, Stays
  <2>3. CASE kernel'.panic = "no"
    <3>1. MP!Fork(c) \/ MP!ForkAgain(c)
      BY <1>4, <2>3, SameSteps DEF ForkStep, With
    <3>2. /\ MP!Fork(c) => MP!enough_frames(phys_mem)
          /\ MP!ForkAgain(c) => ~ MP!enough_frames(phys_mem)
      BY DEF MP!Fork, MP!ForkAgain
    <3>3. kernel.frames \in Int /\ NUM_PAG_DATA \in Int
      BY SizeAssumption, SameVerdict
    <3>4. CASE Fork
      BY <2>3, <3>1, <3>2, <3>3, <3>4, SameVerdict, ForkKeeps DEF Forks
    <3>5. CASE ForkAgain
      BY <2>3, <3>1, <3>2, <3>3, <3>5, SameVerdict, ForkAgainKeeps DEF Spares, ForksAgain
    <3> QED
      BY <2>1, <3>4, <3>5
  <2> QED
    BY <2>2, <2>3
<1>5. CASE ExitStep
  <2>1. CASE kernel'.panic # "no"
    BY <1>5, <2>1, PanicKeeps DEF ExitStep, With, Stays
  <2>2. CASE kernel'.panic = "no"
    BY <1>5, <2>2, ExitKeeps, SameSteps DEF ExitStep, With, Exits
  <2> QED
    BY <2>1, <2>2
<1> QED
  BY <1>2, <1>3, <1>4, <1>5 DEF MachineNext

\* The number of free frames, and where page 0 is present, as the theorems
\* about the memory call them.
LEMMA InStepIs ==
  InStep <=> /\ cur = kernel.cur
             /\ procs = kernel.procs \ {Idle}
             /\ kernel.frames = MP!FreeCount
             /\ \A t \in Slots : kernel.page0[t] <=> MP!PageZero(t)
BY SameCount, SameFrames DEF InStep, MP!FreeCount, MP!PageZero

LEMMA InStepWillBe ==
  InStep' <=> /\ cur' = kernel'.cur
              /\ procs' = kernel'.procs \ {Idle}
              /\ kernel'.frames = MP!FreeCount'
              /\ \A t \in Slots : kernel'.page0[t] <=> MP!PageZero(t)'
BY SameCount, SameFrames DEF InStep, MP!FreeCount, MP!PageZero

LEMMA MachineInitInv == MachineInit => MInv
<1> SUFFICES ASSUME MachineInit PROVE MInv
  OBVIOUS
<1>1. MP!Init
  BY SameInit DEF MachineInit
<1>2. MP!IInv
  BY <1>1, MP!InitIInv, MemorySlots, MemoryPages
<1>3. Shaped(kernel) /\ kernel.page0 \in [Slots -> BOOLEAN]
  BY DEF MachineInit, Init, Shaped, Fields
<1>4. kernel.frames = MP!FreeCount
  <2>1. MP!FreeCount + NUM_PAG_DATA + NUM_PAG_CODE = MP!Cardinality(MP!Candidates)
    BY <1>1, MP!InitCounts, MemorySlots, MemoryPages
  <2>2. DataFrames = MP!Cardinality(MP!Candidates) - NUM_PAG_CODE - NUM_PAG_DATA
    BY FrameAssumption, SamePages, SameCount
  <2>3. MP!FreeFrames(phys_mem) \in SUBSET MP!Candidates
    BY DEF MP!FreeFrames
  <2>4. MP!FreeCount \in Nat
    BY <2>3, MP!SomeFrames, MemorySlots, MemoryPages DEF MP!FreeCount
  <2>5. NUM_PAG_DATA \in Nat /\ NUM_PAG_CODE \in Nat
    BY MemoryPages DEF MP!PageAssumption
  <2>6. MP!Cardinality(MP!Candidates) \in Nat
    BY MP!SomeFrames, MemorySlots, MemoryPages
  <2>7. DataFrames = MP!FreeCount
    BY <2>1, <2>2, <2>4, <2>5, <2>6
  <2> QED
    BY <2>7 DEF MachineInit, Init
<1>5. \A t \in Slots : kernel.page0[t] <=> MP!PageZero(t)
  <2>1. \A t \in Slots : ~ MP!PageZero(t)
    BY <1>1, MP!InitPageZero, MemorySlots, MemoryPages, SamePages
  <2> QED
    BY <2>1 DEF MachineInit, Init
<1>6. cur = kernel.cur /\ procs = kernel.procs \ {Idle}
  BY <1>1 DEF MachineInit, Init, Idle, Task1, MP!Init, MP!BootMemory, MP!Task1
<1> QED
  BY <1>2, <1>3, <1>4, <1>5, <1>6, InStepIs DEF MInv

\* A step of the memory, or none, keeps its invariant.
LEMMA MemoryInv ==
  ASSUME MInv, MP!Next \/ UNCHANGED memvars
  PROVE  MP!IInv'
<1>1. MP!IInv /\ [MP!Next]_(MP!vars)
  BY DEF MInv, memvars, MP!vars
<1> QED
  BY <1>1, MP!NextIInv, MemorySlots, MemoryPages

LEMMA MachineStepInv == MInv /\ [MachineNext]_<<kernel, memvars>> => MInv'
<1> SUFFICES ASSUME MInv, [MachineNext]_<<kernel, memvars>> PROVE MInv'
  OBVIOUS
<1> USE MemorySlots, MemoryPages
<1>1. /\ cur = kernel.cur /\ procs = kernel.procs \ {Idle}
      /\ kernel.frames = MP!FreeCount
      /\ \A t \in Slots : kernel.page0[t] <=> MP!PageZero(t)
      /\ MP!IInv /\ kernel.page0 \in [Slots -> BOOLEAN]
  BY InStepIs DEF MInv
<1>2. /\ cur \in Slots /\ procs \subseteq Slots /\ Idle \in Slots
      /\ Slots = MP!Slots /\ Idle = MP!Idle
  BY <1>1, SamePages, SlotAssumption DEF MP!IInv, MP!TypeOK, Slots, Idle
<1> DEFINE InStepNext ==
             /\ cur' = kernel'.cur /\ procs' = kernel'.procs \ {Idle}
             /\ kernel'.frames = MP!FreeCount'
             /\ \A t \in Slots : kernel'.page0[t] <=> MP!PageZero(t)'
             /\ Shaped(kernel') /\ kernel'.page0 \in [Slots -> BOOLEAN]
             /\ MP!Next \/ UNCHANGED memvars
<1>3. ASSUME Keeps(kernel, kernel'), MP!FreeCount' = MP!FreeCount,
             cur' = kernel'.cur, procs' = procs,
             \A t \in Slots : MP!PageZero(t)' <=> MP!PageZero(t),
             MP!Next \/ UNCHANGED memvars
      PROVE  InStepNext
  BY <1>1, <1>3 DEF Keeps
<1>4. ASSUME Stays PROVE InStepNext
  <2>1. cur' = cur /\ procs' = procs
    BY <1>4 DEF Stays, memvars
  <2>2. MP!FreeCount' = MP!FreeCount /\ \A t \in Slots : MP!PageZero(t)' <=> MP!PageZero(t)
    BY <1>4 DEF Stays, memvars, MP!FreeCount, MP!PageZero
  <2> QED
    BY <1>1, <1>3, <1>4, <2>1, <2>2 DEF Stays
<1>5. ASSUME Switches PROVE InStepNext
  <2>1. cur' = kernel'.cur /\ procs' = procs /\ kernel'.cur \in MP!Slots
    BY <1>2, <1>5 DEF Switches, MP!Switch, MP!task_switch
  <2>2. /\ MP!FreeCount' = MP!FreeCount
        /\ \A t \in MP!Slots : MP!PageZero(t)' <=> MP!PageZero(t)
    BY <1>1, <1>5, <2>1, MP!OthersCount, MP!OthersPageZero DEF Switches
  <2> QED
    BY <1>2, <1>3, <1>5, <2>1, <2>2 DEF Switches, MP!Next
<1>6. ASSUME NEW c \in Slots, ForksAgain(c) PROVE InStepNext
  <2>1. cur' = kernel'.cur /\ procs' = procs
    BY <1>1, <1>6 DEF ForksAgain, MP!ForkAgain
  <2>2. /\ MP!FreeCount' = MP!FreeCount
        /\ \A t \in MP!Slots : MP!PageZero(t)' <=> MP!PageZero(t)
    BY <1>1, <1>2, <1>6, MP!OthersCount, MP!OthersPageZero DEF ForksAgain
  <2> QED
    BY <1>2, <1>3, <1>6, <2>1, <2>2 DEF ForksAgain, MP!Next
<1>7. ASSUME NEW c \in Slots, Forks(c) PROVE InStepNext
  <2>1. cur' = cur /\ procs' = procs \cup {c} /\ c # Idle
    BY <1>2, <1>7 DEF Forks, MP!Fork
  <2>2. MP!FreeCount' = MP!FreeCount - NUM_PAG_DATA
    BY <1>1, <1>2, <1>7, MP!ForkCounts DEF Forks
  <2>3. \A t \in MP!Slots : MP!PageZero(t)' <=> t = c \/ MP!PageZero(t)
    BY <1>1, <1>2, <1>7, MP!ForkPageZero DEF Forks
  <2>4. MP!Next
    BY <1>2, <1>7 DEF Forks, MP!Next
  <2>5. cur' = kernel'.cur /\ procs' = kernel'.procs \ {Idle}
    BY <1>1, <1>7, <2>1 DEF Forks
  <2>6. kernel'.frames = MP!FreeCount' /\ Shaped(kernel')
    BY <1>1, <1>7, <2>2 DEF Forks
  <2>7. /\ \A t \in Slots : kernel'.page0[t] <=> MP!PageZero(t)'
        /\ kernel'.page0 \in [Slots -> BOOLEAN]
    BY <1>1, <1>2, <1>7, <2>3 DEF Forks
  <2> QED
    BY <2>4, <2>5, <2>6, <2>7
<1>8. ASSUME Exits PROVE InStepNext
  <2>1. cur' = kernel'.cur /\ procs' = procs \ {cur} /\ kernel'.cur \in MP!Slots
    BY <1>2, <1>8 DEF Exits, MP!Exit, MP!task_switch
  <2>2. MP!FreeCount' = MP!FreeCount + NUM_PAG_DATA
    BY <1>1, <1>8, <2>1, MP!ExitCounts DEF Exits
  <2>3. \A t \in MP!Slots : MP!PageZero(t)' <=> MP!PageZero(t)
    BY <1>1, <1>8, <2>1, MP!OthersPageZero DEF Exits
  <2>4. MP!Next
    BY <1>8, <2>1 DEF Exits, MP!Next
  <2>5. procs' = kernel'.procs \ {Idle}
    BY <1>1, <1>8, <2>1 DEF Exits
  <2> QED
    BY <1>1, <1>2, <1>8, <2>1, <2>2, <2>3, <2>4, <2>5 DEF Exits
<1>9. InStepNext
  <2>1. UNCHANGED <<kernel, memvars>> => Stays
    BY DEF Stays, Keeps, MInv
  <2> QED
    BY <1>4, <1>5, <1>6, <1>7, <1>8, <2>1, StepOfMachine
<1>10. MP!IInv'
  BY <1>9, MemoryInv
<1>11. InStep'
  BY <1>9, InStepWillBe
<1> QED
  BY <1>9, <1>10, <1>11 DEF MInv

\* However slots are reused, frames run out and programs switch the policy, the
\* page table in use is that of current(), the living processes are those with
\* frames, the frames sys_fork counts on are those the bytemap has left, and
\* page 0 is present where ZeosSched says: sys_fork, sys_exit and task_switch.
THEOREM HandlersStayInStep == MachineSpec => []InStep
<1>1. MInv => InStep
  BY DEF MInv
<1> QED
  BY <1>1, MachineInitInv, MachineStepInv, PTL DEF MachineSpec

\* A step of the machine is a step of its scheduler.
LEMMA MachineStepIsStep == [MachineNext]_<<kernel, memvars>> => [Next]_kernel
<1>1. ForkStep \/ ExitStep \/ TickStep \/ ResumeStep \/ YieldStep => Next
  BY DEF ForkStep, ExitStep, TickStep, ResumeStep, YieldStep, With, Next
<1>2. ReadStep \/ PolicyStep => Next
  BY DEF ReadStep, PolicyStep, With, Next
<1> QED
  BY <1>1, <1>2 DEF MachineNext

\* The memory takes no part in what the scheduler decides: Machine is ZeosSched
\* with more variables, and its processes, lists and policies move as the
\* handlers of sched.c and sys.c move them alone.
THEOREM MachineImplementsSched == MachineSpec => Init /\ [][Next]_kernel
<1>1. MachineInit => Init
  BY DEF MachineInit
<1> QED
  BY <1>1, MachineStepIsStep, PTL DEF MachineSpec

\* The scheduler drives the memory within what ProcMemory allows, so that what is
\* proved of it for every order of forks, exits and switches holds of the order
\* the scheduler makes: sys_fork, sys_exit and task_switch.
THEOREM MachineImplementsMemory == MachineSpec => Mem!Spec
<1>1. ASSUME MInv, MachineNext PROVE [Mem!Next]_(Mem!vars)
  <2>0. MInv /\ procs \subseteq Slots /\ MP!Idle \in Slots
    BY <1>1, SamePages, SlotAssumption DEF MInv, MP!IInv, MP!TypeOK, Slots, Idle
  <2>1. Switches => kernel'.cur \in Slots
    BY <2>0 DEF Switches, MP!Switch
  <2>2. Exits => kernel'.cur \in Slots
    BY <2>0 DEF Exits, MP!Exit
  <2>3. Stays => UNCHANGED Mem!vars
    BY DEF Stays, memvars, Mem!vars
  <2>4. \A c \in Slots :
          Mem!Switch(c) \/ Mem!Exit(c) \/ Mem!ForkAgain(c) \/ Mem!Fork(c) => Mem!Next
    BY SamePages DEF Mem!Next
  <2>5. \/ UNCHANGED Mem!vars
        \/ \E c \in Slots : \/ Mem!Switch(c) \/ Mem!Exit(c)
                            \/ Mem!ForkAgain(c) \/ Mem!Fork(c)
    BY <1>1, <2>1, <2>2, <2>3, StepOfMachine, SameSteps DEF Switches, Exits, Forks, ForksAgain
  <2> QED
    BY <2>4, <2>5
<1>2. MInv /\ [MachineNext]_<<kernel, memvars>> => [Mem!Next]_(Mem!vars)
  <2>1. UNCHANGED <<kernel, memvars>> => UNCHANGED Mem!vars
    BY DEF memvars, Mem!vars
  <2> QED
    BY <1>1, <2>1
<1>3. MachineInit => Mem!Init
  BY DEF MachineInit
<1> QED
  BY <1>2, <1>3, MachineInitInv, MachineStepInv, PTL DEF MachineSpec, Mem!Spec

\* Whatever programs do, the frames in use are those of the kernel, the code and
\* the data pages of the scheduler's processes, no frame is under two of them,
\* and the TLB holds nothing of another space.
THEOREM MachineOwnsFrames == MachineSpec => [](Mem!FramesOwned /\ Mem!TlbFresh)
<1>1. MInv => MP!FramesOwned /\ MP!TlbFresh
  BY MP!OwnsFrames, MemorySlots, MemoryPages DEF MInv, MP!IInv
<1>2. MP!FramesOwned => Mem!FramesOwned
  BY SamePages
     DEF MP!FramesOwned, Mem!FramesOwned, MP!Owned, Mem!Owned, MP!get_frame, Mem!get_frame,
         MP!BootFrame, Mem!BootFrame, MP!PAG_LOG_INIT_CODE, Mem!PAG_LOG_INIT_CODE
<1>3. MP!TlbFresh => Mem!TlbFresh
  BY SamePages
     DEF MP!TlbFresh, Mem!TlbFresh, MP!NotCached, Mem!NotCached, MP!set_ss_pag, Mem!set_ss_pag
<1>4. MInv => Mem!FramesOwned /\ Mem!TlbFresh
  BY <1>1, <1>2, <1>3
<1> QED
  BY <1>4, MachineInitInv, MachineStepInv, PTL DEF MachineSpec

\* Who runs or is on a queue of processes has used frames under all its data
\* pages, and the freequeue holds exactly the slots sys_fork may fill.
QueuedHaveMemory ==
  Running =>
    /\ procs = (ToSet(Ready) \cup ToSet(Blocked) \cup {kernel.cur}) \ {Idle}
    /\ ToSet(Free) = Slots \ (procs \cup {Idle})
    /\ \A t \in procs, p \in Mem!DataPages :
         /\ pagusr_table[t][p].present
         /\ phys_mem[pagusr_table[t][p].frame] = "USED"

\* Under a steady policy every state of Machine has both invariants.
LEMMA BothHold ==
  ASSUME SteadyPolicy PROVE MachineSpec => [](SchedInv /\ MInv)
<1>1. MachineInit => SchedInv
  BY InitGood DEF MachineInit
<1>2. SchedInv /\ [MachineNext]_<<kernel, memvars>> => SchedInv'
  BY SchedInvStep, MachineStepIsStep
<1> QED
  BY <1>1, <1>2, MachineInitInv, MachineStepInv, PTL DEF MachineSpec

\* With a steady policy nobody is ever dispatched or woken without memory, and
\* sys_fork never takes the slot, nor sys_exit the frames, of somebody who is
\* still on a queue: list.c's queues and mm.c's tables name the same processes.
THEOREM QueuedProcessesHaveMemory ==
  ASSUME SteadyPolicy PROVE MachineSpec => []QueuedHaveMemory
<1>1. SchedInv /\ MInv => QueuedHaveMemory
  <2> SUFFICES ASSUME SchedInv, MInv, Running PROVE QueuedHaveMemory
    BY DEF QueuedHaveMemory
  <2>1. EveryTaskInItsQueue
    BY SchedInvQueues
  <2>2. procs = kernel.procs \ {Idle}
    BY DEF MInv, InStep
  <2>3. kernel.procs \subseteq Slots /\ Idle \in kernel.procs /\ kernel.cur \in kernel.procs
    BY DEF SchedInv, Good, Settled, Core, Kernel
  <2>4. procs = (ToSet(Ready) \cup ToSet(Blocked) \cup {kernel.cur}) \ {Idle}
    BY <2>1, <2>2, <2>3 DEF EveryTaskInItsQueue
  <2>5. ToSet(Free) = Slots \ (procs \cup {Idle})
    BY <2>1, <2>2, <2>3 DEF EveryTaskInItsQueue
  <2>6. ASSUME NEW t \in procs, NEW p \in Mem!DataPages
        PROVE  /\ pagusr_table[t][p].present
               /\ phys_mem[pagusr_table[t][p].frame] = "USED"
    BY <2>6, SamePages DEF MInv, MP!IInv, MP!Tables, MP!Owns, MP!Under
  <2> QED
    BY <2>4, <2>5, <2>6 DEF QueuedHaveMemory
<1> QED
  BY <1>1, BothHold, PTL

-----------------------------------------------------------------------------
(***************************************************************************)
(* The memory is always able to follow                                     *)
(***************************************************************************)

\* What ProcMemory asks of a fork into slot c (the parent's pages are to be read
\* for the copy), of an exit that leaves the CPU to t, and of a switch to t.
ForkAllowed(c) ==
  /\ cur # Idle /\ c \in Slots \ (procs \cup {Idle})
  /\ \A p \in Mem!DataPages : Mem!Translations(p) # {}
ExitAllowed(t) == cur # Idle /\ t \in (procs \ {cur}) \cup {Idle}
FollowAllowed(t) == t = cur \/ t \in procs \cup {Idle}

\* What a handler of the scheduler asks of the memory is allowed, and fork finds
\* frames by the scheduler's count exactly when alloc_frame does.
Allowed ==
  /\ Fork \/ ForkAgain => ForkAllowed(ListFirst(kernel.heap, freequeue))
  /\ Fork => Mem!enough_frames(phys_mem)
  /\ ForkAgain => ~ Mem!enough_frames(phys_mem)
  /\ Exit => ExitAllowed(kernel'.cur)
  /\ Tick \/ Resume \/ Yield \/ (\E n \in ReadTicks : Read(n)) => FollowAllowed(kernel'.cur)

\* The page of a living process that an access needs is in its table.
LEMMA PagesThere ==
  ASSUME MInv, cur # Idle, NEW p \in Mem!DataPages
  PROVE  Mem!Translations(p) # {}
<1>1. /\ cur \in MP!Slots /\ cur \in procs /\ p \in MP!DataPages /\ MP!DataPages \subseteq MP!Page
      /\ pagusr_table \in [MP!Slots -> [MP!Page -> MP!Entry]]
      /\ pagusr_table[cur][p].present
  BY SamePages, MP!Layout, MemorySlots, MemoryPages
     DEF MInv, MP!IInv, MP!TypeOK, MP!Tables
<1>2. pagusr_table[cur][p] \in MP!Entry
  BY <1>1
<1>3. /\ pagusr_table[cur][p].frame \in MP!Frame
      /\ pagusr_table[cur][p] = MP!set_ss_pag(pagusr_table[cur][p].frame)
  BY <1>1, <1>2 DEF MP!Entry, MP!set_ss_pag
<1>4. pagusr_table[cur][p].frame \in MP!Translations(p)
  BY <1>3 DEF MP!Translations
<1> QED
  BY <1>4, SameFrames

\* The slot at the head of freequeue holds no process.
LEMMA HeadIsFree ==
  ASSUME SchedInv, ~ ListEmpty(kernel.heap, freequeue)
  PROVE  ListFirst(kernel.heap, freequeue) \in Slots \ kernel.procs
<1> DEFINE c == ListFirst(kernel.heap, freequeue)
<1>1. PICK Q : /\ Settled(kernel, Q)
               /\ ConsoleAgrees(kernel.reads, Q[console_blocked])
  BY DEF SchedInv, Good
<1>2. PICK R : SlotMoved(kernel, Q, c, readyqueue, AddTail(CopiedSlot(kernel, c), c, readyqueue), R)
  BY <1>1, MoveSlot
<1> QED
  BY <1>1, <1>2 DEF SlotMoved, Settled, Core, Kernel

\* Whatever programs do under a steady policy, mm.c can carry out what sched.c
\* and sys.c decide in the states Machine reaches (BothHold): sys_fork takes a
\* slot without a process and reads pages that are present, sys_exit and
\* task_switch go to a living process or to idle.  So no step of the scheduler is
\* missing from Machine because the memory could not follow it.
THEOREM MemoryNeverRefuses ==
  ASSUME SteadyPolicy
  PROVE  SchedInv /\ MInv /\ [Next]_kernel /\ Running' => Allowed
<1> SUFFICES ASSUME SchedInv, MInv, [Next]_kernel, Running' PROVE Allowed
  OBVIOUS
<1>1. /\ cur = kernel.cur /\ procs = kernel.procs \ {Idle} /\ Shaped(kernel)
      /\ Idle \in kernel.procs
  BY DEF MInv, InStep, SchedInv, Good, Settled, Core
<1>2. kernel'.cur \in kernel'.procs /\ kernel'.panic = "no"
  <2>1. SchedInv'
    BY SchedInvStep
  <2> QED
    BY <2>1 DEF SchedInv, Good, Settled, Running
<1>3. Fork \/ ForkAgain => ForkAllowed(ListFirst(kernel.heap, freequeue))
  BY <1>1, PagesThere, HeadIsFree DEF Fork, ForkAgain, Calling, ForkAllowed
<1>4. /\ Fork => Mem!enough_frames(phys_mem)
      /\ ForkAgain => ~ Mem!enough_frames(phys_mem)
  BY SameVerdict, SameFrames, SizeAssumption DEF Fork, ForkAgain
<1>5. Exit => ExitAllowed(kernel'.cur)
  BY <1>1, <1>2, ExitKeeps DEF Exit, Calling, ExitAllowed
<1>6. Tick \/ Resume \/ Yield \/ (\E n \in ReadTicks : Read(n)) => FollowAllowed(kernel'.cur)
  BY <1>1, <1>2, HandlersKeep DEF Keeps, FollowAllowed
<1> QED
  BY <1>3, <1>4, <1>5, <1>6 DEF Allowed

-----------------------------------------------------------------------------
(***************************************************************************)
(* Part five: how long a read takes                                        *)
(***************************************************************************)

\* The clock ticks a request takes once it is the first.
Service(n) == IF n > 1 THEN n ELSE 1

\* The ticks until the i-th request is served: those of the ones before it, which
\* the console serves one after the other, and its own.
DueTimes(reads) ==
  LET due[i \in 0..Len(reads)] ==
        IF i = 0 THEN 0 ELSE due[i - 1] + Service(reads[i].left)
  IN  due

Due == DueTimes(kernel.reads)

\* The request that is due at the next tick is the first one's, or nobody's.
Served == IF Due[1] = 1 THEN 1 ELSE 0

\* A tick brings every request one tick nearer and serves the one that is due.
TickOnTime ==
  IF kernel.reads = <<>> THEN kernel'.reads = <<>>
  ELSE /\ Len(kernel'.reads) = Len(kernel.reads) - Served
       /\ \A i \in 1..Len(kernel'.reads) :
            /\ kernel'.reads[i].task = kernel.reads[i + Served].task
            /\ Due'[i] = Due[i + Served] - 1

\* Nothing else moves a request, and those that come wait behind it.
OthersOnTime ==
  /\ Len(kernel'.reads) >= Len(kernel.reads)
  /\ \A i \in 1..Len(kernel.reads) :
       kernel'.reads[i] = kernel.reads[i] /\ Due'[i] = Due[i]

\* A new request is due its own ticks after all before it.
ReadOnTime(n) ==
  LET l == Len(kernel.reads)
  IN  /\ Len(kernel'.reads) = l + 1
      /\ kernel'.reads[l + 1].task = kernel.cur
      /\ Due'[l + 1] = Due[l] + Service(n)

ReadsOnTime ==
  [][Running' =>
       /\ Tick => TickOnTime
       /\ ~ Tick => OthersOnTime
       /\ \A n \in ReadTicks : Read(n) => ReadOnTime(n)]_kernel

Requests == Seq([task : Slots, left : Int])

\* d is a solution of the equations of DueTimes for the first n requests.
AddsUp(reads, n, d) ==
  d = [i \in 0..n |-> IF i = 0 THEN 0 ELSE d[i - 1] + Service(reads[i].left)]

LEMMA ServiceTimes ==
  ASSUME NEW reads \in Requests
  PROVE  /\ Len(reads) \in Nat
         /\ \A i \in 1..Len(reads) :
              /\ reads[i] \in [task : Slots, left : Int]
              /\ Service(reads[i].left) \in Int
<1>1. Len(reads) \in Nat /\ \A i \in 1..Len(reads) : reads[i] \in [task : Slots, left : Int]
  <2> DEFINE E == [task : Slots, left : Int]
  <2>1. reads \in Seq(E)
    BY DEF Requests
  <2> HIDE DEF E
  <2>2. Len(reads) \in Nat /\ \A i \in 1..Len(reads) : reads[i] \in E
    BY <2>1
  <2> QED
    BY <2>2 DEF E
<1>2. \A n \in Int : Service(n) \in Int
  BY DEF Service
<1> QED
  BY <1>1, <1>2

\* The equations have one solution at the most.
LEMMA OneSum ==
  ASSUME NEW reads \in Requests, NEW n \in 0..Len(reads), NEW d, NEW e,
         AddsUp(reads, n, d), AddsUp(reads, n, e)
  PROVE  d = e
<1> DEFINE S == {i \in 0..n : d[i] = e[i]}
<1>1. n \in Nat
  BY ServiceTimes
<1>2. /\ \A i \in 0..n : /\ d[i] = IF i = 0 THEN 0 ELSE d[i - 1] + Service(reads[i].left)
                         /\ e[i] = IF i = 0 THEN 0 ELSE e[i - 1] + Service(reads[i].left)
  BY DEF AddsUp
<1>3. \A i \in 0..n : i \in S
  <2>1. 0 \in S
    BY <1>1, <1>2
  <2>2. ASSUME NEW i \in 0..(n - 1), i \in S PROVE i + 1 \in S
    <3>1. i + 1 \in 0..n /\ i + 1 # 0 /\ (i + 1) - 1 = i
      BY <1>1
    <3> QED
      BY <1>2, <2>2, <3>1
  <2> HIDE DEF S
  <2> QED
    BY <1>1, <2>1, <2>2, InductionUpTo
<1> QED
  BY <1>3 DEF AddsUp

\* And they have one, of integers.
LEMMA SomeSum ==
  ASSUME NEW reads \in Requests
  PROVE  \E d \in [0..Len(reads) -> Int] : AddsUp(reads, Len(reads), d)
<1> DEFINE Some(n) == \E d \in [0..n -> Int] : AddsUp(reads, n, d)
           S == {n \in 0..Len(reads) : Some(n)}
<1>1. Len(reads) \in Nat
  BY ServiceTimes
<1>2. 0 \in S
  <2>1. AddsUp(reads, 0, [i \in 0..0 |-> 0])
    BY DEF AddsUp
  <2> QED
    BY <1>1, <2>1
<1>3. ASSUME NEW n \in 0..(Len(reads) - 1), n \in S PROVE n + 1 \in S
  <2>1. PICK d \in [0..n -> Int] : AddsUp(reads, n, d)
    BY <1>3
  <2> DEFINE next == d[n] + Service(reads[n + 1].left)
             e == [i \in 0..(n + 1) |-> IF i = n + 1 THEN next ELSE d[i]]
  <2>2. n \in Nat /\ n + 1 \in 1..Len(reads) /\ n + 1 \in 0..Len(reads)
    BY <1>1
  <2>3. next \in Int
    BY <2>1, <2>2, ServiceTimes
  <2>4. e \in [0..(n + 1) -> Int]
    BY <2>1, <2>2, <2>3
  <2>5. ASSUME NEW i \in 0..(n + 1)
        PROVE  e[i] = IF i = 0 THEN 0 ELSE e[i - 1] + Service(reads[i].left)
    <3>1. CASE i = n + 1
      <4>1. i # 0 /\ i - 1 = n /\ n \in 0..(n + 1) /\ n # n + 1
        BY <2>2, <3>1
      <4> QED
        BY <3>1, <4>1
    <3>2. CASE i # n + 1
      <4>1. i \in 0..n /\ i # 0 => i - 1 \in 0..n /\ i - 1 \in 0..(n + 1) /\ i - 1 # n + 1
        BY <2>2, <3>2
      <4>2. d[i] = IF i = 0 THEN 0 ELSE d[i - 1] + Service(reads[i].left)
        BY <2>1, <2>2, <3>2 DEF AddsUp
      <4> QED
        BY <3>2, <4>1, <4>2
    <3> QED
      BY <3>1, <3>2
  <2>6. AddsUp(reads, n + 1, e)
    <3> HIDE DEF e
    <3> QED
      BY <2>4, <2>5 DEF AddsUp
  <2> QED
    BY <2>2, <2>4, <2>6
<1>4. Len(reads) \in S
  <2>1. Len(reads) \in 0..Len(reads)
    BY <1>1
  <2> HIDE DEF S
  <2> QED
    BY <1>1, <1>2, <1>3, <2>1, InductionUpTo
<1> QED
  BY <1>4

\* So DueTimes is well defined and the only solution.
LEMMA DueIs ==
  ASSUME NEW reads \in Requests
  PROVE  /\ AddsUp(reads, Len(reads), DueTimes(reads))
         /\ DueTimes(reads) \in [0..Len(reads) -> Int]
         /\ \A e : AddsUp(reads, Len(reads), e) => e = DueTimes(reads)
<1> DEFINE Sol(d) == AddsUp(reads, Len(reads), d)
<1>1. PICK d \in [0..Len(reads) -> Int] : Sol(d)
  BY SomeSum
<1>2. \A e : Sol(e) => e = d
  <2>1. Len(reads) \in 0..Len(reads)
    BY ServiceTimes
  <2> QED
    BY <1>1, <2>1, OneSum
<1>3. DueTimes(reads) = CHOOSE e : Sol(e)
  BY DEF DueTimes, AddsUp
<1> HIDE DEF Sol
<1>4. Sol(DueTimes(reads))
  BY <1>1, <1>3, Zenon
<1> QED
  BY <1>1, <1>2, <1>4 DEF Sol

\* What is due for the first request, and what each next one adds.
LEMMA DueSteps ==
  ASSUME NEW reads \in Requests
  PROVE  /\ DueTimes(reads) \in [0..Len(reads) -> Int]
         /\ DueTimes(reads)[0] = 0
         /\ \A i \in 1..Len(reads) :
              DueTimes(reads)[i] = DueTimes(reads)[i - 1] + Service(reads[i].left)
<1>1. Len(reads) \in Nat
  BY ServiceTimes
<1>2. \A i \in 0..Len(reads) :
         DueTimes(reads)[i] = IF i = 0 THEN 0 ELSE DueTimes(reads)[i - 1] + Service(reads[i].left)
  BY DueIs DEF AddsUp
<1> QED
  BY <1>1, <1>2, DueIs

\* A request more is due when its own ticks have been served after the others.
LEMMA DueAppend ==
  ASSUME NEW reads \in Requests, NEW r \in [task : Slots, left : Int]
  PROVE  LET rs == Append(reads, r)
         IN  /\ rs \in Requests /\ Len(rs) = Len(reads) + 1
             /\ \A i \in 1..Len(reads) : rs[i] = reads[i]
             /\ rs[Len(reads) + 1] = r
             /\ \A i \in 0..Len(reads) : DueTimes(rs)[i] = DueTimes(reads)[i]
             /\ DueTimes(rs)[Len(reads) + 1] = DueTimes(reads)[Len(reads)] + Service(r.left)
<1> DEFINE rs == Append(reads, r)
           l == Len(reads)
           d == DueTimes(reads)
           n == DueTimes(rs)
<1>1. /\ rs \in Requests /\ Len(rs) = l + 1
      /\ \A i \in 1..l : rs[i] = reads[i]
      /\ rs[l + 1] = r
  <2>1. reads \in Seq([task : Slots, left : Int])
    BY DEF Requests
  <2> QED
    BY <2>1 DEF Requests
<1>2. l \in Nat
  BY ServiceTimes
<1> HIDE DEF rs, l
<1>3. /\ d[0] = 0 /\ \A i \in 1..l : d[i] = d[i - 1] + Service(reads[i].left)
      /\ n[0] = 0 /\ \A i \in 1..(l + 1) : n[i] = n[i - 1] + Service(rs[i].left)
  BY <1>1, DueSteps DEF l
<1> HIDE DEF d, n
<1>4. \A i \in 0..l : n[i] = d[i]
  <2> DEFINE S == {i \in 0..l : n[i] = d[i]}
  <2>1. 0 \in S
    BY <1>2, <1>3
  <2>2. ASSUME NEW i \in 0..(l - 1), i \in S PROVE i + 1 \in S
    <3>1. i + 1 \in 0..l /\ i + 1 \in 1..l /\ i + 1 \in 1..(l + 1) /\ (i + 1) - 1 = i
      BY <1>2
    <3> QED
      BY <1>1, <1>3, <2>2, <3>1
  <2> HIDE DEF S
  <2>3. \A i \in 0..l : i \in S
    BY <1>2, <2>1, <2>2, InductionUpTo
  <2> QED
    BY <2>3 DEF S
<1>5. n[l + 1] = d[l] + Service(r.left)
  <2>1. l + 1 \in 1..(l + 1) /\ (l + 1) - 1 = l /\ l \in 0..l
    BY <1>2
  <2> QED
    BY <1>1, <1>3, <1>4, <2>1
<1> QED
  BY <1>1, <1>4, <1>5 DEF rs, l, d, n

\* Taking one off the first request brings all of them one tick nearer.
LEMMA DueHead ==
  ASSUME NEW reads \in Requests, reads # <<>>, NEW rs \in Requests,
         Len(rs) = Len(reads), rs[1].left = reads[1].left - 1, reads[1].left > 1,
         \A i \in 2..Len(reads) : rs[i] = reads[i]
  PROVE  /\ \A i \in 1..Len(reads) : DueTimes(rs)[i] = DueTimes(reads)[i] - 1
         /\ DueTimes(reads)[1] # 1
<1> DEFINE l == Len(reads)
           d == DueTimes(reads)
           n == DueTimes(rs)
           S == {i \in 0..(l - 1) : n[i + 1] = d[i + 1] - 1}
<1>1. l \in Nat \ {0}
  BY DEF Requests
<1>2. /\ d[0] = 0 /\ \A i \in 1..l : d[i] = d[i - 1] + Service(reads[i].left)
      /\ n[0] = 0 /\ \A i \in 1..l : n[i] = n[i - 1] + Service(rs[i].left)
      /\ \A i \in 0..l : d[i] \in Int /\ n[i] \in Int
      /\ \A i \in 1..l : Service(rs[i].left) \in Int
  BY DueSteps, ServiceTimes
<1>3. reads[1].left \in Int
  BY <1>1, ServiceTimes
<1> HIDE DEF l, d, n
<1>4. d[1] = reads[1].left /\ n[1] = reads[1].left - 1
  <2>1. 1 \in 1..l /\ 1 - 1 = 0
    BY <1>1
  <2>2. Service(reads[1].left) = reads[1].left
    BY <1>3 DEF Service
  <2>3. Service(rs[1].left) = reads[1].left - 1
    BY <1>3 DEF Service
  <2>4. d[1] = 0 + Service(reads[1].left) /\ n[1] = 0 + Service(rs[1].left)
    BY <1>2, <2>1
  <2> QED
    BY <1>3, <2>2, <2>3, <2>4
<1>5. 0 \in S
  BY <1>1, <1>4
<1>6. ASSUME NEW i \in 0..((l - 1) - 1), i \in S PROVE i + 1 \in S
  <2>1. /\ i + 1 \in 0..(l - 1) /\ (i + 1) + 1 \in 2..l /\ (i + 1) + 1 \in 1..l
        /\ ((i + 1) + 1) - 1 = i + 1 /\ i + 1 \in 0..l
    BY <1>1
  <2> DEFINE s == Service(reads[(i + 1) + 1].left)
  <2>2. rs[(i + 1) + 1] = reads[(i + 1) + 1]
    BY <2>1 DEF l
  <2>3. /\ d[(i + 1) + 1] = d[i + 1] + s /\ n[(i + 1) + 1] = n[i + 1] + s
        /\ s \in Int /\ d[i + 1] \in Int
    BY <1>2, <2>1, <2>2
  <2>4. n[i + 1] = d[i + 1] - 1
    BY <1>6
  <2> HIDE DEF s
  <2>5. n[(i + 1) + 1] = d[(i + 1) + 1] - 1
    BY <2>3, <2>4
  <2> QED
    BY <2>1, <2>5
<1>7. \A i \in 0..(l - 1) : i \in S
  <2> HIDE DEF S
  <2>1. l - 1 \in Nat
    BY <1>1
  <2> QED
    BY <1>5, <1>6, <2>1, InductionUpTo
<1>8. ASSUME NEW i \in 1..l PROVE n[i] = d[i] - 1
  <2>1. i - 1 \in 0..(l - 1) /\ (i - 1) + 1 = i
    BY <1>1
  <2>2. n[(i - 1) + 1] = d[(i - 1) + 1] - 1
    BY <1>7, <2>1
  <2> QED
    BY <2>1, <2>2
<1> QED
  BY <1>3, <1>4, <1>8 DEF l, d, n

\* So does serving it, when it asks for one tick or for none.
LEMMA DueTail ==
  ASSUME NEW reads \in Requests, reads # <<>>, ~ (reads[1].left > 1)
  PROVE  /\ Tail(reads) \in Requests /\ Len(Tail(reads)) = Len(reads) - 1
         /\ \A i \in 1..Len(Tail(reads)) :
              /\ Tail(reads)[i] = reads[i + 1]
              /\ DueTimes(Tail(reads))[i] = DueTimes(reads)[i + 1] - 1
         /\ DueTimes(reads)[1] = 1
<1> DEFINE rs == Tail(reads)
           l == Len(reads) - 1
           d == DueTimes(reads)
           n == DueTimes(rs)
           S == {i \in 0..l : n[i] = d[i + 1] - 1}
<1>1. /\ rs \in Requests /\ Len(rs) = l /\ l \in Nat /\ Len(reads) = l + 1
      /\ \A i \in 1..l : rs[i] = reads[i + 1]
  <2>1. reads \in Seq([task : Slots, left : Int]) /\ Len(reads) \in Nat \ {0}
    BY DEF Requests
  <2> QED
    BY <2>1 DEF Requests
<1> HIDE DEF rs, l
<1>2. /\ d[0] = 0 /\ \A i \in 1..(l + 1) : d[i] = d[i - 1] + Service(reads[i].left)
      /\ n[0] = 0 /\ \A i \in 1..l : n[i] = n[i - 1] + Service(rs[i].left)
      /\ \A i \in 0..(l + 1) : d[i] \in Int
      /\ \A i \in 1..(l + 1) : Service(reads[i].left) \in Int
  BY <1>1, DueSteps, ServiceTimes
<1> HIDE DEF d, n
<1>3. d[1] = 1
  <2>1. 1 \in 1..(l + 1) /\ 1 - 1 = 0
    BY <1>1
  <2>2. Service(reads[1].left) = 1
    BY DEF Service
  <2> QED
    BY <1>2, <2>1, <2>2
<1>4. 0 \in S
  BY <1>1, <1>2, <1>3
<1>5. ASSUME NEW i \in 0..(l - 1), i \in S PROVE i + 1 \in S
  <2>1. /\ i + 1 \in 0..l /\ i + 1 \in 1..l /\ (i + 1) - 1 = i
        /\ (i + 1) + 1 \in 1..(l + 1) /\ ((i + 1) + 1) - 1 = i + 1 /\ i + 1 \in 0..(l + 1)
    BY <1>1
  <2> DEFINE s == Service(reads[(i + 1) + 1].left)
  <2>2. /\ d[(i + 1) + 1] = d[i + 1] + s /\ n[i + 1] = n[i] + s
        /\ s \in Int /\ d[i + 1] \in Int
    BY <1>1, <1>2, <2>1
  <2>3. n[i] = d[i + 1] - 1
    BY <1>5
  <2> HIDE DEF s
  <2>4. n[i + 1] = d[(i + 1) + 1] - 1
    BY <2>2, <2>3
  <2> QED
    BY <2>1, <2>4
<1>6. \A i \in 0..l : i \in S
  <2> HIDE DEF S
  <2> QED
    BY <1>1, <1>4, <1>5, InductionUpTo
<1>7. \A i \in 1..l : n[i] = d[i + 1] - 1
  BY <1>1, <1>6
<1> QED
  BY <1>1, <1>3, <1>7 DEF rs, l, d, n

-----------------------------------------------------------------------------
\* What the handlers do to pending_reads.
Counted ==
  IF kernel.reads = <<>> THEN kernel'.reads = <<>>
  ELSE IF kernel.reads[1].left - 1 > 0
       THEN kernel'.reads = [kernel.reads EXCEPT ![1].left = kernel.reads[1].left - 1]
       ELSE kernel'.reads = Tail(kernel.reads)

Asked(n) == kernel'.reads = Append(kernel.reads, [task |-> kernel.cur, left |-> n])

LEMMA KernelShaped ==
  ASSUME kernel \in Kernel PROVE Shaped(kernel) /\ kernel.reads \in Requests
         /\ kernel.page0 \in [Slots -> BOOLEAN] /\ kernel.cur \in Slots
BY DEF Kernel, Shaped, Fields, Requests

LEMMA ConsoleCounts ==
  ASSUME NEW k, Shaped(k)
  PROVE  LET r == zeos_update_read_console_emul(k)
         IN  /\ Shaped(r)
             /\ IF k.reads = <<>> THEN r.reads = <<>>
                ELSE IF k.reads[1].left - 1 > 0
                     THEN r.reads = [k.reads EXCEPT ![1].left = k.reads[1].left - 1]
                     ELSE r.reads = Tail(k.reads)
<1> DEFINE left == k.reads[1].left - 1
           k1 == [k EXCEPT !.reads[1].left = left]
           k2 == [k EXCEPT !.reads = Tail(@)]
<1>1. Shaped(k1) /\ k1.reads = [k.reads EXCEPT ![1].left = left]
  BY DEF Shaped, Fields
<1>2. Shaped(k2) /\ k2.reads = Tail(k.reads)
  BY DEF Shaped, Fields
<1>3. Spares(k2, unblock_process(k2, k.reads[1].task))
  BY <1>2, UnblockSpares
<1> QED
  BY <1>1, <1>2, <1>3 DEF zeos_update_read_console_emul, Spares, Keeps

LEMMA TickCounts ==
  ASSUME Shaped(kernel), Tick, Running'
  PROVE  Counted
<1> DEFINE k == zeos_update_read_console_emul(kernel)
<1>1. Shaped(k)
  BY ConsoleCounts
<1>2. Spares(k, schedule(k)) /\ Spares(k, k)
  BY <1>1, ScheduleSpares DEF Spares, Keeps
<1>3. \E r : Spares(k, r) /\ Become(r)
  BY <1>2 DEF Tick
<1>4. kernel'.reads = k.reads
  <2> HIDE DEF k
  <2> QED
    BY <1>3 DEF Become, Running, Spares, Shaped, Fields
<1> QED
  BY <1>4, ConsoleCounts DEF Counted

LEMMA ReadAsks ==
  ASSUME Shaped(kernel), NEW n, Read(n), Running'
  PROVE  Asked(n)
<1> DEFINE rs == Append(kernel.reads, [task |-> kernel.cur, left |-> n])
           k == [kernel EXCEPT !.reads = rs]
<1>1. Shaped(k) /\ k.reads = rs
  BY DEF Shaped, Fields
<1>2. Become(block_process(k, console_blocked))
  BY DEF Read
<1> HIDE DEF k
<1>3. Spares(k, block_process(k, console_blocked))
  <2>1. Spares(k, update_process_state(k, k.cur, console_blocked))
    BY <1>1, UpdateSpares
  <2> QED
    BY <2>1, NextSpares DEF block_process, Spares, Keeps
<1>4. kernel'.reads = k.reads
  BY <1>2, <1>3 DEF Become, Running, Shaped, Fields, Spares
<1> QED
  BY <1>1, <1>4 DEF Asked

\* The other handlers leave pending_reads alone.
LEMMA OthersSpare ==
  ASSUME kernel \in Kernel, Running',
         \/ Resume \/ Yield \/ Fork \/ ForkAgain \/ Exit
         \/ \E p \in Policies : SetSchedPolicy(p)
  PROVE  kernel'.reads = kernel.reads
<1>1. Shaped(kernel) /\ kernel.page0 \in [Slots -> BOOLEAN]
  BY KernelShaped
<1>2. ASSUME NEW k, Spares(kernel, k), Become(k) PROVE kernel'.reads = kernel.reads
  BY <1>2 DEF Become, Running, Spares, Shaped, Fields
<1>3. CASE Resume
  <2>1. Spares(kernel, [kernel EXCEPT !.pc = "user"])
    BY <1>1 DEF Spares, Keeps, Shaped, Fields
  <2>2. Spares(kernel, schedule([kernel EXCEPT !.pc = "user"]))
    BY <2>1, ScheduleSpares DEF Spares, Keeps
  <2> QED
    BY <1>2, <1>3, <2>2 DEF Resume
<1>4. CASE Yield
  <2>1. Spares(kernel, update_process_state_rr(kernel, kernel.cur, readyqueue))
    BY <1>1, UpdateSpares
  <2>2. Spares(kernel, sched_next_rr(update_process_state_rr(kernel, kernel.cur, readyqueue), "yield"))
    BY <2>1, NextSpares DEF Spares, Keeps
  <2> QED
    BY <1>2, <1>4, <2>2 DEF Yield
<1>5. CASE Fork
  BY <1>1, <1>5, ForkKeeps DEF Running
<1>6. CASE ForkAgain
  BY <1>1, <1>6, ForkAgainKeeps DEF Spares
<1>7. CASE Exit
  BY <1>1, <1>7, ExitKeeps DEF Running
<1>8. ASSUME NEW p, SetSchedPolicy(p) PROVE kernel'.reads = kernel.reads
  <2>1. Spares(kernel, [kernel EXCEPT !.policy = p])
    BY <1>1 DEF Spares, Keeps, Shaped, Fields
  <2> QED
    BY <1>2, <1>8, <2>1 DEF SetSchedPolicy
<1> QED
  BY <1>3, <1>4, <1>5, <1>6, <1>7, <1>8

LEMMA CountedOnTime ==
  ASSUME kernel.reads \in Requests, Counted
  PROVE  TickOnTime
<1> DEFINE reads == kernel.reads
           left == reads[1].left - 1
<1> SUFFICES ASSUME reads # <<>>
             PROVE  /\ Len(kernel'.reads) = Len(reads) - Served
                    /\ \A i \in 1..Len(kernel'.reads) :
                         /\ kernel'.reads[i].task = reads[i + Served].task
                         /\ DueTimes(kernel'.reads)[i] = DueTimes(reads)[i + Served] - 1
  BY DEF Counted, TickOnTime, Due
<1>1. /\ Len(reads) \in Nat \ {0} /\ 1 \in 1..Len(reads)
      /\ \A i \in 1..Len(reads) : reads[i] \in [task : Slots, left : Int]
  <2> DEFINE E == [task : Slots, left : Int]
  <2>1. reads \in Seq(E)
    BY DEF Requests
  <2> HIDE DEF E
  <2>2. Len(reads) \in Nat \ {0}
    BY <2>1
  <2> QED
    BY <2>2, ServiceTimes
<1>2. CASE left > 0
  <2> DEFINE E == [task : Slots, left : Int]
             e == [reads[1] EXCEPT !.left = left]
             rs == [reads EXCEPT ![1] = e]
  <2>1. kernel'.reads = rs
    BY <1>2 DEF Counted
  <2>2. e \in E /\ e.left = left /\ e.task = reads[1].task
    BY <1>1
  <2> HIDE DEF e
  <2>3. /\ rs \in Requests /\ Len(rs) = Len(reads) /\ rs[1] = e
        /\ \A i \in 2..Len(reads) : rs[i] = reads[i]
    <3>1. reads \in Seq(E)
      BY DEF Requests
    <3> HIDE DEF E
    <3>2. rs \in Seq(E) /\ Len(rs) = Len(reads) /\ rs[1] = e
          /\ \A i \in 2..Len(reads) : rs[i] = reads[i]
      BY <1>1, <2>2, <3>1
    <3> QED
      BY <3>2 DEF E, Requests
  <2>4. reads[1].left > 1
    BY <1>1, <1>2
  <2> HIDE DEF rs
  <2>5. /\ \A i \in 1..Len(reads) : DueTimes(rs)[i] = DueTimes(reads)[i] - 1
        /\ Served = 0
    BY <2>2, <2>3, <2>4, DueHead DEF Served, Due
  <2>6. ASSUME NEW i \in 1..Len(reads)
        PROVE  rs[i].task = reads[i].task /\ i + 0 = i
    BY <1>1, <2>2, <2>3
  <2> QED
    BY <1>1, <2>1, <2>3, <2>5, <2>6
<1>3. CASE ~ (left > 0)
  <2>1. kernel'.reads = Tail(reads)
    BY <1>3 DEF Counted
  <2>2. ~ (reads[1].left > 1)
    BY <1>1, <1>3
  <2>3. Served = 1
    BY <2>2, DueTail DEF Served, Due
  <2> QED
    BY <2>1, <2>2, <2>3, DueTail
<1> QED
  BY <1>2, <1>3

LEMMA AskedOnTime ==
  ASSUME kernel.reads \in Requests, kernel.cur \in Slots, NEW n \in Int, Asked(n)
  PROVE  OthersOnTime /\ ReadOnTime(n)
<1> DEFINE r == [task |-> kernel.cur, left |-> n]
           l == Len(kernel.reads)
<1>1. r \in [task : Slots, left : Int] /\ r.task = kernel.cur /\ r.left = n
  OBVIOUS
<1>2. l \in Nat /\ \A i \in 1..l : i \in 0..l
  BY ServiceTimes
<1> HIDE DEF r
<1>3. kernel'.reads = Append(kernel.reads, r)
  BY DEF Asked, r
<1>4. /\ Len(kernel'.reads) = l + 1
      /\ \A i \in 1..l : kernel'.reads[i] = kernel.reads[i]
      /\ kernel'.reads[l + 1] = r
      /\ \A i \in 0..l : DueTimes(kernel'.reads)[i] = DueTimes(kernel.reads)[i]
      /\ DueTimes(kernel'.reads)[l + 1] = DueTimes(kernel.reads)[l] + Service(r.left)
  <2> DEFINE rs == Append(kernel.reads, r)
  <2>1. /\ Len(rs) = l + 1
        /\ \A i \in 1..l : rs[i] = kernel.reads[i]
        /\ rs[l + 1] = r
        /\ \A i \in 0..l : DueTimes(rs)[i] = DueTimes(kernel.reads)[i]
        /\ DueTimes(rs)[l + 1] = DueTimes(kernel.reads)[l] + Service(r.left)
    BY <1>1, DueAppend
  <2> HIDE DEF l
  <2> QED
    BY <1>3, <2>1
<1> DEFINE now == DueTimes(kernel.reads)
           next == DueTimes(kernel'.reads)
<1>5. Due = now /\ Due' = next
  BY DEF Due
<1>6. OthersOnTime
  <2>1. Len(kernel'.reads) >= l
    BY <1>2, <1>4
  <2>2. \A i \in 1..l : next[i] = now[i]
    BY <1>2, <1>4
  <2> QED
    BY <1>4, <1>5, <2>1, <2>2 DEF OthersOnTime
<1>7. ReadOnTime(n)
  BY <1>1, <1>4, <1>5 DEF ReadOnTime
<1> QED
  BY <1>6, <1>7

\* The console's time is exact, whatever programs call and whichever policy is
\* installed when: sys_read of n bytes keeps its caller waiting for the ticks
\* already due to others and its own n (or one), those in which idle runs, in which
\* handlers are left half done or in which other requests come included.
THEOREM ReadsTakeTheirTurn == Spec => ReadsOnTime
<1>1. ASSUME TypeOK, [Next]_kernel
      PROVE  [Running' =>
                /\ Tick => TickOnTime
                /\ ~ Tick => OthersOnTime
                /\ \A n \in ReadTicks : Read(n) => ReadOnTime(n)]_kernel
  <2> SUFFICES ASSUME Next, Running'
               PROVE  /\ Tick => TickOnTime
                      /\ ~ Tick => OthersOnTime
                      /\ \A n \in ReadTicks : Read(n) => ReadOnTime(n)
    BY <1>1
  <2>1. /\ Shaped(kernel) /\ kernel.reads \in Requests /\ kernel.cur \in Slots
        /\ kernel \in Kernel
    BY <1>1, KernelShaped DEF TypeOK
  <2>2. Tick => TickOnTime
    BY <2>1, TickCounts, CountedOnTime
  <2>3. ASSUME NEW n \in ReadTicks, Read(n) PROVE OthersOnTime /\ ReadOnTime(n)
    BY <2>1, <2>3, ReadAsks, AskedOnTime, SizeAssumption
  <2>4. ~ Tick => OthersOnTime
    <3>1. SUFFICES ASSUME ~ Tick, ~ \E n \in ReadTicks : Read(n) PROVE OthersOnTime
      BY <2>3
    <3>2. kernel'.reads = kernel.reads
      BY <2>1, <3>1, OthersSpare DEF Next
    <3>3. Len(kernel.reads) \in Nat
      BY <2>1, ServiceTimes
    <3> QED
      BY <3>2, <3>3 DEF OthersOnTime, Due
  <2> QED
    BY <2>2, <2>3, <2>4
<1> QED
  BY <1>1, TypeCorrect, PTL DEF Spec, ReadsOnTime
=============================================================================
