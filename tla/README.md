# ZeOS in TLA+

ZeOS is a teaching kernel for x86: boot sector, a dozen system calls, processes
with paged memory, two scheduling policies and the statistics to compare them.
The repository also holds `SOCKETS/`, an exercise with a sequential, a forking
and a threaded TCP server, their client and a launcher of clients. This
directory specifies the parts of both that can go wrong in more than one step,
checks them with TLC and proves the main results with TLAPS.

`tlc -config X.cfg MCModule` checks a configuration, `tlapm M.tla` checks the
proofs of a module. `PROJECT.json` lists the runs, which lines of `src/` each
definition stands for, the mutants that show that each property can fail, the
hazards behind the properties, and the theorems.

## 1. Inventory

ZeOS has one CPU. Every handler runs with interrupts disabled (interrupt gates),
so its steps interleave with nothing but the time stamp counter: what is hard in
the kernel is not races but *order*, i.e. long sequences of legal calls, handlers
that are left in the middle by a context switch, and shared fields that two
policies maintain differently. The programs of `SOCKETS` are ordinary concurrent
programs with signals, streams and forks.

| Component | State | Operations | Hard parts | What makes it correct |
|---|---|---|---|---|
| Lists (`list.c`) | `next`/`prev` of heads and of the entries in the task structs | add, delete, first, empty | entries shared by three lists; NULL marks "on no list" | links agree both ways, an entry is on the list it should be |
| Scheduler (`sched.c`, `kernel-utils.S`, `libschedperf.a`) | three queues, `state`, `remaining_quantum`, saved stack pointers, installed policy | clock, block, unblock, yield, dispatch, switch | a switch in the middle of the clock handler; `state` maintained by one policy only; switch to oneself | each process in one place; first come first served; bounded waits; no starvation; every switch restores what was saved |
| System calls (`sys.c`) | slots, frames, PIDs, through the other parts | fork, exit, read, write, yield, get_stats, set_sched_policy | fork fails half way; slots are used again | nothing leaks; failed calls leave no trace |
| Interrupt entry (`entry.S`, `interrupt.c`) | none of its own | clock, keyboard, accounting on the way in and out | clock part that runs after a switch back | as the scheduler |
| Memory (`mm.c`) | bytemap of frames, page tables, TLB | alloc, free, map, unmap, copy on fork, switch of CR3 | temporary mappings; stale translations | frames in use = frames owned; private data |
| Statistics (`p_stats.c`, `sched.c`) | `struct stats` per slot, `elapsed_total_ticks` | update_stats, in-line charges, get_stats | a clock that goes on between two readings; two policies charge differently | no tick twice; waits = stays on queues; right slot found |
| User memory and screen (`utils.c`, `io.c`, `devices.c`) | cursor, screen, `localbuffer` | access_ok, copy_from_user, write, printc, printc_xy | pieces, words and bytes; newlines, ends of lines and of the screen; keys and the clock between writes | the whole buffer once and in order, each byte in its place |
| Boot (`bootsect.S`, `build.c`) | track, head, sector, segment, offset | read_it | track and segment boundaries in 16-bit arithmetic | image whole, in order, nothing overwritten |
| User programs (`libc.c`, `user.c`, `libauxjp.a`, `libuser.a`) | `errno` | the calls above | - | they are the environment of the kernel |
| Segments, tables, start (`hardware.c`, `system.c`) | descriptors, and all that `main` initialises | `main`, call by call | the order of the calls; paging turned on under running code; interrupts on before the program is entered | the rest finds what it expects, the program is where it is entered |
| Servers (`serverSocket.c`, `serverSocketThreads.c`, `socketMng.c`) | `forksAlive`, children, connections, descriptors | accept, fork, SIGCHLD handler | `++` against the handler; merged signals; descriptors never closed | never more children than the bound; accepted clients are served |
| Dialogue (`clientSocket.c`, `doService`) | two byte streams per connection | write, read, close | reads that return a part of a message; early close | no mutual wait; everybody ends |
| Launcher (`launchClient.c`) | `current_concurrent`, `max_concurrent` | fork, count, reap in handler and in main | the same race; two reapers | reports after the last client, always |
| Build files, measurements, patch | - | - | - | not part of the program's behaviour |

How they interact: `clock_handler` charges time (statistics), calls the
console's emulation, which may unblock a process and so call the scheduler, then
`schedule()`, which calls the installed policy; the policy moves descriptors
between lists and ends in `inner_task_switch`, which loads the page directory
(memory) and swaps stacks. System calls enter the same functions from the
other side. The launcher forks clients, each client talks to a server's service,
the server forks or starts a thread per client, and both parents count children
through SIGCHLD.

## 2. Modules

```
KernelList ---- ZeosSched ---- ZeosSchedProps ---- MCZeosSched
                                     |  implements
                                     v
                                 ProcQueues <--- implements --- Accounting --- MCAccounting
                                                                AccountingProofs
ZeosSchedProps \
                Machine                             MCMachine
ProcMemory     /   ZeosSchedProofs
ProcMemory --- implements ---> PrivateMemory        MCProcMemory
   ProcMemoryProofs
BootLoader ---- KernelStart                         MCKernelStart
                   |   (begins where BootLoader ends, and ends in the
                   |    initial states of ZeosSched and ProcMemory)
                BootProofs
UserWrite, UserWriteProofs                          MCUserWrite
SocketServer, SocketServerProofs                    MCSocketServer
Dialogue, DialogueProofs                            MCDialogue
ClientLauncher, ClientLauncherProofs                MCClientLauncher
```

**KernelList** is `list.c`: a heap of `next` and `prev` pointers, and one operator
per function. `InsertBetween` makes the four stores of `__list_add`; `ListDel`
clears the pointers of the entry, as this repository's `list_del` does.

**ZeosSched** composes lists, scheduler, system calls and clock. The whole kernel
is one record, each C function an operator from record to record with the
function's name, and each handler one action that composes them in the order of
the code (`Tick`, `Fork`, `ForkAgain`, `Exit`, `Yield`, `Read`,
`SetSchedPolicy`). When `unblock_process` switches away in the middle of the clock
handler, `saved` remembers "unblock" for the task that left, and the rest of that handler,
`schedule()`, is the action `Resume`, the only one possible when that task gets the
CPU back. `panic` names the ways in which the code leaves its own behaviour: a
store through NULL, a list head taken for a task, a stack restored that no longer holds
what was saved. `libschedperf.a` (FCFS, `sched_next`'s pointer, the
emulated console, `sys_read`, `sys_set_sched_policy`) has no source: it is
modelled from its object code and from the way `sched.c`, `interrupt.c` and
`user.c` use it, and marked external in the map.

**ZeosSchedProps** holds the properties about whole queues, and the refinement:
the descriptors on their lists implement **ProcQueues**, which is what the scheduler
promises without descriptors, pointers, quanta and policies.

**Accounting** is `struct stats`, every place that charges time (in
`p_stats.c`, `sched.c`, `interrupt.c`, `entry.S` and FCFS) and the PIDs by which
`sys_get_stats` looks. Processes move as in ProcQueues (a property of the module). Time is a
number of ticks; the calls of `get_ticks` in a handler are numbered, and the clock's edge
may fall before any of them. What is left out is whether a quantum is over, so a
tick under round robin may or may not preempt.

**ProcMemory** is the bytemap of frames, a page table per slot, the contents of
frames and the TLB. `Fork` does what `sys_fork` does to memory, the copy through temporary
mappings of the parent included; an access may use a translation that is still cached. It
implements **PrivateMemory**: every process has its own pages, a child starts with a copy.
The order of processes is arbitrary here; ZeosSched restricts it.

**Machine** puts the two together: each handler of ZeosSched in the same step as what
`sys_fork`, `sys_exit` and `inner_task_switch` do to frames, tables and CR3. Alone, ZeosSched
counts the free frames and remembers which spaces have page 0 (where `list_del`'s store through
NULL goes unnoticed), and ProcMemory lets slots be used in any order; in Machine each
half decides for itself what a call does, and `InStep` says they never part.

**UserWrite** is `write` from the stub of the user's library to the screen: file descriptor, length,
`access_ok`, the pieces that `copy_from_user` fills, and the console: the cursor and what each cell of the
screen shows. `printc` is modelled with its newlines, at offsets that the program chooses, and `printc_xy` of
the keyboard interrupt as it is: save the cursor, move it, print, put it back (a scan code behind the end
of `char_map` reads any byte, a newline too). The clock of `libzeos.a` writes to five cells of its own in the
first line. Bytes are named by their
offset in the user's buffer, so order, loss and repetition show, on the screen too: a cell holds an offset of
the latest text, or the key, a digit of the clock, or anything older. `TextOnScreen` compares with `Place`, which
says where a byte belongs by the newlines and ends of lines before it, and not by moving a cursor. A read of a page that
`access_ok` lets pass but is not present is the kernel's page fault (`Fault`).

**BootLoader** is `read_it` of `bootsect.S`, one BIOS call a step, in words of 16 bits: how many sectors
a call takes follows from the carry and zero flags of a sum that wraps (`count`, `next_place`), with the
sizes `build` writes into the image, images that are too long included. A BIOS call may
fail, unnoticed (`faults`).

**KernelStart** goes on from there: `main` of `system.c`, one call a step, from the image as
it lies in memory to the first instruction of the user program, with the tick that may come
between `enable_int` and `return_gate`, whose store at `USER_ESP + 12` hits the last word of the user's last
page (a program that fills all its pages loses it: `UserFits` asks for four bytes less). Its list operations are those of KernelList, its
frames those of `alloc_frame`, and `StartsAsSpecified` compares what it leaves
with `Init` of ZeosSched and `BootMemory` of ProcMemory: the initial states of the
other modules are checked, not postulated.

**SocketServer** is the forking servers: the main loop (with `forksAlive++` as
load and store), children, and a SIGCHLD that is pending or not. **Dialogue** is the client and
`doService` over two byte streams, for each of the three servers, with messages
that arrive whole or in pieces, closed connections, SIGPIPE, an `accept` without descriptors (it fails at once, client
or not, since it reserves the descriptor first; a threaded server then takes its clients along), and a
`pthread_create` that fails (it answers a positive number, the server tests for a negative one: the
connection stays without a thread, service "lost"). **ClientLauncher** is
`launchClient.c`, whose handler reaps all it finds while main reaps too.

Operators with a suffix and the comment "(A variant ...)" are plausible bugs; no
specification uses them. Each property has one that breaks it (`mutants`).

The module of each component has a `TypeOK`, proved in its proof module. Only that of ZeosSched is a
property of a run (of `Machine`): the others were checked with TLC before they were proved, and the runs are
spent on what relates the variables.

## 3. Runs

| Run | Instance | What it shows |
|---|---|---|
| `Sched` | 4 slots (idle and 3 processes), memory for all or for one less, quantum 2, both policies, `fork` (also failing), `exit`, `read` of 0 and 2 ticks | links, states, contexts, quantum, frames and queues agree after every handler; blocked readers are served in order; round robin shortens every wait with each tick; FCFS preempts nobody and leaves no ready process to idle; ready processes run, reads return; refinement of ProcQueues |
| `Machine` | 4 slots, frames for 2 processes and a rest, all calls, reads of 1 and 2, policy changes until somebody reads | scheduler and memory agree on current space, living processes, free frames and page 0; the one way to a corrupt context is `StaleOnlyIfAlone` |
| `ReadDuration` (violation) | 4 slots, `fork`, `read` of 2 | a tick counts for the first reader only |
| `Stats` | 3 slots, both policies, 2 ticks, 2 forks | ticks are counted once, waits are stays, `sys_get_stats` finds the living; refinement of ProcQueues |
| `Memory` | 4 processes over 8 free frames, 3 kernel pages (one a guard), 1 code and 2 data pages, 2 words | frames owned, fresh TLB, private data |
| `MemoryHoles` (violation) | the same | fork fills the holes that `mm.c` leaves |
| `Write` | buffer of 6 bytes, screen of 4 by 3, pages of 4, 11 lengths from -1 to 14, 6 addresses, 2 descriptors, 3 patterns of newlines | whole buffer in order, the screen shows it, no buffer of the program's own is refused |
| `Boot` | 9, 18 and 38 sectors a track, segments, memory and page array of their real size, 9 images (also too long), at most 1 failing call | image whole and in order unless a call failed, reads as long as track and 64 kB segment allow and no longer, boot sector safe; `main` leaves the initial states of the other modules; every image that fits starts |
| `ServerBound` | 5 clients, bound 2, 4 descriptors | never above the bound; only a stuck count makes a client wait for ever |
| `ServerStuck` (violation) | 4 clients, bound 2 | such a wait happens |
| `Talk` | 2 clients, 2 requests each, 3 servers, whole and broken messages, descriptors for 1, 2 or 3, threads created or not | no mutual wait, every client ends unless its connection has no thread; whole messages: strict alternation, all served (by a threaded server if there is a descriptor to spare) |
| `Launcher` | 4 clients, fork may fail | the count covers the living; the report comes, when all are reaped, unless a client never ends |

### Bounds, and why they suffice

* Slots. The real `NR_TASKS` is 10. Three processes and idle give a queue with a first, a
  middle and a last entry beside one that runs; the largest workload of `user.c` is three
  processes. What the invariants and step properties
  of this run and of `Machine` say is *proved* for any number.
* `Quantum = 2` separates "turn over" from "turn goes on" (real: 10); reads of 0 (served at
  the next tick) and 2. `NIorbs` is the number of processes (real: 10 for 10 slots),
  so `-EAGAIN` is unreachable (a process has one request at most).
* `DataFrames` is the memory for as many processes as slots or for one less in `Sched`, for
  fewer in `Machine`, so that forks fail with a free slot at hand, there with
  one frame taken. The real machine has 1024 pages,
  256 of the kernel, 8 code and 20 data pages a process.
* `MaxTime` and `MaxForks` bound the clock and the PIDs of Accounting. Both its time
  properties speak of one step and of the time since the last change of place, and two ticks
  allow a stay longer than the one tick of tolerance.
* In `Memory` the 8 frames that `alloc_frame` looks at and the code page leave room for three
  processes and a rest of one frame: a fork fails with none and with one frame taken.
* `Write`: lengths cover 0, 1, 2 and more pieces, every remainder of a word, and the screen's
  and a page's end (14 characters on a screen of 12), newlines at the begin, in the middle and next to the end of
  lines and pieces, from every column. `Boot` uses the real sizes, but for the pages above 1 MB: 336 in all, more than
  `main` touches (the frames it takes, the logical pages of a process) and with some left over.
* `MaxFaults`: one unnoticed failure is enough for what the properties exclude.
* In all runs: the invariants, step properties and refinements hold beyond the bounds by the theorems of
  section 4; only for liveness do the bounds limit what is known.
* Servers: with a bound of two, three clients compete and a signal can be lost for two
  children; five clients exhaust four descriptors.

### Fairness

* ZeosSched: `WF(Tick)` and `WF(Resume)`. The timer interrupts for ever, and a handler that
  has its CPU back goes on. No program is obliged to make a call. `ReadyRuns` is for
  round robin: under FCFS a program that never blocks keeps the CPU.
* SocketServer, Dialogue: the operating system schedules every process
  and thread and delivers pending signals, and a client makes a finite number of requests
  (`clientSocket.c` counts them), so each of main loop, handler and peer is weakly fair. What a peer may wait for
  is a guard of its actions in Dialogue.
* ClientLauncher: main and handler are weakly fair, the end of a client is not: a client may stay in its `read`
  for ever (`StuckOnlyByLostCount` and the lost threads of `ClientsEnd` show how). `Ends` says that the report comes
  unless some client stays alive for ever.
* KernelStart: the processor goes on: loader, jump to `main` and each call of `main` that does
  not panic are weakly fair. `EarlyTick` need not happen.
* The other specifications have no fairness and only safety properties.

Deadlock checking is off where the system may stop: a bounded clock, a
loaded image, clients that are done, servers that have ended, and kernels that
can panic.

## 4. Proofs

| Module | Theorems |
|---|---|
| ZeosSchedProofs | lists and types: `TypeCorrect`; handlers: `ListsStayLinked`, `NothingUnlinkedTwice`, `StatesStayRight`, `QuantumStaysInRange`, `ContextsStayFresh`, `FcfsKeepsTheCpu`, `IdleRunsAlone`; queues: `NobodyFallsOffTheQueues`, `BlockedAsRequested`, `OnlyLoneYieldIsStale`, `ListsImplementQueues`, `WaitIsBounded`; reads: `ReadsTakeTheirTurn`; with the memory: `HandlersStayInStep`, `MachineImplementsSched`, `MachineImplementsMemory`, `MachineOwnsFrames`, `QueuedProcessesHaveMemory`, `MemoryNeverRefuses` |
| AccountingProofs | of ProcQueues: `EachInOnePlace`, `NobodyIsOvertaken`; of Accounting: `AccountsFollowQueues`, `QueuesKeepOrder`, `StatsAreOfTheLiving`, `NoTickTwice`, `WaitsAreCounted`, `AccountsWithinTime` |
| ProcMemoryProofs | `TypeCorrect`, `FramesStayOwned`, `TlbStaysFresh`, `FramesConserved`, `MemoryIsPrivate` |
| UserWriteProofs | `BufferSentInOrder`, `OwnBuffersAreWritten`, `TextIsOnScreen`, `AnswersAreRight` |
| BootProofs | loader: `LoadedInOrder`, `BoundaryKept`, `LoadedWhole`, `BootSectorKept`, `LoaderTyped`; `main`: `BootedAsSpecified`, `StartLoads` |
| SocketServerProofs | `BoundIsKept`, `CountInRange` |
| DialogueProofs | `NeverBothWait`, `TheyAlternate`, `RequestsInRange` |
| ClientLauncherProofs | `CountCovers`, `CountsInRange` |

Each holds for every value of the constants that satisfies the modules' named assumptions: any number of
slots, frames, pages, clients, requests, bytes, rows and columns, every geometry and image. All invariants,
step properties and refinements of the passing runs are among them.

**Scheduler.** `LinksAgree` looks at a cell and its neighbours and is not inductive: a ring
that has come loose from its head satisfies it, and the next insertion would break it. The
invariant `SchedInv` says that there *are* sequences, one per head, of which the pointers
are the rings (`Rings`), and states everything else on them: the freequeue holds exactly the
slots without process, nobody is on two, the running process is on none, under round
robin `state` names the list, `console_blocked` is the list of pending requests in order, no
process waits with a context that was never saved. The list lemmas turn pointer stores
into `Append` and `Tail`; each C function gets a lemma about what it does to the sequences
(`QueueCurrent`, `DispatchNext`, `WakeFirst`, `Reschedule`), with weaker forms of
the invariant (`Core`, `Leaving`, `Settled`) for the middle of a handler; each action then
one lemma. The theorems assume `SteadyPolicy`: no program changes the policy, and under
FCFS none yields. The assumption is needed, see section 5. `ContextsStayFresh` also assumes
that nobody yields, because of `StaleOnlyIfAlone`. `SchedInv` also says that under FCFS idle has
the CPU only while the readyqueue is empty (`IdleServed`): it follows neither from the lists
nor from the state before, but from what each handler dispatches last. `FcfsKeepsTheCpu` is
about steps (`FcfsStep`) and needs only the types and that nobody yields; programs may change the
policy at any time.

**Queues of the scheduler.** `EveryTaskInItsQueue`, `WaitBound` and the refinement mapping speak of `Entries`,
which walks the pointers from a head. That the walk of a ring is the sequence of `SchedInv`
is an induction along the list, done as a least counterexample in a set of naturals
(`NatLessThanWellFounded`), since the library's induction rules take an operator. From then on the
theorems are about sequences. `ListsImplementQueues` takes each handler to one step of ProcQueues, or none.
`WaitIsBounded`: whoever stays ready keeps its place or comes one nearer, a place costs a full turn, and
either the current turn gets shorter or a place is won (`BoundByPlace`, `BoundShrinks`).

**Reads.** `DueTimes` adds up what the console has to count for a request and all before it. It is a recursive
function; that its equations have one solution is an induction over the requests, as in Boot. A tick takes one
off every entry, because the first request's share shrinks or goes, and nothing else touches them:
`ReadsTakeTheirTurn`, of any programs and policies, needs the types only. It is what remains true where section 5
refutes that every tick counts for every reader. It says when a read ends, in ticks, where
`ReadReturns` says that it does. TLC checked `ReadsOnTime`, with policy changes and yields, before it was proved.

**Memory.** `IInv` strengthens `FramesOwned` by what makes it inductive: the frames of living processes
are frames `alloc_frame` hands out and never those of the code, and the pages that `sys_fork` uses for its
temporary mappings are unmapped in every table. That no frame is code matters because `free_frame` never
frees the first frame after the kernel: it is the first code page's, so no data is ever in it. That
`alloc_frame`'s successive calls find different frames is a fact about ranks in a finite set: the map
from a frame to the number of free frames below it is injective into as many numbers, hence onto
(`EveryRank`). With `TlbFresh` an access has one translation only, a fork reads its parent's frames and
writes its child's (`ForkEffect`), and every step is one of PrivateMemory or leaves the image alone. The
constants are assumed to leave room for the boot process and its temporary pages (`PageAssumption`).
`FramesConserved` counts: a fork takes and an exit gives back as many frames as there are data pages, because
the frames a fork takes are different ones.

**Machine.** `MInv` is `InStep`, the memory's `IInv` and the shape of the kernel record. Each handler is, for
the memory, one of five things: nothing, a switch, a fork with frames, one without, an exit
(`StepOfMachine`); the scheduler's `frames >= NUM_PAG_DATA` and `alloc_frame`'s search agree because
`FramesConserved`'s lemmas count the frames (`SameVerdict`). `InStep` needs no `SteadyPolicy`: whatever programs do to
the lists, and even if a handler panics, the two halves agree. `MachineImplementsSched` and
`MachineImplementsMemory` carry the theorems of both modules over to their composition;
`QueuedProcessesHaveMemory` needs both at once, and `SteadyPolicy` for the lists. Since Machine is a
conjunction, it could leave out handlers the memory has no step for, and everything shown of it would be
shown of less. `MemoryNeverRefuses` rules that out: whatever the scheduler does in a reachable state, the guards of the
memory's action hold (`Allowed`, which states those guards rather than `ENABLED`). The assumptions are
ProcMemory's and that `DataFrames` is what code and first process leave of the frames (`FrameAssumption`).

**Statistics.** ProcQueues keeps each process in one place (`OrderInv`), and appends are all that
puts one behind another. In Accounting, `QInv` adds the freequeue (the slots of nobody, each once), which
makes every handler a step of ProcQueues. `PidInv`: identifiers are handed out in
ascending order, so those of the living differ, and free slots have none unless a fork has failed.
`StatsInv` keeps `elapsed` behind the clock, and `Good` follows the accounts through a handler: at each numbered
reading of the clock the interval begins no later than the clock stands, and a tick is missing only when
the edge has come. `WaitInv` says that whoever waits was last charged when it came to its queue; the charge when it
leaves is therefore the stay, less or plus the tick of the edge. `AccountsWithinTime` adds `Sound` to what `Good` follows
through a handler, at the place where an interval is charged: no counter below zero, and together no more than
`elapsed`. The code's counters are unsigned longs, so a negative one would be a wrapped one.

**write.** `CopyInv` relates registers, call and output in the middle of a copy; `SentInOrder`
and `OwnBufferWritten` are part of it, since the next piece continues what has been sent. The rest is
arithmetic of pages: a buffer that lies in the program's pages is one whose first and last page do
(`SpaceAssumption`: the address space does not end with the program).
For the screen, `PlaceNext` says how the place of a byte follows from that of the one before (the newlines and
ends of lines before it are counted as a finite set), `PrintText` that `printc` keeps the screen in step with it, and an
induction along a piece that `sys_write_console` does; key and clock leave the cursor and all other cells (`Overdrawn`).
`AnswersAreRight` needs that a call under way is one that passed the checks.

**Boot.** In the loader `IInv` says that the counters are in range, the next place in memory is the next sector
of the disk less one (`InStep`), and all before it is in place while no call has failed. `CountFits` takes the sum of
16 bits apart: because a track has fewer than 128 sectors, the shift loses nothing, the carry says that the rest of the
track goes beyond the segment, and since a segment ends at a multiple of 512 (`Aligned`), the rest of it is whole sectors.
`LoadedWhole` assumes `SmallMemory`: the size in paragraphs fits in 16 bits. For `main`, `Stage(s, n)` gives the
memory, task array and registers that the first n calls leave, in closed form, and each call takes stage
n to n + 1. The two loops (of `init_sched` over the slots, of `set_user_pages` over the pages) are recursive functions:
a closed form is shown to solve their equations and, by induction over the naturals, to be the only solution.
A tick before `return_gate` and a panic touch nothing a stage speaks of. The assumptions are those
that Machine's halves make (`StartAssumption`).

**Server.** Signals merge and a decrement may be overwritten, but both errors only raise the
count (`CountInRange` bounds it from above by the children ever started, since only main adds to it): the invariant `Covered` says that the children at work are at most `forksAlive`
plus what main is about to add. A second fact is that one client at a time is
accepted and not yet served.

**Launcher.** `CountCoversAlive` is lost when the handler takes off the count a client that has ended long ago.
The invariant counts those still to be reaped, alive or not, and what main has loaded and
not stored. `CountsInRange` bounds the counters from above by the clients launched so far (`Bounded`) and from below by the
same invariant: it puts a number of clients below the count, but for the one main is counting, hence -1.

**Dialogue.** Per connection: a client that waits has something on the way as long as the service reads or
is to come (`Flow`), and with whole messages what is on the way is nothing, the request or the answer
(`Exchange`). A step of one connection leaves the others alone but for services it ends (`Aside`).

Only model-checked: liveness, which needs fairness and `ENABLED` and is out of the prover's reach.
These are `ReadyRuns` and `ReadReturns` of the scheduler, `Starts` of the boot, `StuckOnlyByLostCount` of the
servers, `ClientsEnd` and `AllServed` of the dialogue and `Ends` of the launcher.

## 5. Where the code departs from what it says

Three disagreements are runs:

* **`ReadDuration`.** `ScheduleAnalysis.txt` counts on `read(0, buff, n)` blocking for `n` ticks. The console
  counts down one request at a time, so that of several readers each waits for those before it, too.
* **`MemoryHoles`.** `mm.c` leaves page 0 and the pages round the task array invalid on
  purpose; `sys_fork` maps all pages of the kernel in the child. So only the first process faults on
  a NULL pointer.
* **`ServerStuck`.** A bounded server whose count is too high spins for ever with an accepted
  client: children that end while SIGCHLD is pending raise one signal, which counts one of them.
  (`SOCKETS/Discussion.txt` reports an unexplained slow outlier at 40 clients of
  the 40-bounded server, where such a wait would show.)

Others showed while modelling and are stated as the conditions of properties that hold:

* A process that yields with nobody else ready switches to itself; the new stack pointer is
  read before the current one is saved, so it restores an older context (`StaleOnlyIfAlone`,
  and the assumption of `ContextsStayFresh`).
* `sys_yield` uses the round-robin functions under either policy. FCFS does not maintain `state`, so
  after a read under FCFS a yield may unlink a process that is on no list; and a process that blocks
  under FCFS and wakes under round robin is queued without being unlinked. (`SteadyPolicy` in the
  proofs; in `MCMachine` the policy stays once somebody has read. without `~ hasRead` in `MCNext`
  the run fails.)
* A failed fork leaves its parent's PID in the free slot, and `sys_get_stats` takes the first slot
  with the PID it is asked for (`~ forkfailed` in `StatsOfTheLiving`).
* `pthread_create` is retried while its answer is negative, but errors are positive: a thread that could not
  be started leaves an open connection that nobody serves (`ClientsEnd`).
* `build` cuts the size of the image to 16 bits and compares it with nothing: an image too long is loaded
  over the running boot sector or in part (`Fits` in `BootSectorSafe`, `SystemLoaded` and `Starts`), and a user
  program too long for its pages makes `copy_data` fault (`UserFits`).
* A failing BIOS read is not noticed (`faults = 0` in `SectorsInPlace`, `SystemLoaded`).
* The in-line charge of `block_process` is marked "not necessary lines(?)"; under FCFS it is
  needed: without it `WaitsCounted` fails.
* A threaded server with just as many descriptors as clients calls `accept` once more, which fails at once: it ends and
  takes the services of both clients along (`AllServed` asks for a descriptor to spare).
* `MAX CONCURRENT CLIENTS` of the launcher may be more or less than there were: the maximum is
  read off a count that a handler may lower before main has raised it, and whose decrement main may
  overwrite. `CountCoversAlive` is what holds.
* A client that closes with an answer to come may end a threaded or sequential server by
  SIGPIPE; the conclusion of `AllServed` needs whole messages.

## 6. Not modelled

`printk`, ports, the keyboard's character table, `itoa`, `perror` and the library's other stubs; `getpid` and
`gettime`, which return a variable; the `rw` and `user` bits that `set_ss_pag` sets (no property of ours depends on
them); what `page_fault_routine` prints; `set_quantum` (no program can reach it); `copy_to_user` (the loop
of `copy_from_user`); the dispatch in `entry.S`, a bounds check and an indexed call; the contents of
descriptors and registers, of which KernelStart keeps whether they are set; the moves, A20 and the interrupt
controllers in the boot sector, which are straight-line code; the linker scripts and Makefiles; sockets'
options and addresses; the code of `libschedperf.a` that draws statistics.

## 7. Plan

Done, the most important behaviour first: lists and scheduler with its
abstract queues, memory with its abstract images, servers, boot loader,
statistics, write, dialogue, launcher; then scheduler and memory together, the start of
the kernel, and the proofs of all invariants, step properties and refinements that the runs check.

Next, the model:

1. `get_stats` with `access_ok` and `copy_to_user` as a call beside `write`; the error paths of `read`.
2. A launcher, its clients and a server in one module: what a bound of the server does to the launcher's report.
3. The dispatch of `entry.S` with the table of calls.

Then, the proofs:

1. Fewer assumptions in `SteadyPolicy`: policy changes from round robin to FCFS while nobody has read.
