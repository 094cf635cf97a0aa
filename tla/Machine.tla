------------------------------- MODULE Machine -------------------------------
(***************************************************************************)
(* Scheduler and memory together: every handler of ZeosSched with what it  *)
(* does to the frames and page tables of ProcMemory.                       *)
(*                                                                         *)
(* Alone, ZeosSched counts the free frames and remembers whether page 0 is *)
(* present, and ProcMemory lets slots be reused and processes switched in  *)
(* any order.  Here each decides for itself what a handler does; InStep    *)
(* says that they never part.                                              *)
(***************************************************************************)
EXTENDS ZeosSchedProps

CONSTANTS TOTAL_PAGES, NUM_PAG_KERNEL, NUM_PAG_CODE, GuardPages

VARIABLES phys_mem, pagusr_table, memory, tlb, procs, cur

memvars == <<phys_mem, pagusr_table, memory, tlb, procs, cur>>

\* (What the pages hold is left to ProcMemory.)
Mem == INSTANCE ProcMemory WITH Word <- {0}, Blank <- 0

ASSUME PagesAssumption == Mem!PageAssumption
ASSUME FrameAssumption ==
  DataFrames = Cardinality(Mem!Candidates) - NUM_PAG_CODE - NUM_PAG_DATA

\* A handler of the scheduler and what it does to the memory, unless it panics.
With(handler, effect) ==
  /\ handler
  /\ IF kernel'.panic = "no" THEN effect ELSE UNCHANGED memvars

\* The page table in use is that of the task a handler switches to.
Follow(t) == IF t = cur THEN UNCHANGED memvars ELSE Mem!Switch(t)

\* sys_fork into the slot at the head of freequeue; alloc_frame finds the frames
\* or does not.
ForkStep ==
  LET c == ListFirst(kernel.heap, freequeue)
  IN  With(Fork \/ ForkAgain, Mem!Fork(c) \/ Mem!ForkAgain(c))

ExitStep == With(Exit, Mem!Exit(kernel'.cur))

\* The other handlers change no memory but that they may switch.
TickStep == With(Tick, Follow(kernel'.cur))

ResumeStep == With(Resume, Follow(kernel'.cur))

YieldStep == With(Yield, Follow(kernel'.cur))

ReadStep == \E n \in ReadTicks : With(Read(n), Follow(kernel'.cur))

PolicyStep == \E p \in Policies : With(SetSchedPolicy(p), UNCHANGED memvars)

MachineInit == Init /\ Mem!Init

MachineNext ==
  \/ ForkStep
  \/ ExitStep
  \/ TickStep
  \/ ResumeStep
  \/ YieldStep
  \/ ReadStep
  \/ PolicyStep

MachineSpec == MachineInit /\ [][MachineNext]_<<kernel, memvars>>

-----------------------------------------------------------------------------
\* However slots are reused and frames run out: the page table in use is that of
\* current(), the living processes are those with frames, the frames the
\* scheduler counts as free are those the bytemap has left, and page 0 is where
\* list_del's stores through NULL are lost in exactly the spaces ZeosSched says.
InStep ==
  /\ cur = kernel.cur
  /\ procs = kernel.procs \ {Idle}
  /\ kernel.frames = Cardinality(Mem!FreeFrames(phys_mem))
  /\ \A t \in Slots : kernel.page0[t] <=> pagusr_table[t][0].present
=============================================================================
