-------------------------- MODULE ProcMemoryProofs --------------------------
(***************************************************************************)
(* The memory management for any number of slots and any memory: frames    *)
(* are neither leaked nor given out twice, the TLB is never stale, and so  *)
(* the processes have the private memory of PrivateMemory.                 *)
(***************************************************************************)
EXTENDS ProcMemory, FiniteSetTheorems, TLAPS

\* The frames of the code pages, the first of which is the frame that
\* free_frame never frees.
CodeFrames == {BootFrame(p) : p \in CodePages}

\* The frame under page p of slot t.
Under(t, p) == pagusr_table[t][p].frame

\* TlbFresh holds because a table is changed only while the CPU caches nothing
\* of it, and FramesOwned because no process has a frame of the code.
Tables ==
  /\ cur \in procs \cup {Idle}
  /\ \A t \in Slots, q \in TempPages : pagusr_table[t][q] = NoEntry
  /\ \A t \in procs, p \in DataPages :
       /\ pagusr_table[t][p].present
       /\ Under(t, p) \in Candidates \ CodeFrames

\* FramesOwned, frame by frame.
Owns ==
  /\ \A f \in Candidates :
       phys_mem[f] = "USED" <=>
         f \in CodeFrames \/ \E t \in procs, p \in DataPages : Under(t, p) = f
  /\ \A t, u \in procs, p, q \in DataPages : Under(t, p) = Under(u, q) => t = u /\ p = q

IInv == TypeOK /\ Tables /\ Owns /\ TlbFresh

-----------------------------------------------------------------------------
\* The constants and the pages, as the leaves below need them.
LEMMA Layout ==
  /\ NUM_PAG_KERNEL \in Nat /\ NUM_PAG_CODE \in Nat \ {0} /\ NUM_PAG_DATA \in Nat \ {0}
  /\ TOTAL_PAGES \in Nat
  /\ DataPages \subseteq Page /\ TempPages \subseteq Page
  /\ CodePages \subseteq Page /\ KernelPages \subseteq Page
  /\ DataPages \cap (TempPages \cup CodePages \cup KernelPages) = {}
  /\ TempPages \cap (CodePages \cup KernelPages) = {}
  /\ CodePages \cap KernelPages = {}
BY PageAssumption
   DEF DataPages, TempPages, CodePages, KernelPages, Page, PAG_LOG_INIT_DATA,
       PAG_LOG_INIT_CODE

\* Boot gives task 1 different frames, of those alloc_frame looks at.
LEMMA BootFrames ==
  /\ \A p \in CodePages \cup DataPages : BootFrame(p) \in Candidates
  /\ \A p, q \in CodePages \cup DataPages : BootFrame(p) = BootFrame(q) => p = q
  /\ NUM_PAG_KERNEL \in CodeFrames
<1>1. \A p \in CodePages \cup DataPages :
        /\ p - PAG_LOG_INIT_CODE \in 0..(NUM_PAG_CODE + NUM_PAG_DATA - 1)
        /\ p \in Int
  BY Layout DEF CodePages, DataPages, PAG_LOG_INIT_DATA, PAG_LOG_INIT_CODE
<1>2. ASSUME NEW n \in 0..(NUM_PAG_CODE + NUM_PAG_DATA - 1)
      PROVE  NUM_PAG_KERNEL + 2 * n \in Candidates
  <2>1. NUM_PAG_KERNEL + 2 * n \in Page /\ NUM_PAG_KERNEL + 2 * n >= NUM_PAG_KERNEL
    BY Layout, PageAssumption DEF Page
  <2>2. (NUM_PAG_KERNEL + 2 * n) - NUM_PAG_KERNEL = 2 * n
    BY Layout
  <2>3. (2 * n) % 2 = 0
    BY Layout
  <2> QED
    BY <2>1, <2>2, <2>3 DEF Candidates, Frame
<1>3. PAG_LOG_INIT_CODE \in CodePages /\ BootFrame(PAG_LOG_INIT_CODE) = NUM_PAG_KERNEL
  BY Layout DEF CodePages, BootFrame, PAG_LOG_INIT_DATA, PAG_LOG_INIT_CODE
<1>4. NUM_PAG_KERNEL \in CodeFrames
  BY <1>3 DEF CodeFrames
<1>5. \A p \in CodePages \cup DataPages : BootFrame(p) \in Candidates
  BY <1>1, <1>2 DEF BootFrame
<1>6. \A p, q \in CodePages \cup DataPages : BootFrame(p) = BootFrame(q) => p = q
  BY <1>1, Layout DEF BootFrame, PAG_LOG_INIT_CODE
<1> QED
  BY <1>4, <1>5, <1>6

-----------------------------------------------------------------------------
\* Sets of frames are finite sets of numbers.
LEMMA SomeFrames ==
  ASSUME NEW S \in SUBSET Candidates
  PROVE  IsFiniteSet(S) /\ Cardinality(S) \in Nat /\ S \subseteq Int
<1>1. IsFiniteSet(Page) /\ Page \subseteq Int
  BY Layout, FS_Interval DEF Page
<1>2. S \subseteq Page
  BY DEF Candidates, Frame
<1> QED
  BY <1>1, <1>2, FS_Subset, FS_CardinalityType

\* Of n free frames there is one with any number of free frames below it that is
\* less than n: alloc_frame finds the frames of a fork one after the other.
LEMMA EveryRank ==
  ASSUME NEW F \in SUBSET Candidates, NEW n \in 1..Cardinality(F)
  PROVE  \E f \in F : Cardinality({g \in F : g < f}) = n - 1
<1> DEFINE Below(f) == {g \in F : g < f}
           rank == [f \in F |-> Cardinality(Below(f))]
           T == 0..(Cardinality(F) - 1)
<1>1. IsFiniteSet(F) /\ Cardinality(F) \in Nat /\ F \subseteq Int
  BY SomeFrames
<1>2. ASSUME NEW f \in F
      PROVE  /\ IsFiniteSet(Below(f)) /\ Cardinality(Below(f)) \in T
  <2>1. Below(f) \in SUBSET (F \ {f})
    BY <1>1
  <2>2. IsFiniteSet(F \ {f}) /\ Cardinality(F \ {f}) = Cardinality(F) - 1
    BY <1>1, FS_RemoveElement
  <2>3. IsFiniteSet(Below(f)) /\ Cardinality(Below(f)) <= Cardinality(F) - 1
    BY <2>1, <2>2, FS_Subset
  <2>4. Cardinality(Below(f)) \in Nat
    BY <2>3, FS_CardinalityType
  <2> QED
    BY <1>1, <2>3, <2>4
<1>3. ASSUME NEW f \in F, NEW h \in F, f < h
      PROVE  rank[f] # rank[h]
  <2>1. f \in Int /\ h \in Int /\ \A g \in F : g \in Int
    BY <1>1
  <2>2. \A g \in F : g < f => g < h
    BY <1>3, <2>1
  <2>3. Below(f) \in SUBSET Below(h)
    BY <2>2
  <2>4. f \in Below(h) /\ f \notin Below(f)
    BY <1>1, <1>3
  <2>5. Cardinality(Below(h)) = Cardinality(Below(f)) => Below(h) = Below(f)
    BY <1>2, <2>3, FS_Subset
  <2>6. Cardinality(Below(h)) # Cardinality(Below(f))
    BY <2>4, <2>5
  <2> QED
    BY <2>6
<1>4. rank \in [F -> T]
  BY <1>2
<1> HIDE DEF rank
<1>5. \A f, h \in F : rank[f] = rank[h] => f = h
  BY <1>1, <1>3
<1>6. rank \in Injection(F, T)
  BY <1>4, <1>5 DEF Injection, IsInjective
<1>7. IsFiniteSet(T) /\ Cardinality(T) = Cardinality(F)
  <2>1. ASSUME NEW b \in Int, b >= -1
        PROVE  IsFiniteSet(0..b) /\ Cardinality(0..b) = b + 1
    BY <2>1, FS_Interval
  <2>2. Cardinality(F) - 1 \in Int /\ Cardinality(F) - 1 >= -1
    BY <1>1
  <2>3. IsFiniteSet(T) /\ Cardinality(T) = Cardinality(F) - 1 + 1
    BY <2>1, <2>2
  <2> HIDE DEF T
  <2> QED
    BY <1>1, <2>3
<1>8. rank \in Surjection(F, T)
  BY <1>6, <1>7, FS_Injection
<1>9. n - 1 \in T
  BY <1>1
<1>10. PICK f \in F : rank[f] = n - 1
  BY <1>8, <1>9 DEF Surjection
<1>11. Cardinality(Below(f)) = n - 1
  BY <1>10 DEF rank
<1> QED
  BY <1>11

\* alloc_frame takes the free frames in their order.
LEMMA AllocFrame ==
  ASSUME NEW pm, NEW n \in 1..Cardinality(FreeFrames(pm))
  PROVE  /\ alloc_frame(pm, n) \in FreeFrames(pm)
         /\ Cardinality({g \in FreeFrames(pm) : g < alloc_frame(pm, n)}) = n - 1
<1>1. FreeFrames(pm) \in SUBSET Candidates
  BY DEF FreeFrames
<1>2. \E f \in FreeFrames(pm) : Cardinality({g \in FreeFrames(pm) : g < f}) = n - 1
  BY <1>1, EveryRank
<1>3. ~ (n > Cardinality(FreeFrames(pm)))
  BY <1>1, SomeFrames
<1> DEFINE chosen == CHOOSE f \in FreeFrames(pm) :
                       Cardinality({g \in FreeFrames(pm) : g < f}) = n - 1
<1>4. alloc_frame(pm, n) = chosen
  BY <1>3 DEF alloc_frame
<1>5. chosen \in FreeFrames(pm) /\ Cardinality({g \in FreeFrames(pm) : g < chosen}) = n - 1
  BY <1>2
<1> QED
  BY <1>4, <1>5

\* A fork gets a free frame for each data page, and no frame twice.
LEMMA ForkFrames ==
  ASSUME enough_frames(phys_mem),
         NEW own, own = [p \in DataPages |-> alloc_frame(phys_mem, p - PAG_LOG_INIT_DATA + 1)]
  PROVE  /\ own \in [DataPages -> FreeFrames(phys_mem)]
         /\ \A p, q \in DataPages : own[p] = own[q] => p = q
<1> DEFINE n(p) == p - PAG_LOG_INIT_DATA + 1
           F == FreeFrames(phys_mem)
<1>1. F \in SUBSET Candidates
  BY DEF FreeFrames
<1>2. Cardinality(F) \in Nat
  BY <1>1, SomeFrames
<1>3. NUM_PAG_DATA <= Cardinality(F)
  BY <1>2, Layout DEF enough_frames, alloc_frame
<1>4. \A p \in DataPages : n(p) \in 1..Cardinality(F) /\ p \in Int
  BY <1>2, <1>3, Layout DEF DataPages, PAG_LOG_INIT_DATA, PAG_LOG_INIT_CODE
<1>5. \A p \in DataPages :
        /\ alloc_frame(phys_mem, n(p)) \in F
        /\ Cardinality({g \in F : g < alloc_frame(phys_mem, n(p))}) = n(p) - 1
  BY <1>4, AllocFrame
<1>6. PAG_LOG_INIT_DATA \in Int
  BY Layout DEF PAG_LOG_INIT_DATA, PAG_LOG_INIT_CODE
<1>7. ASSUME NEW p \in DataPages, NEW q \in DataPages,
             alloc_frame(phys_mem, n(p)) = alloc_frame(phys_mem, n(q))
      PROVE  p = q
  <2> DEFINE below(f) == Cardinality({g \in F : g < f})
  <2>1. /\ below(alloc_frame(phys_mem, n(p))) = n(p) - 1
        /\ below(alloc_frame(phys_mem, n(q))) = n(q) - 1
    BY <1>5
  <2>2. below(alloc_frame(phys_mem, n(p))) = below(alloc_frame(phys_mem, n(q)))
    BY <1>7
  <2>3. n(p) - 1 = n(q) - 1
    BY <2>1, <2>2
  <2>4. p \in Int /\ q \in Int
    BY <1>4
  <2> QED
    BY <1>6, <2>3, <2>4
<1> QED
  BY <1>5, <1>7

-----------------------------------------------------------------------------
\* The invariant says that the frames in use are those that are owned.
LEMMA OwnsFrames == IInv => FramesOwned
<1> SUFFICES ASSUME IInv PROVE FramesOwned
  OBVIOUS
<1>1. CodeFrames \subseteq Candidates
  BY BootFrames DEF CodeFrames
<1>2. \A t \in procs : Owned(t) = {Under(t, p) : p \in DataPages}
  BY DEF Owned, Under, get_frame
<1>3. \A t \in procs, p \in DataPages : Under(t, p) \in Candidates
  BY DEF IInv, Tables
<1>4. {f \in Candidates : phys_mem[f] = "USED"} =
        CodeFrames \cup UNION {Owned(t) : t \in procs}
  BY <1>1, <1>2, <1>3 DEF IInv, Owns
<1>5. \A t, u \in procs, p, q \in DataPages :
        get_frame(pagusr_table[t], p) = get_frame(pagusr_table[u], q) => t = u /\ p = q
  BY DEF IInv, Owns, Under, get_frame
<1> QED
  BY <1>4, <1>5 DEF FramesOwned, CodeFrames

\* The entry of a page that a process owns, and what an access to it may find.
LEMMA OneTranslation ==
  ASSUME IInv, cur # Idle
  PROVE  /\ cur \in procs /\ cur \in Slots
         /\ \A p \in DataPages : /\ pagusr_table[cur][p] = set_ss_pag(Under(cur, p))
                                 /\ Translations(p) = {Under(cur, p)}
         /\ \A q \in TempPages : tlb[q] = NotCached
<1>1. cur \in procs /\ cur \in Slots
  BY DEF IInv, Tables, TypeOK
<1>2. ASSUME NEW p \in DataPages
      PROVE  /\ pagusr_table[cur][p] = set_ss_pag(Under(cur, p))
             /\ Translations(p) = {Under(cur, p)}
  <2>1. p \in Page /\ pagusr_table[cur][p] \in Entry
    BY <1>1, Layout DEF IInv, TypeOK
  <2>2. pagusr_table[cur][p] = set_ss_pag(Under(cur, p)) /\ Under(cur, p) \in Frame
    BY <1>1, <2>1 DEF IInv, Tables, Under, Entry, set_ss_pag
  <2>3. \A f \in Frame : pagusr_table[cur][p] = set_ss_pag(f) => f = Under(cur, p)
    BY DEF set_ss_pag, Under
  <2>4. \A f \in Frame : tlb[p] = f => f = Under(cur, p)
    BY <2>1, <2>3, Layout DEF IInv, TlbFresh, NotCached, Frame, Page
  <2> QED
    BY <2>2, <2>3, <2>4 DEF Translations
<1>3. ASSUME NEW q \in TempPages
      PROVE  tlb[q] = NotCached
  <2>1. pagusr_table[cur][q] = NoEntry /\ q \in Page
    BY <1>1, Layout DEF IInv, Tables
  <2>2. NoEntry.present = FALSE /\ set_ss_pag(tlb[q]).present = TRUE
    BY DEF NoEntry, set_ss_pag
  <2>3. NoEntry # set_ss_pag(tlb[q])
    BY <2>2
  <2> QED
    BY <2>1, <2>3 DEF IInv, TlbFresh
<1> QED
  BY <1>1, <1>2, <1>3

-----------------------------------------------------------------------------
\* Boot gives task 1 its frames, and caches nothing.
LEMMA InitIInv == Init => IInv
<1> SUFFICES ASSUME Init PROVE IInv
  OBVIOUS
<1> USE DEF Init, BootMemory
<1>1. \A p \in CodePages \cup DataPages : BootFrame(p) \in Candidates
  BY BootFrames
<1>2. Candidates \subseteq Frame /\ KernelPages \subseteq Frame /\ 0 \in Frame
  BY Layout, PageAssumption DEF Candidates, Frame, KernelPages, Page
<1>3. \A t \in Slots : BootTable(t) \in [Page -> Entry]
  <2>1. \A f \in Frame : set_ss_pag(f) \in Entry /\ [frame |-> f, present |-> FALSE] \in Entry
    BY DEF set_ss_pag, Entry
  <2> QED
    BY <1>1, <1>2, <2>1, PageAssumption DEF BootTable, NoEntry
<1>4. Task1 \in Slots /\ Task1 # Idle
  BY SlotAssumption DEF Task1, Slots, Idle
<1>5. TypeOK
  BY <1>3, <1>4, PageAssumption DEF TypeOK, Flushed
<1>6. \A p \in DataPages : BootTable(Task1)[p] = set_ss_pag(BootFrame(p))
  BY Layout, PageAssumption DEF BootTable
<1>7. \A p \in DataPages : /\ Under(Task1, p) = BootFrame(p)
                           /\ pagusr_table[Task1][p].present
  <2>1. pagusr_table[Task1] = BootTable(Task1)
    BY <1>4
  <2>2. \A p \in DataPages : pagusr_table[Task1][p] = set_ss_pag(BootFrame(p))
    BY <1>6, <2>1
  <2>3. \A p \in DataPages : /\ set_ss_pag(BootFrame(p)).frame = BootFrame(p)
                             /\ set_ss_pag(BootFrame(p)).present = TRUE
    BY DEF set_ss_pag
  <2>4. \A p \in DataPages : /\ pagusr_table[Task1][p].frame = BootFrame(p)
                             /\ pagusr_table[Task1][p].present = TRUE
    BY <2>2, <2>3
  <2> QED
    BY <2>4 DEF Under
<1>8. \A p \in DataPages : BootFrame(p) \in Candidates \ CodeFrames
  BY <1>1, BootFrames, Layout DEF CodeFrames
<1>9. \A t \in Slots, q \in TempPages : pagusr_table[t][q] = NoEntry
  BY Layout, PageAssumption DEF BootTable
<1>10. Tables
  BY <1>4, <1>7, <1>8, <1>9 DEF Tables
<1>11. \A f \in Candidates : f \notin KernelPages
  BY Layout DEF Candidates, KernelPages, Frame, Page
<1>12. \A f \in Candidates :
         phys_mem[f] = "USED" <=>
           f \in CodeFrames \/ \E t \in procs, p \in DataPages : Under(t, p) = f
  BY <1>2, <1>7, <1>11 DEF CodeFrames
<1>13. Owns
  BY <1>7, <1>12, BootFrames DEF Owns
<1>14. TlbFresh
  BY DEF TlbFresh, Flushed
<1> QED
  BY <1>5, <1>10, <1>13, <1>14 DEF IInv

\* A store goes to the frame of its page.
LEMMA WriteIInv ==
  ASSUME IInv, NEW p \in DataPages, NEW w \in Word, UserWrite(p, w)
  PROVE  /\ IInv'
         /\ memory' = [memory EXCEPT ![Under(cur, p)] = w]
<1>1. PICK f \in Translations(p) : /\ memory' = [memory EXCEPT ![f] = w]
                                   /\ tlb' = [tlb EXCEPT ![p] = f]
  BY DEF UserWrite
<1>2. cur \in procs /\ cur \in Slots /\ f = Under(cur, p) /\ f \in Frame
  BY <1>1, OneTranslation DEF UserWrite, Translations
<1>3. p \in Page
  BY Layout
<1>4. UNCHANGED <<phys_mem, pagusr_table, procs, cur>>
  BY DEF UserWrite
<1>5. TypeOK'
  BY <1>1, <1>2, <1>3, <1>4 DEF IInv, TypeOK
<1>6. Tables' /\ Owns'
  BY <1>4 DEF IInv, Tables, Owns, Under
<1>7. pagusr_table[cur][p] = set_ss_pag(f)
  BY <1>2, OneTranslation DEF UserWrite
<1>8. TlbFresh'
  BY <1>1, <1>3, <1>4, <1>7 DEF IInv, TypeOK, TlbFresh
<1> QED
  BY <1>1, <1>2, <1>5, <1>6, <1>8 DEF IInv

\* Loading CR3 leaves nothing that could be stale.
LEMMA SwitchIInv ==
  ASSUME IInv, NEW t \in Slots, Switch(t)
  PROVE  IInv'
<1>1. TypeOK'
  BY DEF IInv, TypeOK, Switch, task_switch, Flushed
<1>2. Tables' /\ Owns' /\ TlbFresh'
  BY DEF IInv, Tables, Owns, TlbFresh, Under, Switch, task_switch, Flushed
<1> QED
  BY <1>1, <1>2 DEF IInv

\* A failing fork gives back what it took: the frame of the first code page, which
\* free_frame would keep, is never among it.
LEMMA ForkAgainIInv ==
  ASSUME IInv, NEW c \in Slots, ForkAgain(c)
  PROVE  IInv' /\ phys_mem' = phys_mem
<1> DEFINE taken == FreeFrames(phys_mem)
           set == PAG_LOG_INIT_DATA..(PAG_LOG_INIT_DATA + Cardinality(taken) - 1)
<1>1. /\ c \notin procs \cup {Idle}
      /\ phys_mem' = free_frame(MarkUsed(phys_mem, taken), taken)
      /\ pagusr_table' = [pagusr_table EXCEPT ![c] = del_ss_pag(@, set)]
      /\ UNCHANGED <<memory, tlb, procs, cur>>
  BY DEF ForkAgain, give_back
<1> HIDE DEF set
<1>2. phys_mem[NUM_PAG_KERNEL] = "USED"
  BY BootFrames DEF IInv, Owns, CodeFrames
<1>3. taken \subseteq Candidates /\ \A f \in taken : phys_mem[f] = "FREE"
  BY DEF FreeFrames
<1>4. \A f \in taken : f > NUM_PAG_KERNEL
  BY <1>2, <1>3, Layout DEF Candidates, Frame, Page
<1>5. phys_mem' = phys_mem
  BY <1>1, <1>3, <1>4 DEF free_frame, MarkUsed, IInv, TypeOK
<1>6. \A t \in Slots \ {c} : pagusr_table'[t] = pagusr_table[t]
  BY <1>1 DEF IInv, TypeOK
<1>7. pagusr_table'[c] = del_ss_pag(pagusr_table[c], set)
  BY <1>1 DEF IInv, TypeOK
<1>8. NoEntry \in Entry
  BY Layout, PageAssumption DEF NoEntry, Entry, Frame, Page
<1>9. TypeOK'
  BY <1>1, <1>5, <1>8 DEF IInv, TypeOK, del_ss_pag
<1>10. procs \subseteq Slots \ {c} /\ cur \in Slots \ {c}
  BY <1>1 DEF IInv, TypeOK, Tables
<1>11. \A q \in TempPages : pagusr_table'[c][q] = NoEntry
  BY <1>7, Layout DEF IInv, Tables, del_ss_pag
<1>12. \A t \in procs : pagusr_table'[t] = pagusr_table[t]
  BY <1>6, <1>10
<1>13. Tables'
  BY <1>1, <1>6, <1>11, <1>12 DEF IInv, Tables, Under
<1>14. Owns'
  BY <1>1, <1>5, <1>12 DEF IInv, Owns, Under
<1>15. TlbFresh'
  BY <1>1, <1>6, <1>10 DEF IInv, TlbFresh
<1> QED
  BY <1>5, <1>9, <1>13, <1>14, <1>15 DEF IInv

-----------------------------------------------------------------------------
\* sys_fork, once it has the frames: the copy reads the parent's pages and
\* writes the child's, whatever of them the CPU has cached.
LEMMA ForkEffect ==
  ASSUME IInv, NEW c \in Slots, Fork(c)
  PROVE  \E own \in [DataPages -> FreeFrames(phys_mem)] :
           /\ \A p, q \in DataPages : own[p] = own[q] => p = q
           /\ phys_mem' = MarkUsed(phys_mem, {own[p] : p \in DataPages})
           /\ pagusr_table' = [pagusr_table EXCEPT ![c] = ChildTable(c, own),
                                                  ![cur] = del_ss_pag(@, TempPages)]
           /\ memory' \in [Frame -> Word]
           /\ \A p \in DataPages : memory'[own[p]] = memory[Under(cur, p)]
           /\ \A f \in Frame : (\A p \in DataPages : own[p] # f) => memory'[f] = memory[f]
           /\ tlb' = Flushed
<1> DEFINE own == [p \in DataPages |-> alloc_frame(phys_mem, p - PAG_LOG_INIT_DATA + 1)]
<1>1. /\ cur # Idle
      /\ enough_frames(phys_mem)
      /\ phys_mem' = MarkUsed(phys_mem, {own[p] : p \in DataPages})
      /\ pagusr_table' = [pagusr_table EXCEPT ![c] = ChildTable(c, own),
                                             ![cur] = del_ss_pag(@, TempPages)]
      /\ CopyData(own)
  BY DEF Fork
<1>2. /\ own \in [DataPages -> FreeFrames(phys_mem)]
      /\ \A p, q \in DataPages : own[p] = own[q] => p = q
  BY <1>1, ForkFrames
<1> HIDE DEF own
<1>3. FreeFrames(phys_mem) \subseteq Frame
  BY DEF FreeFrames, Candidates
<1>4. \E from, to :
        /\ \A p \in DataPages : from[p] \in Translations(p)
        /\ \A p \in DataPages :
             to[p] \in {own[p]} \cup ({tlb[p + NUM_PAG_DATA]} \ {NotCached})
        /\ memory' = [f \in Frame |->
                        IF \E p \in DataPages : to[p] = f
                        THEN memory[from[CHOOSE p \in DataPages : to[p] = f]]
                        ELSE memory[f]]
        /\ tlb' = Flushed
  BY <1>1 DEF CopyData, flush_after_copy
<1>5. PICK from, to :
        /\ \A p \in DataPages : from[p] \in Translations(p)
        /\ \A p \in DataPages :
             to[p] \in {own[p]} \cup ({tlb[p + NUM_PAG_DATA]} \ {NotCached})
        /\ memory' = [f \in Frame |->
                        IF \E p \in DataPages : to[p] = f
                        THEN memory[from[CHOOSE p \in DataPages : to[p] = f]]
                        ELSE memory[f]]
        /\ tlb' = Flushed
  BY <1>4
<1>6. \A p \in DataPages : from[p] = Under(cur, p) /\ Under(cur, p) \in Frame
  BY <1>1, <1>5, OneTranslation DEF IInv, Tables, Candidates
<1>7. \A p \in DataPages : p + NUM_PAG_DATA \in TempPages
  BY DEF TempPages
<1>8. \A p \in DataPages : to[p] = own[p]
  BY <1>1, <1>5, <1>7, OneTranslation
<1>9. ASSUME NEW f \in Frame, NEW p \in DataPages, own[p] = f
      PROVE  memory'[f] = memory[Under(cur, p)]
  <2>1. to[p] = f
    BY <1>8, <1>9
  <2>2. \A q \in DataPages : to[q] = f => q = p
    BY <1>2, <1>8, <1>9
  <2>3. (CHOOSE q \in DataPages : to[q] = f) = p
    BY <2>1, <2>2
  <2>4. memory'[f] = memory[from[CHOOSE q \in DataPages : to[q] = f]]
    BY <1>5, <2>1
  <2> QED
    BY <1>6, <2>3, <2>4
<1>10. \A p \in DataPages : memory'[own[p]] = memory[Under(cur, p)]
  BY <1>2, <1>3, <1>9
<1>11. \A f \in Frame : (\A p \in DataPages : own[p] # f) => memory'[f] = memory[f]
  BY <1>5, <1>8
<1>12. memory' \in [Frame -> Word]
  <2>1. \A f \in Frame : memory'[f] \in Word
    BY <1>6, <1>9, <1>11 DEF IInv, TypeOK
  <2>2. memory' = [f \in Frame |-> memory'[f]]
    BY <1>5
  <2> QED
    BY <2>1, <2>2
<1> QED
  BY <1>1, <1>2, <1>5, <1>10, <1>11, <1>12

\* The child's frames are free ones, its parent keeps its own.
LEMMA ForkIInv ==
  ASSUME IInv, NEW c \in Slots, Fork(c)
  PROVE  IInv'
<1>1. /\ cur # Idle /\ c \notin procs \cup {Idle}
      /\ procs' = procs \cup {c} /\ cur' = cur
  BY DEF Fork
<1>2. PICK own \in [DataPages -> FreeFrames(phys_mem)] :
        /\ \A p, q \in DataPages : own[p] = own[q] => p = q
        /\ phys_mem' = MarkUsed(phys_mem, {own[p] : p \in DataPages})
        /\ pagusr_table' = [pagusr_table EXCEPT ![c] = ChildTable(c, own),
                                               ![cur] = del_ss_pag(@, TempPages)]
        /\ memory' \in [Frame -> Word]
        /\ tlb' = Flushed
  BY ForkEffect
<1>3. cur \in procs /\ cur \in Slots /\ cur # c
  BY <1>1, OneTranslation
<1>4. \A p \in DataPages : own[p] \in Candidates /\ phys_mem[own[p]] = "FREE"
  BY <1>2 DEF FreeFrames
<1>5. /\ pagusr_table'[c] = ChildTable(c, own)
      /\ pagusr_table'[cur] = del_ss_pag(pagusr_table[cur], TempPages)
      /\ \A t \in Slots \ {c, cur} : pagusr_table'[t] = pagusr_table[t]
  BY <1>2, <1>3 DEF IInv, TypeOK
<1>6. NoEntry \in Entry /\ \A f \in Frame : set_ss_pag(f) \in Entry
  BY Layout, PageAssumption DEF NoEntry, set_ss_pag, Entry, Frame, Page
<1>7. ChildTable(c, own) \in [Page -> Entry]
  <2>1. pagusr_table[c] \in [Page -> Entry] /\ pagusr_table[cur] \in [Page -> Entry]
    BY <1>3 DEF IInv, TypeOK
  <2>2. \A p \in Page : get_frame(pagusr_table[cur], p) \in Frame
    BY <2>1 DEF get_frame, Entry
  <2>3. \A p \in DataPages : own[p] \in Frame
    BY <1>4 DEF Candidates
  <2> QED
    BY <1>6, <2>1, <2>2, <2>3 DEF ChildTable
<1>8. TypeOK'
  <2>1. pagusr_table' \in [Slots -> [Page -> Entry]]
    BY <1>2, <1>3, <1>6, <1>7 DEF IInv, TypeOK, del_ss_pag
  <2>2. phys_mem' \in [Frame -> {"FREE", "USED"}]
    BY <1>2 DEF IInv, TypeOK, MarkUsed
  <2> QED
    BY <1>1, <1>2, <2>1, <2>2 DEF IInv, TypeOK, Flushed
<1>9. \A t \in procs, p \in DataPages : pagusr_table'[t][p] = pagusr_table[t][p]
  <2>1. \A p \in DataPages : pagusr_table'[cur][p] = pagusr_table[cur][p]
    BY <1>5, Layout DEF del_ss_pag
  <2> QED
    BY <1>1, <1>5, <2>1 DEF IInv, TypeOK
<1>10. \A p \in DataPages : pagusr_table'[c][p] = set_ss_pag(own[p])
  BY <1>5, Layout DEF ChildTable
<1>11. \A t \in procs, p \in DataPages : Under(t, p)' = Under(t, p)
  BY <1>9 DEF Under
<1>12. \A p \in DataPages : Under(c, p)' = own[p] /\ pagusr_table'[c][p].present
  <2>1. \A f : set_ss_pag(f).frame = f /\ set_ss_pag(f).present = TRUE
    BY DEF set_ss_pag
  <2>2. \A p \in DataPages : /\ pagusr_table'[c][p].frame = own[p]
                             /\ pagusr_table'[c][p].present = TRUE
    BY <1>10, <2>1
  <2> QED
    BY <2>2 DEF Under
<1>13. \A p \in DataPages : own[p] \notin CodeFrames
  BY <1>4, BootFrames DEF IInv, Owns
<1>14. \A t \in procs, p, q \in DataPages : own[p] # Under(t, q)
  BY <1>4 DEF IInv, Owns
<1>15. Tables'
  <2>1. \A t \in Slots, q \in TempPages : pagusr_table'[t][q] = NoEntry
    <3>1. \A q \in TempPages : pagusr_table'[c][q] = NoEntry
      BY <1>5, Layout DEF ChildTable, IInv, Tables
    <3>2. \A q \in TempPages : pagusr_table'[cur][q] = NoEntry
      BY <1>5, Layout DEF del_ss_pag
    <3> QED
      BY <1>5, <3>1, <3>2 DEF IInv, Tables
  <2>2. \A t \in procs', p \in DataPages :
          pagusr_table'[t][p].present /\ Under(t, p)' \in Candidates \ CodeFrames
    BY <1>1, <1>4, <1>9, <1>11, <1>12, <1>13 DEF IInv, Tables
  <2>3. cur' \in procs' \cup {Idle}
    BY <1>1, <1>3
  <2> QED
    BY <2>1, <2>2, <2>3 DEF Tables
<1>16. Owns'
  <2>1. ASSUME NEW f \in Candidates
        PROVE  phys_mem'[f] = "USED" <=>
                 \/ f \in CodeFrames
                 \/ \E t \in procs', p \in DataPages : Under(t, p)' = f
    <3>1. f \in Frame
      BY DEF Candidates
    <3>2. phys_mem'[f] = "USED" <=>
            phys_mem[f] = "USED" \/ \E p \in DataPages : own[p] = f
      BY <1>2, <3>1 DEF MarkUsed
    <3>3. phys_mem[f] = "USED" <=>
            f \in CodeFrames \/ \E t \in procs, p \in DataPages : Under(t, p) = f
      BY DEF IInv, Owns
    <3> QED
      BY <1>1, <1>11, <1>12, <3>2, <3>3
  <2>2. \A t, u \in procs', p, q \in DataPages :
          Under(t, p)' = Under(u, q)' => t = u /\ p = q
    BY <1>1, <1>2, <1>11, <1>12, <1>14 DEF IInv, Owns
  <2> QED
    BY <2>1, <2>2 DEF Owns
<1>17. TlbFresh'
  BY <1>2 DEF TlbFresh, Flushed
<1> QED
  BY <1>8, <1>15, <1>16, <1>17 DEF IInv

\* An exit frees the frames of the process, all of them and no others.
LEMMA ExitIInv ==
  ASSUME IInv, NEW t \in Slots, Exit(t)
  PROVE  IInv'
<1> DEFINE freed == {get_frame(pagusr_table[cur], p) : p \in DataPages}
<1>1. /\ cur # Idle
      /\ t \in (procs \ {cur}) \cup {Idle}
      /\ phys_mem' = free_frame(phys_mem, freed)
      /\ pagusr_table' = [pagusr_table EXCEPT ![cur] = del_ss_pag(@, DataPages)]
      /\ procs' = procs \ {cur} /\ cur' = t /\ tlb' = Flushed /\ memory' = memory
  BY DEF Exit, task_switch
<1>2. cur \in procs /\ cur \in Slots
  BY <1>1, OneTranslation
<1>3. freed = {Under(cur, p) : p \in DataPages}
  BY DEF get_frame, Under
<1> HIDE DEF freed
<1>4. /\ pagusr_table'[cur] = del_ss_pag(pagusr_table[cur], DataPages)
      /\ \A u \in Slots \ {cur} : pagusr_table'[u] = pagusr_table[u]
  BY <1>1, <1>2 DEF IInv, TypeOK
<1>5. NoEntry \in Entry
  BY Layout, PageAssumption DEF NoEntry, Entry, Frame, Page
<1>6. TypeOK'
  BY <1>1, <1>2, <1>5 DEF IInv, TypeOK, del_ss_pag, free_frame, Flushed
<1>7. \A u \in procs' : pagusr_table'[u] = pagusr_table[u] /\ u \in procs /\ u # cur
  BY <1>1, <1>4 DEF IInv, TypeOK
<1>8. \A u \in procs', p \in DataPages : Under(u, p)' = Under(u, p)
  BY <1>7 DEF Under
<1>9. Tables'
  <2>1. \A u \in Slots, q \in TempPages : pagusr_table'[u][q] = NoEntry
    BY <1>4, Layout DEF IInv, Tables, del_ss_pag
  <2>2. \A u \in procs', p \in DataPages :
          pagusr_table'[u][p].present /\ Under(u, p)' \in Candidates \ CodeFrames
    BY <1>7, <1>8 DEF IInv, Tables
  <2>3. cur' \in procs' \cup {Idle}
    BY <1>1
  <2> QED
    BY <2>1, <2>2, <2>3 DEF Tables
<1>10. \A f \in freed : f > NUM_PAG_KERNEL /\ f \notin CodeFrames
  BY <1>2, <1>3, BootFrames, Layout DEF IInv, Tables, Candidates, Frame, Page
<1>11. Owns'
  <2>1. ASSUME NEW f \in Candidates
        PROVE  phys_mem'[f] = "USED" <=>
                 \/ f \in CodeFrames
                 \/ \E u \in procs', p \in DataPages : Under(u, p)' = f
    <3>1. f \in Frame
      BY DEF Candidates
    <3>2. phys_mem'[f] = "USED" <=> phys_mem[f] = "USED" /\ f \notin freed
      BY <1>1, <1>10, <3>1 DEF free_frame
    <3>3. phys_mem[f] = "USED" <=>
            f \in CodeFrames \/ \E u \in procs, p \in DataPages : Under(u, p) = f
      BY DEF IInv, Owns
    <3>4. f \in freed <=> \E p \in DataPages : Under(cur, p) = f
      BY <1>3
    <3>5. \A u \in procs', p \in DataPages : Under(u, p) = f => f \notin freed
      BY <1>2, <1>7, <3>4 DEF IInv, Owns
    <3> QED
      BY <1>1, <1>8, <1>10, <3>2, <3>3, <3>4, <3>5
  <2>2. \A u, v \in procs', p, q \in DataPages :
          Under(u, p)' = Under(v, q)' => u = v /\ p = q
    BY <1>7, <1>8 DEF IInv, Owns
  <2> QED
    BY <2>1, <2>2 DEF Owns
<1>12. TlbFresh'
  BY <1>1 DEF TlbFresh, Flushed
<1> QED
  BY <1>6, <1>9, <1>11, <1>12 DEF IInv

\* Every step keeps the invariant.
LEMMA NextIInv == IInv /\ [Next]_vars => IInv'
<1> SUFFICES ASSUME IInv, [Next]_vars PROVE IInv'
  OBVIOUS
<1>1. CASE UNCHANGED vars
  BY <1>1 DEF vars, IInv, TypeOK, Tables, Owns, TlbFresh, Under
<1>2. CASE \E p \in DataPages, w \in Word : UserWrite(p, w)
  BY <1>2, WriteIInv
<1>3. CASE \E t \in Slots : Switch(t)
  BY <1>3, SwitchIInv
<1>4. CASE \E c \in Slots : Fork(c)
  BY <1>4, ForkIInv
<1>5. CASE \E c \in Slots : ForkAgain(c)
  BY <1>5, ForkAgainIInv
<1>6. CASE \E t \in Slots : Exit(t)
  BY <1>6, ExitIInv
<1> QED
  BY <1>1, <1>2, <1>3, <1>4, <1>5, <1>6 DEF Next

\* The invariant holds throughout.
LEMMA IInvHolds == Spec => []IInv
BY InitIInv, NextIInv, PTL DEF Spec

\* The bytemap, the page tables and the TLB keep their type.
THEOREM TypeCorrect == Spec => []TypeOK
BY IInvHolds, PTL DEF IInv

\* The frames in use are those of the living processes, each under one page of
\* one of them: alloc_frame and free_frame in sys_fork and sys_exit.
THEOREM FramesStayOwned == Spec => []FramesOwned
BY IInvHolds, OwnsFrames, PTL

\* No access uses a translation of another process or of an earlier mapping:
\* the set_cr3 of sys_fork and of inner_task_switch.
THEOREM TlbStaysFresh == Spec => []TlbFresh
BY IInvHolds, PTL DEF IInv

-----------------------------------------------------------------------------
(***************************************************************************)
(* How many frames are free                                                *)
(***************************************************************************)
FreeCount == Cardinality(FreeFrames(phys_mem))

\* What a fork needs to find, as a number.
LEMMA EnoughIsCount ==
  enough_frames(phys_mem) <=> FreeCount >= NUM_PAG_DATA
<1>1. FreeFrames(phys_mem) \in SUBSET Candidates
  BY DEF FreeFrames
<1>2. FreeCount \in Nat /\ FreeFrames(phys_mem) \subseteq Nat
  BY <1>1, SomeFrames, Layout DEF FreeCount, Candidates, Frame, Page
<1>3. CASE FreeCount >= NUM_PAG_DATA
  <2>1. NUM_PAG_DATA \in 1..FreeCount
    BY <1>2, <1>3, Layout
  <2>2. alloc_frame(phys_mem, NUM_PAG_DATA) \in FreeFrames(phys_mem)
    BY <2>1, AllocFrame DEF FreeCount
  <2> QED
    BY <1>2, <1>3, <2>2 DEF enough_frames
<1>4. CASE ~ (FreeCount >= NUM_PAG_DATA)
  BY <1>2, <1>4, Layout DEF enough_frames, alloc_frame, FreeCount
<1> QED
  BY <1>3, <1>4

\* As many frames as pages, if no two pages share one.
LEMMA FramesOfPages ==
  ASSUME NEW ps, IsFiniteSet(ps), NEW own \in [ps -> Candidates],
         \A p, q \in ps : own[p] = own[q] => p = q
  PROVE  /\ IsFiniteSet({own[p] : p \in ps})
         /\ Cardinality({own[p] : p \in ps}) = Cardinality(ps)
<1> DEFINE T == {own[p] : p \in ps}
           f == [p \in ps |-> own[p]]
<1>1. f \in Injection(ps, T) /\ f \in Surjection(ps, T)
  BY DEF Injection, IsInjective, Surjection
<1>2. f \in Bijection(ps, T)
  BY <1>1 DEF Bijection
<1>3. ExistsBijection(ps, T)
  BY <1>2 DEF ExistsBijection
<1> QED
  BY <1>3, FS_Bijection

\* A process has NUM_PAG_DATA data pages.
LEMMA CountOfPages ==
  /\ IsFiniteSet(DataPages) /\ Cardinality(DataPages) = NUM_PAG_DATA
  /\ IsFiniteSet(CodePages) /\ Cardinality(CodePages) = NUM_PAG_CODE
<1>1. /\ PAG_LOG_INIT_DATA \in Int /\ PAG_LOG_INIT_DATA + NUM_PAG_DATA - 1 \in Int
      /\ PAG_LOG_INIT_CODE \in Int /\ PAG_LOG_INIT_DATA - 1 \in Int
      /\ PAG_LOG_INIT_DATA = PAG_LOG_INIT_CODE + NUM_PAG_CODE
  BY Layout DEF PAG_LOG_INIT_DATA, PAG_LOG_INIT_CODE
<1>2. /\ IsFiniteSet(DataPages)
      /\ Cardinality(DataPages) =
           IF PAG_LOG_INIT_DATA > PAG_LOG_INIT_DATA + NUM_PAG_DATA - 1 THEN 0
           ELSE (PAG_LOG_INIT_DATA + NUM_PAG_DATA - 1) - PAG_LOG_INIT_DATA + 1
  BY <1>1, FS_Interval DEF DataPages
<1>3. /\ IsFiniteSet(CodePages)
      /\ Cardinality(CodePages) =
           IF PAG_LOG_INIT_CODE > PAG_LOG_INIT_DATA - 1 THEN 0
           ELSE (PAG_LOG_INIT_DATA - 1) - PAG_LOG_INIT_CODE + 1
  BY <1>1, FS_Interval DEF CodePages
<1>4. Cardinality(DataPages) = NUM_PAG_DATA
  BY <1>1, <1>2, Layout
<1>5. Cardinality(CodePages) = NUM_PAG_CODE
  BY <1>1, <1>3, Layout
<1> QED
  BY <1>2, <1>3, <1>4, <1>5

\* Taking a set of the free frames takes as many.
LEMMA FewerFree ==
  ASSUME NEW F \in SUBSET Candidates, NEW T \in SUBSET F
  PROVE  Cardinality(F \ T) = Cardinality(F) - Cardinality(T)
<1>1. /\ IsFiniteSet(F \ T) /\ Cardinality(F \ T) \in Nat
      /\ IsFiniteSet(T) /\ Cardinality(T) \in Nat /\ Cardinality(F) \in Nat
  BY SomeFrames
<1>2. (F \ T) \cup T = F /\ (F \ T) \cap T = {}
  OBVIOUS
<1>3. Cardinality(F) = Cardinality(F \ T) + Cardinality(T) - Cardinality({})
  BY <1>1, <1>2, FS_Union
<1>4. Cardinality({}) = 0
  BY FS_EmptySet
<1> QED
  BY <1>1, <1>3, <1>4

\* A fork takes NUM_PAG_DATA frames.
LEMMA ForkCounts ==
  ASSUME IInv, NEW c \in Slots, Fork(c)
  PROVE  FreeCount' = FreeCount - NUM_PAG_DATA
<1>1. PICK own \in [DataPages -> FreeFrames(phys_mem)] :
        /\ \A p, q \in DataPages : own[p] = own[q] => p = q
        /\ phys_mem' = MarkUsed(phys_mem, {own[p] : p \in DataPages})
  BY ForkEffect
<1> DEFINE F == FreeFrames(phys_mem)
           T == {own[p] : p \in DataPages}
<1>2. F \in SUBSET Candidates /\ T \in SUBSET F /\ Candidates \subseteq Frame
  BY DEF FreeFrames, Candidates
<1>3. Cardinality(T) = NUM_PAG_DATA
  <2>1. own \in [DataPages -> Candidates]
    BY <1>2
  <2> QED
    BY <1>1, <2>1, CountOfPages, FramesOfPages
<1>4. FreeFrames(phys_mem') = F \ T
  BY <1>1, <1>2 DEF FreeFrames, MarkUsed
<1> QED
  BY <1>2, <1>3, <1>4, FewerFree DEF FreeCount

\* An exit gives them back.
LEMMA ExitCounts ==
  ASSUME IInv, NEW t \in Slots, Exit(t)
  PROVE  FreeCount' = FreeCount + NUM_PAG_DATA
<1> DEFINE own == [p \in DataPages |-> Under(cur, p)]
           T == {own[p] : p \in DataPages}
           G == FreeFrames(phys_mem')
<1>1. cur \in procs
  BY OneTranslation DEF Exit
<1>2. \A p \in DataPages : own[p] \in Candidates \ CodeFrames /\ phys_mem[own[p]] = "USED"
  BY <1>1 DEF IInv, Tables, Owns
<1>3. \A p, q \in DataPages : own[p] = own[q] => p = q
  BY <1>1 DEF IInv, Owns
<1>4. \A f \in T : f > NUM_PAG_KERNEL
  BY <1>2, BootFrames, Layout DEF Candidates, Frame, Page
<1>5. phys_mem' = free_frame(phys_mem, T)
  BY DEF Exit, get_frame, Under
<1>6. Cardinality(T) = NUM_PAG_DATA
  <2>1. own \in [DataPages -> Candidates]
    BY <1>2
  <2> HIDE DEF own
  <2> QED
    BY <1>3, <2>1, CountOfPages, FramesOfPages
<1>7. G \in SUBSET Candidates /\ T \in SUBSET G /\ FreeFrames(phys_mem) = G \ T
  <2>1. T \subseteq Candidates /\ \A f \in T : phys_mem[f] = "USED"
    BY <1>2
  <2>2. \A f \in Candidates : phys_mem'[f] = IF f \in T THEN "FREE" ELSE phys_mem[f]
    BY <1>4, <1>5 DEF free_frame, Candidates
  <2> QED
    BY <2>1, <2>2 DEF FreeFrames
<1>8. Cardinality(G) \in Nat
  BY <1>7, SomeFrames
<1> HIDE DEF G, T
<1>9. FreeCount = FreeCount' - NUM_PAG_DATA
  BY <1>6, <1>7, FewerFree DEF FreeCount, G
<1> QED
  BY <1>8, <1>9, Layout DEF FreeCount, G

\* Whatever else happens leaves the bytemap as it is.
LEMMA OthersCount ==
  ASSUME IInv,
         \/ \E t \in Slots : Switch(t) \/ ForkAgain(t)
         \/ \E p \in DataPages, w \in Word : UserWrite(p, w)
         \/ UNCHANGED vars
  PROVE  FreeCount' = FreeCount
<1>1. CASE \E t \in Slots : ForkAgain(t)
  BY <1>1, ForkAgainIInv DEF FreeCount
<1> QED
  BY <1>1 DEF FreeCount, Switch, UserWrite, vars

\* Boot has given frames to the code and to task 1.
LEMMA InitCounts ==
  ASSUME Init
  PROVE  FreeCount + NUM_PAG_DATA + NUM_PAG_CODE = Cardinality(Candidates)
<1> DEFINE ps == CodePages \cup DataPages
           own == [p \in ps |-> BootFrame(p)]
           T == {own[p] : p \in ps}
<1>1. /\ IsFiniteSet(ps)
      /\ Cardinality(ps) = NUM_PAG_CODE + NUM_PAG_DATA - Cardinality(CodePages \cap DataPages)
  BY CountOfPages, FS_Union
<1>2. Cardinality(CodePages \cap DataPages) = 0
  <2>1. CodePages \cap DataPages = {}
    BY Layout
  <2> QED
    BY <2>1, FS_EmptySet
<1>3. own \in [ps -> Candidates] /\ \A p, q \in ps : own[p] = own[q] => p = q
  BY BootFrames
<1>4. T = {BootFrame(p) : p \in ps}
  BY DEF own
<1>5. Cardinality(T) = Cardinality(ps)
  <2> HIDE DEF own, ps
  <2> QED
    BY <1>1, <1>3, FramesOfPages
<1>6. T \in SUBSET Candidates
  BY <1>3
<1>7. FreeFrames(phys_mem) = Candidates \ T
  <2>1. \A f \in Candidates : f \in Frame /\ f \notin KernelPages
    BY Layout DEF Candidates, KernelPages, Frame, Page
  <2>2. \A f \in Candidates : phys_mem[f] = IF f \in T THEN "USED" ELSE "FREE"
    BY <1>4, <2>1 DEF Init, BootMemory
  <2> QED
    BY <2>2 DEF FreeFrames
<1> HIDE DEF T, ps
<1>8. FreeCount = Cardinality(Candidates) - Cardinality(T)
  BY <1>6, <1>7, FewerFree DEF FreeCount
<1>9. Cardinality(Candidates) \in Nat
  BY SomeFrames
<1>10. Cardinality(T) = NUM_PAG_CODE + NUM_PAG_DATA
  BY <1>1, <1>2, <1>5, Layout
<1> QED
  BY <1>8, <1>9, <1>10, Layout

\* The frames that are free and those of the living processes and of the code
\* make up all that alloc_frame looks at.
FramesAddUp ==
  FreeCount + NUM_PAG_DATA * Cardinality(procs) + NUM_PAG_CODE = Cardinality(Candidates)

LEMMA FramesAddUpStep ==
  ASSUME IInv, FramesAddUp, [Next]_vars
  PROVE  FramesAddUp'
<1>1. FreeFrames(phys_mem) \in SUBSET Candidates /\ FreeFrames(phys_mem') \in SUBSET Candidates
  BY DEF FreeFrames
<1>2. FreeCount \in Nat /\ FreeCount' \in Nat /\ Cardinality(Candidates) \in Nat
  BY <1>1, SomeFrames DEF FreeCount
<1>3. IsFiniteSet(procs) /\ Cardinality(procs) \in Nat
  <2>1. procs \in SUBSET (0..(NR_TASKS - 1)) /\ NR_TASKS - 1 \in Int
    BY SlotAssumption DEF IInv, TypeOK, Slots
  <2>2. IsFiniteSet(0..(NR_TASKS - 1))
    BY <2>1, FS_Interval
  <2>3. IsFiniteSet(procs)
    BY <2>1, <2>2, FS_Subset
  <2> QED
    BY <2>3, FS_CardinalityType
<1>4. CASE \E c \in Slots : Fork(c)
  <2>1. PICK c \in Slots : Fork(c)
    BY <1>4
  <2>2. Cardinality(procs') = Cardinality(procs) + 1
    BY <1>3, <2>1, FS_AddElement DEF Fork
  <2>3. FreeCount' = FreeCount - NUM_PAG_DATA
    BY <2>1, ForkCounts
  <2>4. NUM_PAG_DATA * (Cardinality(procs) + 1) = NUM_PAG_DATA * Cardinality(procs) + NUM_PAG_DATA
        /\ NUM_PAG_DATA * Cardinality(procs) \in Int
    BY <1>3, Layout
  <2> QED
    BY <1>2, <2>2, <2>3, <2>4, Layout DEF FramesAddUp
<1>5. CASE \E t \in Slots : Exit(t)
  <2>1. PICK t \in Slots : Exit(t)
    BY <1>5
  <2>2. Cardinality(procs') = Cardinality(procs) - 1
    BY <1>3, <2>1, FS_RemoveElement, OneTranslation DEF Exit
  <2>3. FreeCount' = FreeCount + NUM_PAG_DATA
    BY <2>1, ExitCounts
  <2>4. NUM_PAG_DATA * (Cardinality(procs) - 1) = NUM_PAG_DATA * Cardinality(procs) - NUM_PAG_DATA
        /\ NUM_PAG_DATA * Cardinality(procs) \in Int
    BY <1>3, Layout
  <2> QED
    BY <1>2, <2>2, <2>3, <2>4, Layout DEF FramesAddUp
<1>6. CASE \/ \E t \in Slots : Switch(t) \/ ForkAgain(t)
           \/ \E p \in DataPages, w \in Word : UserWrite(p, w)
           \/ UNCHANGED vars
  <2>1. procs' = procs
    BY <1>6 DEF Switch, ForkAgain, UserWrite, vars
  <2>2. FreeCount' = FreeCount
    BY <1>6, OthersCount
  <2> QED
    BY <2>1, <2>2 DEF FramesAddUp
<1> QED
  BY <1>4, <1>5, <1>6 DEF Next

\* No frame is ever lost or won, whatever the order of forks, forks that run out
\* of frames half way and exits: with none free, NUM_PAG_DATA go to each process.
THEOREM FramesConserved == Spec => []FramesAddUp
<1>1. Init => FramesAddUp
  <2> SUFFICES ASSUME Init PROVE FramesAddUp
    OBVIOUS
  <2>1. Cardinality(procs) = 1
    BY FS_Singleton DEF Init, BootMemory
  <2>2. NUM_PAG_DATA * 1 = NUM_PAG_DATA
    BY Layout
  <2> QED
    BY <2>1, <2>2, InitCounts DEF FramesAddUp
<1> QED
  BY <1>1, IInvHolds, FramesAddUpStep, PTL DEF Spec

-----------------------------------------------------------------------------
(***************************************************************************)
(* Who has a page 0                                                        *)
(***************************************************************************)
PageZero(t) == pagusr_table[t][0].present

LEMMA ZeroIsKernels ==
  0 \in KernelPages /\ 0 \in Page /\ 0 \notin DataPages \cup TempPages
BY Layout, PageAssumption DEF KernelPages, Page

LEMMA InitPageZero == Init => \A t \in Slots : ~ PageZero(t)
BY ZeroIsKernels, PageAssumption, Layout
   DEF Init, BootMemory, BootTable, NoEntry, PageZero

\* A child of sys_fork gets one.
LEMMA ForkPageZero ==
  ASSUME IInv, NEW c \in Slots, Fork(c)
  PROVE  \A t \in Slots : PageZero(t)' <=> t = c \/ PageZero(t)
<1>1. PICK own :
        pagusr_table' = [pagusr_table EXCEPT ![c] = ChildTable(c, own),
                                             ![cur] = del_ss_pag(@, TempPages)]
  BY ForkEffect
<1>2. cur \in Slots /\ cur # c
  BY DEF Fork, IInv, TypeOK, Tables
<1>3. pagusr_table'[c] = ChildTable(c, own)
  BY <1>1, <1>2 DEF IInv, TypeOK
<1>4. pagusr_table'[cur] = del_ss_pag(pagusr_table[cur], TempPages)
  BY <1>1, <1>2 DEF IInv, TypeOK
<1>5. \A t \in Slots \ {c, cur} : pagusr_table'[t] = pagusr_table[t]
  BY <1>1, <1>2 DEF IInv, TypeOK
<1>6. ChildTable(c, own)[0].present
  BY ZeroIsKernels DEF ChildTable, set_ss_pag
<1>7. del_ss_pag(pagusr_table[cur], TempPages)[0] = pagusr_table[cur][0]
  BY ZeroIsKernels DEF del_ss_pag
<1> QED
  BY <1>3, <1>4, <1>5, <1>6, <1>7 DEF PageZero

\* Nothing else changes it.
LEMMA OthersPageZero ==
  ASSUME IInv, \E t \in Slots : ForkAgain(t) \/ Exit(t) \/ Switch(t)
  PROVE  \A t \in Slots : PageZero(t)' <=> PageZero(t)
<1>1. ASSUME NEW c \in Slots, NEW ps, 0 \notin ps,
             pagusr_table' = [pagusr_table EXCEPT ![c] = del_ss_pag(@, ps)]
      PROVE  \A t \in Slots : PageZero(t)' <=> PageZero(t)
  <2>1. pagusr_table'[c] = del_ss_pag(pagusr_table[c], ps)
        /\ \A t \in Slots \ {c} : pagusr_table'[t] = pagusr_table[t]
    BY <1>1 DEF IInv, TypeOK
  <2>2. del_ss_pag(pagusr_table[c], ps)[0] = pagusr_table[c][0]
    BY <1>1, ZeroIsKernels DEF del_ss_pag
  <2> QED
    BY <2>1, <2>2 DEF PageZero
<1>2. CASE \E t \in Slots : ForkAgain(t)
  <2>1. 0 \notin PAG_LOG_INIT_DATA..(PAG_LOG_INIT_DATA + FreeCount - 1)
    BY Layout, PageAssumption DEF PAG_LOG_INIT_DATA, PAG_LOG_INIT_CODE
  <2> QED
    BY <1>1, <1>2, <2>1 DEF ForkAgain, FreeCount
<1>3. CASE \E t \in Slots : Exit(t)
  BY <1>1, <1>3, ZeroIsKernels DEF Exit, IInv, TypeOK
<1>4. CASE \E t \in Slots : Switch(t)
  BY <1>4 DEF Switch, PageZero
<1> QED
  BY <1>2, <1>3, <1>4

-----------------------------------------------------------------------------
\* The data of the living processes, as PrivateMemory sees them.
Image == [t \in procs |-> [p \in DataPages |-> memory[get_frame(pagusr_table[t], p)]]]

\* The same, through the frames.
LEMMA ImageUnder ==
  Image = [t \in procs |-> [p \in DataPages |-> memory[Under(t, p)]]]
BY DEF Image, Under, get_frame

\* At boot the data of task 1 are blank.
LEMMA InitPrivate == Init => Private!Init
<1> SUFFICES ASSUME Init PROVE Private!Init
  OBVIOUS
<1>1. procs = {Task1}
  BY DEF Init, BootMemory
<1>2. \A p \in DataPages : Under(Task1, p) \in Frame
  BY <1>1, InitIInv DEF IInv, Tables, Candidates
<1>3. \A p \in DataPages : memory[Under(Task1, p)] = Blank
  BY <1>2 DEF Init
<1>4. Image = [t \in {Task1} |-> [p \in DataPages |-> Blank]]
  BY <1>1, <1>3, ImageUnder
<1> QED
  BY <1>4 DEF Private!Init, Image

\* A store changes one page of one process.
LEMMA WritePrivate ==
  ASSUME IInv, NEW p \in DataPages, NEW w \in Word, UserWrite(p, w)
  PROVE  Private!Next
<1>1. /\ memory' = [memory EXCEPT ![Under(cur, p)] = w]
      /\ cur \in procs
      /\ UNCHANGED <<pagusr_table, procs>>
  BY WriteIInv, OneTranslation DEF UserWrite
<1>2. \A t \in procs, q \in DataPages : Under(t, q) \in Frame
  BY DEF IInv, Tables, Candidates
<1>3. ASSUME NEW t \in procs, NEW q \in DataPages
      PROVE  memory'[Under(t, q)] =
               IF t = cur /\ q = p THEN w ELSE memory[Under(t, q)]
  BY <1>1, <1>2 DEF IInv, TypeOK, Owns
<1>4. Image' = [t \in procs |-> [q \in DataPages |-> memory'[Under(t, q)]]]
  BY <1>1 DEF Image, Under, get_frame
<1>5. Image' = [Image EXCEPT ![cur][p] = w]
  <2>1. Image[cur] = [q \in DataPages |-> memory[Under(cur, q)]]
    BY <1>1, ImageUnder
  <2>2. [Image[cur] EXCEPT ![p] = w] =
          [q \in DataPages |-> IF q = p THEN w ELSE memory[Under(cur, q)]]
    BY <2>1
  <2>3. [Image EXCEPT ![cur][p] = w] =
          [t \in procs |-> IF t = cur THEN [Image[cur] EXCEPT ![p] = w] ELSE Image[t]]
    BY ImageUnder
  <2>4. \A t \in procs : Image[t] = [q \in DataPages |-> memory[Under(t, q)]]
    BY ImageUnder
  <2>5. [Image EXCEPT ![cur][p] = w] =
          [t \in procs |-> [q \in DataPages |->
             IF t = cur /\ q = p THEN w ELSE memory[Under(t, q)]]]
    BY <2>2, <2>3, <2>4
  <2> QED
    BY <1>3, <1>4, <2>5
<1>6. Private!Write(cur, p, w)
  BY <1>5 DEF Private!Write, Image
<1>7. \E t \in procs : Private!Write(t, p, w)
  BY <1>1, <1>6
<1> QED
  BY <1>7 DEF Private!Next

\* A fork copies the parent's pages to the child.
LEMMA ForkPrivate ==
  ASSUME IInv, NEW c \in Slots, Fork(c)
  PROVE  Private!Next
<1>1. /\ cur # Idle /\ c \notin procs \cup {Idle}
      /\ procs' = procs \cup {c}
  BY DEF Fork
<1>2. PICK own \in [DataPages -> FreeFrames(phys_mem)] :
        /\ pagusr_table' = [pagusr_table EXCEPT ![c] = ChildTable(c, own),
                                               ![cur] = del_ss_pag(@, TempPages)]
        /\ \A p \in DataPages : memory'[own[p]] = memory[Under(cur, p)]
        /\ \A f \in Frame : (\A p \in DataPages : own[p] # f) => memory'[f] = memory[f]
  BY ForkEffect
<1>3. cur \in procs /\ cur \in Slots /\ cur # c
  BY <1>1, OneTranslation
<1>4. /\ pagusr_table'[c] = ChildTable(c, own)
      /\ pagusr_table'[cur] = del_ss_pag(pagusr_table[cur], TempPages)
      /\ \A t \in Slots \ {c, cur} : pagusr_table'[t] = pagusr_table[t]
  BY <1>2, <1>3 DEF IInv, TypeOK
<1>5. \A p \in DataPages : pagusr_table'[cur][p] = pagusr_table[cur][p]
  BY <1>4, Layout DEF del_ss_pag
<1>6. \A t \in procs, p \in DataPages : pagusr_table'[t][p] = pagusr_table[t][p]
  BY <1>1, <1>4, <1>5 DEF IInv, TypeOK
<1>7. \A p \in DataPages : pagusr_table'[c][p] = set_ss_pag(own[p])
  BY <1>4, Layout DEF ChildTable
<1>8. \A t \in procs, p, q \in DataPages : own[q] # Under(t, p)
  BY <1>2 DEF IInv, Owns, FreeFrames
<1>9. \A t \in procs, p \in DataPages : memory'[Under(t, p)] = memory[Under(t, p)]
  BY <1>2, <1>8 DEF IInv, Tables, Candidates
<1>10. \A t \in procs, p \in DataPages :
         memory'[get_frame(pagusr_table'[t], p)] = memory[Under(t, p)]
  BY <1>6, <1>9 DEF get_frame, Under
<1>11. \A p \in DataPages : memory'[get_frame(pagusr_table'[c], p)] = memory[Under(cur, p)]
  <2>1. \A f : set_ss_pag(f).frame = f
    BY DEF set_ss_pag
  <2>2. \A p \in DataPages : get_frame(pagusr_table'[c], p) = own[p]
    BY <1>7, <2>1 DEF get_frame
  <2> QED
    BY <1>2, <2>2
<1>12. Image' = [t \in procs \cup {c} |->
                   [p \in DataPages |-> memory'[get_frame(pagusr_table'[t], p)]]]
  BY <1>1 DEF Image
<1>13. Image' = [t \in procs \cup {c} |-> IF t = c THEN Image[cur] ELSE Image[t]]
  BY <1>1, <1>3, <1>10, <1>11, <1>12, ImageUnder
<1>14. DOMAIN Image = procs
  BY DEF Image
<1>15. c \in (Slots \ {Idle}) \ DOMAIN Image
  BY <1>1, <1>14
<1> QED
  BY <1>3, <1>13, <1>14, <1>15 DEF Private!Next, Private!Fork, Image

\* An exit leaves the pages of all others alone.
LEMMA ExitPrivate ==
  ASSUME IInv, NEW t \in Slots, Exit(t)
  PROVE  Private!Next
<1>1. /\ cur # Idle /\ procs' = procs \ {cur} /\ memory' = memory
      /\ pagusr_table' = [pagusr_table EXCEPT ![cur] = del_ss_pag(@, DataPages)]
  BY DEF Exit
<1>2. cur \in procs
  BY <1>1, OneTranslation
<1>3. \A u \in procs \ {cur} : pagusr_table'[u] = pagusr_table[u]
  BY <1>1 DEF IInv, TypeOK
<1>4. Image' = [u \in procs \ {cur} |->
                  [p \in DataPages |-> memory[get_frame(pagusr_table'[u], p)]]]
  BY <1>1 DEF Image
<1>5. Image' = [u \in procs \ {cur} |-> Image[u]]
  BY <1>3, <1>4 DEF Image
<1>6. DOMAIN Image = procs
  BY DEF Image
<1> QED
  BY <1>2, <1>5, <1>6 DEF Private!Next, Private!Exit, Image

\* Switches and failing forks change nobody's data.
LEMMA OthersPrivate ==
  ASSUME IInv, UNCHANGED vars \/ \E t \in Slots : Switch(t) \/ ForkAgain(t)
  PROVE  Image' = Image
<1>1. CASE UNCHANGED vars \/ \E t \in Slots : Switch(t)
  BY <1>1 DEF vars, Switch, Image
<1>2. CASE \E c \in Slots : ForkAgain(c)
  <2>1. PICK c \in Slots : ForkAgain(c)
    BY <1>2
  <2>2. /\ c \notin procs /\ procs' = procs /\ memory' = memory
        /\ \A t \in Slots \ {c} : pagusr_table'[t] = pagusr_table[t]
    BY <2>1 DEF ForkAgain, IInv, TypeOK
  <2>3. \A t \in procs : pagusr_table'[t] = pagusr_table[t]
    BY <2>2 DEF IInv, TypeOK
  <2> QED
    BY <2>2, <2>3 DEF Image
<1> QED
  BY <1>1, <1>2

\* Page tables, frames, the copy of sys_fork and the TLB together give every
\* process memory of its own, which a child starts as a copy of its parent's.
THEOREM MemoryIsPrivate == Spec => ImplementsPrivate
<1>1. IInv /\ [Next]_vars => (Private!Next \/ Image' = Image)
  BY WritePrivate, ForkPrivate, ExitPrivate, OthersPrivate DEF Next
<1>2. IInv /\ [Next]_vars =>
        [Private!Next]_([t \in procs |->
                           [p \in DataPages |-> memory[get_frame(pagusr_table[t], p)]]])
  BY <1>1 DEF Image
<1> QED
  BY <1>2, InitPrivate, IInvHolds, PTL DEF Spec, ImplementsPrivate, Private!Spec
=============================================================================
