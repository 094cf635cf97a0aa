------------------------------ MODULE Accounting ------------------------------
(***************************************************************************)
(* The statistics of ZeOS: struct stats in every process descriptor, the   *)
(* places in the handlers that charge the time since elapsed_total_ticks   *)
(* to one of its counters, and the process identifiers by which            *)
(* sys_get_stats finds them.                                               *)
(*                                                                         *)
(* The processes move between the queues of ProcQueues, which ZeosSched    *)
(* implements; whether a quantum is over is left open here.  A handler is  *)
(* one step, but the time stamp counter goes on under it: at most one edge *)
(* of the clock falls in a handler, before any one of its calls of         *)
(* get_ticks or behind the last.                                           *)
(***************************************************************************)
EXTENDS Integers, Sequences, FiniteSets

CONSTANTS
  NR_TASKS,      \* process descriptors
  Policies,      \* the policies user.c may install: "RR", "FCFS"
  MaxTime,       \* bound on the clock
  MaxForks       \* bound on the forks

Slots == 0..(NR_TASKS - 1)
Idle == 0
Task1 == 1

ASSUME AccountingAssumption ==
  /\ NR_TASKS \in Nat /\ NR_TASKS >= 2
  /\ Policies \subseteq {"RR", "FCFS"}
  /\ MaxTime \in Nat /\ MaxForks \in Nat

VARIABLES
  now,         \* the clock, in ticks
  PID,         \* identifier of each slot, -1 for none
  global_PID,  \* the last one given, counted from task 1's
  p_stats,     \* struct stats of each slot
  freequeue,   \* the free slots, in order
  running,     \* current()
  ready,       \* readyqueue
  blocked,     \* console_blocked
  inclock,     \* tasks switched out in the middle of the clock handler
  policy,      \* the policy installed
  since,       \* auxiliary: when each slot came to where it is
  forkfailed   \* auxiliary: a fork has found no frames

queues == <<freequeue, running, ready, blocked>>
vars == <<now, PID, global_PID, p_stats, queues, inclock, policy, since, forkfailed>>

Members(q) == {q[i] : i \in DOMAIN q}

Counters == {"user", "system", "blocked", "ready"}

\* Where a slot is.  (Under FCFS idle is nowhere while it does not run.)
Place(t) ==
  CASE t = running -> "running"
    [] t \in Members(ready) -> "ready"
    [] t \in Members(blocked) -> "blocked"
    [] t \in Members(freequeue) -> "free"
    [] OTHER -> "nowhere"

Alive == {Idle, running} \cup Members(ready) \cup Members(blocked)

-----------------------------------------------------------------------------
(***************************************************************************)
(* Reading the clock.  The calls of get_ticks in a handler are numbered in *)
(* the order they are made: 1 user_to_system, 2 and 3 unblock_process, 4   *)
(* and 5 update_process_state_rr, 6 and 7 sched_next, 8 system_to_user;    *)
(* block_process makes the calls 2 and 3 too.  The edge, if any, is before *)
(* call number edge; LastCall + 1 is behind them all.                      *)
(***************************************************************************)
LastCall == 8
NoEdge == LastCall + 2
Edges == {NoEdge} \cup IF now < MaxTime THEN 1..(LastCall + 1) ELSE {}

get_ticks(edge, call) == IF call >= edge THEN now + 1 ELSE now

Passes(edge) == now' = IF edge = NoEdge THEN now ELSE now + 1

\* (A variant that does not restart the interval.)
update_stats_KeepsElapsed(S, t, counter, r) ==
  [S EXCEPT ![t][counter] = @ + r - S[t].elapsed]

update_stats(S, t, counter, r) ==
  [S EXCEPT ![t][counter] = @ + r - S[t].elapsed, ![t].elapsed = r]

\* The same done in line, with a second reading of the clock.
charge(S, t, counter, r1, r2) ==
  [S EXCEPT ![t][counter] = @ + r1 - S[t].elapsed, ![t].elapsed = r2]

init_stats(r) ==
  [user |-> 0, system |-> 0, blocked |-> 0, ready |-> 0, elapsed |-> r]

\* The charge update_process_state makes on the way to readyqueue.
charge_ready(S, t, edge, call) ==
  IF policy = "RR" THEN update_stats(S, t, "system", get_ticks(edge, call)) ELSE S

\* block_process's own charge, marked "not necessary lines(?)".
charge_block_Unnecessary(S, edge) == S   \* (a variant that takes its word)
charge_block(S, edge) ==
  charge(S, running, "system", get_ticks(edge, 2), get_ticks(edge, 3))

stats_next_rr(S, t, edge) ==
  LET S1 == update_stats(S, running, "system", get_ticks(edge, 6))
  IN  update_stats(S1, t, "ready", get_ticks(edge, 7))

stats_next_fcfs(S, t, edge) ==
  charge(S, t, "ready", get_ticks(edge, 6), get_ticks(edge, 7))

\* A task that was switched out by the clock leaves through system_to_user.
system_to_user(S, t, edge) ==
  IF t \in inclock THEN update_stats(S, t, "system", get_ticks(edge, LastCall)) ELSE S

-----------------------------------------------------------------------------
Init ==
  /\ now = 0
  /\ PID = [t \in Slots |-> IF t \in {Idle, Task1} THEN t ELSE -1]
  /\ global_PID = Task1
  /\ p_stats = [t \in Slots |-> init_stats(0)]
  /\ freequeue = [i \in 1..(NR_TASKS - 2) |-> i + 1]
  /\ running = Task1
  /\ ready = <<>>
  /\ blocked = <<>>
  /\ inclock = {}
  /\ policy \in Policies
  /\ since = [t \in Slots |-> 0]
  /\ forkfailed = FALSE

\* The program or idle goes on.
Elapse ==
  /\ now < MaxTime
  /\ now' = now + 1
  /\ UNCHANGED <<PID, global_PID, p_stats, queues, inclock, since>>

\* The next process of q gets the CPU by the sched_next of the policy next.
SwitchTo(next, S, q, edge) ==
  LET t == IF q = <<>> THEN Idle ELSE Head(q)
      S1 == IF next = "RR" THEN stats_next_rr(S, t, edge)
            ELSE stats_next_fcfs(S, t, edge)
  IN  /\ running' = t
      /\ ready' = IF q = <<>> THEN q ELSE Tail(q)
      /\ p_stats' = system_to_user(S1, t, edge)

Moved ==
  \E f \in {[t \in Slots |-> IF Place(t)' # Place(t) THEN now ELSE since[t]]} : since' = f

\* What the console charges to the first that waits, if it wakes it.
WokenTo(S, wake, edge) ==
  IF ~ wake THEN S
  ELSE charge_ready(charge(S, Head(blocked), "blocked",
                           get_ticks(edge, 2), get_ticks(edge, 3)),
                    Head(blocked), edge, 4)

\* (A variant that forgets the process it takes the CPU from.)
QueueOf_Missing(q) == q

\* FCFS takes the CPU from idle only, and idle does not queue for it.
QueueOf(q) == IF policy = "RR" THEN Append(q, running) ELSE q

\* The clock interrupt: from user_to_system, through the console, which may wake
\* the first that waits, and the scheduler, to system_to_user.
Tick(edge, wake) ==
  LET S == WokenTo(update_stats(p_stats, running, "user", get_ticks(edge, 1)), wake, edge)
      q == IF wake THEN Append(ready, Head(blocked)) ELSE ready
  IN  /\ wake => blocked # <<>>
      /\ blocked' = IF wake THEN Tail(blocked) ELSE blocked
      /\ Passes(edge)
      /\ \/ /\ policy = "FCFS" => running # Idle \/ q = <<>>
            /\ p_stats' = update_stats(S, running, "system", get_ticks(edge, LastCall))
            /\ ready' = q
            /\ UNCHANGED <<running, inclock>>
         \/ /\ q # <<>>
            /\ policy = "FCFS" => running = Idle
            /\ SwitchTo(policy, charge_ready(S, running, edge, 5), QueueOf(q), edge)
            /\ inclock' = (inclock \cup {running}) \ {running'}
      /\ UNCHANGED <<PID, global_PID, freequeue>>
      /\ Moved

\* The keyboard interrupt changes nothing but the accounts.
Keyboard(edge) ==
  /\ Passes(edge)
  /\ p_stats' = update_stats(update_stats(p_stats, running, "user", get_ticks(edge, 1)),
                             running, "system", get_ticks(edge, LastCall))
  /\ UNCHANGED <<PID, global_PID, queues, inclock, since>>

Fork(edge) ==
  /\ running # Idle /\ freequeue # <<>> /\ global_PID < Task1 + MaxForks
  /\ Passes(edge)
  /\ LET c == Head(freequeue)
     IN  /\ PID' = [PID EXCEPT ![c] = global_PID + 1]
         /\ p_stats' = [p_stats EXCEPT ![c] = init_stats(get_ticks(edge, 1))]
         /\ ready' = Append(ready, c)
  /\ global_PID' = global_PID + 1
  /\ freequeue' = Tail(freequeue)
  /\ UNCHANGED <<running, blocked, inclock>>
  /\ Moved

\* No frames: the slot goes back with the copy of its parent in it.
ForkAgain ==
  /\ running # Idle /\ freequeue # <<>>
  /\ LET c == Head(freequeue)
     IN  /\ PID' = [PID EXCEPT ![c] = PID[running]]
         /\ p_stats' = [p_stats EXCEPT ![c] = p_stats[running]]
         /\ freequeue' = Append(Tail(freequeue), c)
  /\ forkfailed' = TRUE
  /\ UNCHANGED <<now, global_PID, running, ready, blocked, inclock, since>>

Leave(edge) ==
  /\ running # Idle
  /\ Passes(edge)
  /\ freequeue' = Append(freequeue, running)
  /\ SwitchTo("RR", p_stats, ready, edge)
  /\ inclock' = inclock \ {running'}
  /\ UNCHANGED <<global_PID, blocked>>
  /\ Moved

\* (A variant in which the slot keeps its identifier.)
Exit_KeepsPid(edge) == UNCHANGED PID /\ Leave(edge)

Exit(edge) == Leave(edge) /\ PID' = [PID EXCEPT ![running] = -1]

Yield(edge) ==
  /\ running # Idle
  /\ Passes(edge)
  /\ SwitchTo("RR", update_stats(p_stats, running, "system", get_ticks(edge, 5)),
              Append(ready, running), edge)
  /\ inclock' = inclock \ {running'}
  /\ UNCHANGED <<PID, global_PID, freequeue, blocked>>
  /\ Moved

\* sys_read, by block_process.
Read(edge) ==
  /\ running # Idle
  /\ Passes(edge)
  /\ blocked' = Append(blocked, running)
  /\ SwitchTo(policy, charge_block(p_stats, edge), ready, edge)
  /\ inclock' = inclock \ {running'}
  /\ UNCHANGED <<PID, global_PID, freequeue>>
  /\ Moved

Next ==
  /\ \/ /\ \/ Elapse
           \/ \E edge \in Edges, wake \in BOOLEAN : Tick(edge, wake)
           \/ \E edge \in Edges :
                Keyboard(edge) \/ Fork(edge) \/ Exit(edge) \/ Yield(edge) \/ Read(edge)
        /\ UNCHANGED forkfailed
     \/ ForkAgain
  /\ UNCHANGED policy

Spec == Init /\ [][Next]_vars

\* The slot whose statistics sys_get_stats answers with, for pid >= 0.
ESRCH == -3
sys_get_stats(pid) ==
  LET found == {s \in Slots : PID[s] = pid}
  IN  IF found = {} THEN ESRCH ELSE CHOOSE s \in found : \A u \in found : s <= u

-----------------------------------------------------------------------------
TypeOK ==
  /\ now \in 0..MaxTime
  /\ PID \in [Slots -> -1..(Task1 + MaxForks)]
  /\ global_PID \in Task1..(Task1 + MaxForks)
  /\ p_stats \in [Slots -> [user : 0..MaxTime, system : 0..MaxTime,
                            blocked : 0..MaxTime, ready : 0..MaxTime,
                            elapsed : 0..MaxTime]]
  /\ running \in Slots
  /\ \A q \in {ready, blocked, freequeue} : Members(q) \subseteq Slots
  /\ inclock \subseteq Alive
  /\ since \in [Slots -> 0..MaxTime]

Total(s) == s.user + s.system + s.blocked + s.ready

\* Every handler that moves elapsed_total_ticks on charges the same time to the
\* counters, whatever it passes through: it counts no tick twice and loses one
\* at most, when the clock's edge falls between the two readings of an interval.
TicksCountedOnce ==
  [][\A t \in Alive :
       t \in Alive' =>
         LET told == p_stats'[t].elapsed - p_stats[t].elapsed
         IN  Total(p_stats'[t]) - Total(p_stats[t]) \in {told - 1, told} \cap Nat]_vars

Near(n) == (n - 1)..(n + 1)

\* blocked_ticks and ready_ticks are the time a process was on console_blocked
\* and on readyqueue, under either policy: when it leaves a queue the counter
\* grows by its stay there, up to the edges that fall in the two handlers, and
\* the counter of a queue it was not on does not grow.
WaitsCounted ==
  [][\A t \in Alive \ {Idle} :
       t \in Alive' =>
         \A queue \in {"blocked", "ready"} :
           p_stats'[t][queue] - p_stats[t][queue] \in
             Near(IF Place(t) = queue /\ Place(t)' # queue THEN now - since[t] ELSE 0)]_vars

\* As long as every fork has found its frames, sys_get_stats answers with the
\* statistics of the living process it is asked for, whatever slots were used
\* again, and knows no other identifier.
StatsOfTheLiving ==
  ~ forkfailed => \A pid \in 0..global_PID :
    LET owner == {t \in Alive : PID[t] = pid}
    IN  IF owner = {} THEN sys_get_stats(pid) = ESRCH ELSE {sys_get_stats(pid)} = owner

\* The processes move between the queues as ProcQueues says.
Queues == INSTANCE ProcQueues WITH Procs <- Slots, First <- Task1

ImplementsQueues == Queues!Spec
=============================================================================
