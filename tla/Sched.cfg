CONSTANTS
  NR_TASKS = 4
  freequeue = freequeue
  readyqueue = readyqueue
  console_blocked = console_blocked
  NULL = NULL
  Quantum = 2
  NIorbs = 3
  DataFrames = 4
  NUM_PAG_DATA = 2
  ReadTicks = {0, 2}
  BootPolicy = "RR"
  Calls = {"fork", "exit", "read"}
SPECIFICATION EitherPolicy
INVARIANTS
  LinksAgree
  StateAgrees
  NeverUnlinksTwice
  NeverStaleContext
  QuantumInRange
  EveryTaskInItsQueue
  BlockedInRequestOrder
  IdleOnlyWhenNoneReady
PROPERTIES
  WaitShrinks
  FcfsNeverPreempts
  ImplementsQueues
  ReadyRuns
  ReadReturns
