CONSTANTS
  NR_TASKS = 4
  freequeue = freequeue
  readyqueue = readyqueue
  console_blocked = console_blocked
  NULL = NULL
  Quantum = 2
  NIorbs = 4
  DataFrames = 3
  NUM_PAG_DATA = 2
  ReadTicks = {1, 2}
  BootPolicy = "FCFS"
  Calls = {"fork", "exit", "read", "yield", "set_sched_policy"}
  TOTAL_PAGES = 15
  NUM_PAG_KERNEL = 3
  NUM_PAG_CODE = 1
  GuardPages = {2}
SPECIFICATION MCSpec
CHECK_DEADLOCK FALSE
INVARIANTS
  TypeOK
  InStep
PROPERTY StaleOnlyIfAlone
