CONSTANTS
  NR_TASKS = 4
  freequeue = freequeue
  readyqueue = readyqueue
  console_blocked = console_blocked
  NULL = NULL
  Quantum = 2
  NIorbs = 4
  DataFrames = 4
  NUM_PAG_DATA = 2
  ReadTicks = {2}
  BootPolicy = "RR"
  Calls = {"fork", "read"}
SPECIFICATION Spec
PROPERTY TickCountsForEveryReader
