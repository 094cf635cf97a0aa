CONSTANTS
  Geometries = {9, 18, 38}
  Segments = 8
  Sizes <- MCSizes
  MaxFaults = 1
  NR_TASKS = 10
  freequeue = freequeue
  readyqueue = readyqueue
  console_blocked = console_blocked
  NULL = NULL
  DEFAULT_QUANTUM = 10
  TOTAL_PAGES = 336
  NUM_PAG_KERNEL = 256
  NUM_PAG_CODE = 8
  NUM_PAG_DATA = 20
  GuardPages = {20, 31}
SPECIFICATION StartSpec
CHECK_DEADLOCK FALSE
INVARIANTS
  SectorsInPlace
  BootSectorSafe
  SystemLoaded
  StartsAsSpecified
PROPERTIES
  NoBoundaryCrossed
  Starts
