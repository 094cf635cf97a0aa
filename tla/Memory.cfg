CONSTANTS
  NR_TASKS = 5
  TOTAL_PAGES = 19
  NUM_PAG_KERNEL = 3
  NUM_PAG_CODE = 1
  NUM_PAG_DATA = 2
  GuardPages = {2}
  Word = {w0, w1}
  Blank = w0
SPECIFICATION Spec
CHECK_DEADLOCK FALSE
INVARIANTS
  FramesOwned
  TlbFresh
PROPERTY ImplementsPrivate
