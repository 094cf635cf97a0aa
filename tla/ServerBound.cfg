CONSTANTS
  Clients = {c1, c2, c3, c4, c5}
  maxChild = 2
  MaxFds = 4
SPECIFICATION Spec
CHECK_DEADLOCK FALSE
INVARIANTS
  BoundKept
PROPERTY StuckOnlyByLostCount
