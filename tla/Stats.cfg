CONSTANTS
  NR_TASKS = 3
  Policies = {"RR", "FCFS"}
  MaxTime = 2
  MaxForks = 2
SPECIFICATION Spec
CHECK_DEADLOCK FALSE
INVARIANTS
  StatsOfTheLiving
PROPERTIES
  TicksCountedOnce
  WaitsCounted
  ImplementsQueues
