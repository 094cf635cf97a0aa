CONSTANTS
  Clients = {c1, c2}
  num_it = 2
  Request = 2
  Answer = 3
  Kinds = {"sequential", "forked", "threads"}
  Limits = {1, 2, 3}
SPECIFICATION Spec
CHECK_DEADLOCK FALSE
INVARIANTS
  Alternates
  NoMutualWait
PROPERTIES
  ClientsEnd
  AllServed
