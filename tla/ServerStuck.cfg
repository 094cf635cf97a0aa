CONSTANTS
  Clients = {c1, c2, c3, c4}
  maxChild = 2
  MaxFds = 5
SPECIFICATION Spec
CHECK_DEADLOCK FALSE
PROPERTY AcceptedIsServed
