CONSTANTS
  nclients = 4
  ForkFails = TRUE
SPECIFICATION Spec
CHECK_DEADLOCK FALSE
INVARIANT CountCoversAlive
PROPERTY Ends
