SPECIFICATION MCSpec
CONSTANTS
  Node = {1, 2}
  Registered = {2}
  Delays = {0, 1, 2}
  MaxSends = 3
  MaxTick = 1
INVARIANTS TypeOK OnTime
PROPERTIES RunsInOrder ImplementsFifo
CHECK_DEADLOCK FALSE
