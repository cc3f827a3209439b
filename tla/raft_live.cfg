SPECIFICATION MCFairSpec
CONSTANTS
  N = 3
  Key = {x}
  Value = {a}
  None = None
  ElectionLow = 4
  ElectionHigh = 5
  HeartbeatInterval = 1
  Delay = 1
  MaxTerm = 3
  MaxCalls = 2
  MaxFaults = 1
  Faulty = {2}
INVARIANTS ClockTypeOK CallsAnswered ReadIsFresh
PROPERTIES HeardLeaderStays ElectionsEnd Convergence
