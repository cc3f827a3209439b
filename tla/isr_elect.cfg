SPECIFICATION MCSpec
CONSTANTS
  N = 3
  MinInsync = 2
  LagTimeout = 1
  Retention = 3
  Delay = 1
  LeaseDuration = 1
  MaxWrites = 3
  MaxElections = 1
  MaxFaults = 2
  MaxPowerLosses = 0
  Faulty = {1, 2, 3}
  Losing = {2, 3}
  MaxQueue = 4
INVARIANTS AuthorityReadIsFresh AcceptedSurvives
PROPERTIES CommittedStays
