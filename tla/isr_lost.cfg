SPECIFICATION MCSpec
CONSTANTS
  N = 3
  MinInsync = 2
  LagTimeout = 1
  Retention = 2
  Delay = 1
  LeaseDuration = 1
  MaxWrites = 3
  MaxElections = 2
  MaxFaults = 1
  MaxPowerLosses = 0
  Faulty = {1, 2, 3}
  Losing = {2, 3}
  MaxQueue = 4
INVARIANTS AcceptedSurvives
