SPECIFICATION MCFairSpec
CONSTANTS
  N = 3
  MinInsync = 2
  LagTimeout = 1
  Retention = 1
  Delay = 2
  LeaseDuration = 1
  MaxWrites = 3
  MaxElections = 0
  MaxFaults = 1
  MaxPowerLosses = 0
  Faulty = {2, 3}
  Losing = {2, 3}
  MaxQueue = 4
PROPERTIES Rejoins
