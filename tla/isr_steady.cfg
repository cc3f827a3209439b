SPECIFICATION MCSpec
CONSTANTS
  N = 3
  MinInsync = 2
  LagTimeout = 1
  Retention = 1
  Delay = 1
  LeaseDuration = 1
  MaxWrites = 2
  MaxElections = 0
  MaxFaults = 2
  MaxPowerLosses = 1
  Faulty = {1, 2, 3}
  Losing = {2}
  MaxQueue = 4
INVARIANTS TypeOK AppliedIsPrefix IsrHoldsCommitted AcceptedOnIsr
