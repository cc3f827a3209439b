SPECIFICATION MCSpec
CONSTANTS
  N = 3
  Synchronous = {2}
  Retention = 1
  MaxWrites = 3
  MaxPromotions = 1
  MaxFaults = 1
  MaxQueue = 4
  MaxQueueLate = 2
PROPERTIES AppliesOverPrefix
