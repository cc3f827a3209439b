SPECIFICATION MCFairSpec
CONSTANTS
  N = 3
  BacklogSize = 1
  MaxWrites = 2
  MaxPromotions = 2
  MaxFaults = 1
  MaxFsyncs = 1
  MaxQueue = 4
  MaxQueueLate = 2
INVARIANTS TypeOK LineageIsOneHistory PrimaryIsAhead BacklogEndsHistory
PROPERTIES Resynchronizes
