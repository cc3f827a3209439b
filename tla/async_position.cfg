SPECIFICATION MCSpec
CONSTANTS
  N = 3
  BacklogSize = 1
  MaxWrites = 2
  MaxPromotions = 0
  MaxFaults = 1
  MaxFsyncs = 0
  MaxQueue = 4
  MaxQueueLate = 2
INVARIANTS PositionIdentifiesHistory
