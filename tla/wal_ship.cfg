SPECIFICATION MCFairSpec
CONSTANTS
  N = 3
  Synchronous = {2}
  Retention = 1
  MaxWrites = 2
  MaxPromotions = 2
  MaxFaults = 1
  MaxQueue = 4
  MaxQueueLate = 2
INVARIANTS TypeOK PrimaryIsFlushed QuorumOnCandidates PrefixBeforePromotion
PROPERTIES PromotionKeepsQuorum CatchesUp
