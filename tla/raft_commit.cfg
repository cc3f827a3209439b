SPECIFICATION MCSpec
CONSTANTS
  N = 3
  Key = {x}
  Value = {a}
  None = None
  MaxTerm = 3
  MaxLog = 2
  MaxQueue = 3
  MaxReads = 0
  MaxCrashes = 0
  MaxCuts = 1
INVARIANTS LeaderCompleteness CommittedOnQuorum MatchIsTrue NextIndexInLog AcceptedIsCommitted
PROPERTIES AppliedIsKept ImplementsLog
