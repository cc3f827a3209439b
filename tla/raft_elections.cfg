SPECIFICATION MCSpec
CONSTANTS
  N = 3
  Key = {x}
  Value = {a}
  None = None
  MaxTerm = 3
  MaxLog = 0
  MaxQueue = 4
  MaxReads = 0
  MaxCrashes = 2
  MaxCuts = 0
INVARIANTS TypeOK ElectionSafety LogMatching
PROPERTIES VotesAreFinal
