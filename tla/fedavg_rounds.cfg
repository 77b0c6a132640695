SPECIFICATION FedFairSpec
CONSTANTS
  Worker <- TwoWorkers
  MaxRound = 2
  MaxCrashes = 1
  BadFiles = TRUE
  CleanUp = TRUE
INVARIANTS NoOrphanRound
PROPERTIES LogSpec AggregatorKeepsUp
