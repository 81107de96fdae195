SPECIFICATION FairSpec
CONSTANTS
  NumScanners = 2
  Concurrencies = {1, 5}
  Issues <- MCIssues
  MergePairs <- MCMergePairs
  Reports <- MCReports
  MaxPasses = 3
  MaxFaults = 1
CHECK_DEADLOCK FALSE
INVARIANTS
  TypeOK
  BudgetKept
  NoFindingLost
PROPERTIES
  ProgressTruthful
  KeepsPromise
  FanoutEnds
