SPECIFICATION Spec
CONSTANTS
  NumScanners = 1
  Concurrencies = {8}
  Issues <- MCIssues
  MergePairs <- MCMergePairs
  Reports <- MCReports
  MaxPasses = 3
  MaxFaults = 0
CHECK_DEADLOCK FALSE
INVARIANT
  TimeoutNotFatal
