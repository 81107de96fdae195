SPECIFICATION Spec
CONSTANTS
  NumDiffs = 2
  MaxConcurrency = 2
  PoolSize = 1
  MaxCalls = 1
  MaxBatch = 1
  OtherPaths = {}
INVARIANT AwaitReturnsToCaller
