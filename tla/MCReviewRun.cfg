SPECIFICATION FairSpec
CONSTANTS
  NumDiffs = 3
  MaxConcurrency = 2
  PoolSize = 1
  MaxCalls = 1
  MaxBatch = 1
  OtherPaths = {}
INVARIANTS
  TypeOK
  ConcurrencyBounded
  FilterSeesOwnComments
  FilterRemovesOnlyShown
PROPERTIES
  ImplementsPromise
  RunEnds
