SPECIFICATION Spec
CONSTANTS
  Pool <- MCPool
  SimilarTitles <- MCSimilarTitles
  MaxRaw = 3
  MinOverlap = 50
  Given <- MCGiven
  Filters <- MCFilters
CHECK_DEADLOCK FALSE
INVARIANTS
  TypeOK
  GroupsFaithful
  EveryFindingJudgedOnce
  NothingHiddenSilently
