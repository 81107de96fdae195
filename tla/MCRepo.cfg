SPECIFICATION Spec
CONSTANTS
  fileA = fileA
  fileB = fileB
  fileC = fileC
  Main = main
  Files = {fileA, fileB, fileC}
  Callers = {fileA, fileB, fileC, main}
  MaxConcurrent = 1
  UnsupportedExt = {fileB}
  DefaultExcluded = {fileC}
  SystemRules <- MCSystemRules
  MaxDiffLines = 9
  Norm <- MCNorm
  Gap = "gap"
  FileOrder <- MCOrder
  Committed <- MCCommitted
  Contents <- MCContents
  IsMarker = {"Binary files "}
  Starts <- MCStarts
  Setups <- MCSetups
  Codes <- MCCodes
  MaxEdits = 2
  MaxFaults = 1
INVARIANTS
  TypeOK
  TokensAccounted
  ChangesReviewedOnce
  RuleShownIsRuleUsed
  LinesPointAtTheCode
PROPERTIES
  LoadEnds
CHECK_DEADLOCK FALSE
