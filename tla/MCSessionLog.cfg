SPECIFICATION Spec
CONSTANTS
  Files = {f1, f2}
  PoolTasks = {p1, p2}
  Jobs = {j1}
  Types <- MCTypes
  Calls <- MCCalls
  MaxRequests = 3
SYMMETRY MCSymmetry
CHECK_DEADLOCK FALSE
INVARIANTS
  TypeOK
  RecordsInOrder
  EndIsComplete
  MainCardsTheirOwn
  PeekAgreesWithLoad
