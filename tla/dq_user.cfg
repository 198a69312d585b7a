SPECIFICATION FairSpec
CONSTANTS
  Clients = {c1, c2}
  Workers = {w1}
  InitialWorkers = {w1}
  Jobs = {j1, j2, j3}
  Blocking = {}
  Type = "user"
  NestedModes = {"async"}
  ReleaseRule = "any"
  None = None
INVARIANTS
  SignalsMatchStack
  TakenInOrder
PROPERTIES
  ImplementsExecutor
  NothingStartsAfterExit
  EveryJobRuns
  EverySyncReturns
  ReleaseReturns
CHECK_DEADLOCK FALSE
