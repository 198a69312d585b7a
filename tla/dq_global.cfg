SPECIFICATION FairSpec
CONSTANTS
  Clients = {c1}
  Workers = {w1, w2, w3, w4}
  InitialWorkers = {w1}
  Jobs = {j1, j2, j3}
  Blocking = {}
  Type = "global"
  NestedModes = {"async", "sync"}
  ReleaseRule = "never"
  None = None
INVARIANTS
  RecordsOwned
PROPERTIES
  EverySyncReturns
CHECK_DEADLOCK FALSE
