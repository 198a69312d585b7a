SPECIFICATION FairSpec
CONSTANTS
  Clients = {c1}
  Workers = {w1, w2, w3}
  InitialWorkers = {w1}
  Jobs = {j1, j2}
  Blocking = {j1}
  Type = "global"
  NestedModes = {}
  ReleaseRule = "never"
  None = None
PROPERTIES
  EveryJobStarts
CHECK_DEADLOCK FALSE
