SPECIFICATION Spec
CONSTANTS
  Conn = {a, b}
  Incoming = {b}
  UserOps = {"stopAdvertising", "closeAll", "stop", "release"}
  MaxFailures = 2
  None = None
INVARIANTS TypeOK RefsMatchHolders InterruptedOnce DefaultIsListed CallbacksOutlived
CHECK_DEADLOCK FALSE
