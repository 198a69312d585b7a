SPECIFICATION FairSpec
CONSTANTS
  Conn = {a, b}
  Incoming = {b}
  UserOps = {}
  MaxFailures = 2
  None = None
PROPERTIES
  InterruptionTold
CHECK_DEADLOCK FALSE
