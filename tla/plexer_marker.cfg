SPECIFICATION Spec
CONSTANTS
  MaxID = 1
  Creators = {"master"}
  MaxCreates = 1
  MaxWrites = 1
  MaxReplies = 1
  ReadMax = 2
  CloseRule = "free"
  Provider = "tls"
  Failures = {}
INVARIANTS
  DeliveredInOrder
CHECK_DEADLOCK FALSE
