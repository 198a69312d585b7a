SPECIFICATION FairSpec
CONSTANTS
  MaxID = 1
  Creators = {"master", "slave"}
  MaxCreates = 1
  MaxWrites = 1
  MaxReplies = 1
  ReadMax = 2
  CloseRule = "settled"
  Provider = "tls"
  Failures = {}
INVARIANTS
  TypeOK
  DeliveredInOrder
  CallbacksOrdered
  PlexerUsesLiveInfo
  HealthyStaysUp
PROPERTIES
  EveryWriteArrives
  EveryCloseCompletes
CHECK_DEADLOCK FALSE
