SPECIFICATION FairSpec
CONSTANTS
  MaxID = 1
  Creators = {"master"}
  MaxCreates = 1
  MaxWrites = 1
  MaxReplies = 0
  ReadMax = 1
  CloseRule = "free"
  Provider = "tls"
  Failures = {"link", "slave"}
INVARIANTS
  NotifiedOnce
  EofMeansComplete
PROPERTIES
  StoppedIsQuiet
  InterruptionSpreads
  InterruptionNotified
  StopReturns
CHECK_DEADLOCK FALSE
