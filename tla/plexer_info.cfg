SPECIFICATION Spec
CONSTANTS
  MaxID = 1
  Creators = {"master"}
  MaxCreates = 1
  MaxWrites = 1
  MaxReplies = 1
  ReadMax = 1
  CloseRule = "settled"
  Provider = "none"
  Failures = {}
INVARIANTS
  InfoOutlivesUse
CHECK_DEADLOCK FALSE
