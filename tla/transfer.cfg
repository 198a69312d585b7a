SPECIFICATION FairSpec
CONSTANTS
  Compressions = {"none", "lz4", "other"}
  Forwards = 2
  Sizes = {0, 1, 2, 3, 5}
  Bounds = {0, 2, 3, 5}
  BufferSize = 2
  PipeSize = 4
INVARIANTS TypeOK FramingAgrees FilesArrive AbortsExplained
PROPERTIES EveryForwardEnds
CHECK_DEADLOCK FALSE
