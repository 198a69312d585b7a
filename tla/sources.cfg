SPECIFICATION FairSpec
CONSTANTS
  streamA = streamA
  streamB = streamB
  sdref = sdref
  downQueue = downQueue
  sdrefQueue = sdrefQueue
  NoSource = NoSource
  Source = {streamA, streamB, sdref}
  Queue = {downQueue, sdrefQueue}
  UserQueues = {downQueue, sdrefQueue}
  OwnsQueue = {sdref}
  QueueOf <- MCQueueOf
  FdOf <- MCFdOf
  MaxFailures = 1
  MaxData <- MCMaxData
INVARIANTS TypeOK ServicedByOne SourceOutlivesUse DispatchedWhenReady
PROPERTIES EveryDestroyReturns EveryArrivalServiced
