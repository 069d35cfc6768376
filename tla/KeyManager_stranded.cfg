\* Two requests that may share one call of the callback.
CONSTANTS
  MaxChain = 1
  RecvLen = 1
  QueueLen = 2
  PoolSize = 2
  MaxRequests = 2
  MaxHasty = 2
SPECIFICATION FairSpec
PROPERTY RequestCompleted
CHECK_DEADLOCK FALSE
