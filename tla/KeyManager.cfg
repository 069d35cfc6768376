\* Pool and rings so small that each call may fail.
CONSTANTS
  MaxChain = 2
  RecvLen = 2
  QueueLen = 2
  PoolSize = 2
  MaxRequests = 5
  MaxHasty = 3
SPECIFICATION FairSpec
INVARIANTS TypeOK BuffersAccounted LeftBehindByMerge PatientServed
PROPERTY PatientCompleted
CHECK_DEADLOCK FALSE
