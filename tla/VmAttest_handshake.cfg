\* Four requests; a memory of two bytes, so that a pass may also halt.
CONSTANTS
  Bytes = {0, 7}
  Blank = 0
  Magic <- MCMagic
  Header <- MCHeader
  Copied = 2
  HeadersUpperBound = 1
  ListSize = 1
  ByteRange = 3
  HeapCap = 16
  MaxRequests = 4
  MaxStores = 0
SPECIFICATION FairSpec
INVARIANTS PassesNeedRequests AtMostTwoWakesPerPass FifthWakeIsFresh
PROPERTIES KeepsHandshake RequestAnswered WaiterWoken
CHECK_DEADLOCK FALSE
