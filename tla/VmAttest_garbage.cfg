\* What the printing functions allocate is never freed.
CONSTANTS
  Bytes = {0, 1, 7}
  Blank = 0
  Magic <- MCMagic
  Header <- MCHeader
  Copied = 3
  HeadersUpperBound = 1
  ListSize = 1
  ByteRange = 3
  HeapCap = 40
  MaxRequests = 1
  MaxStores = 0
SPECIFICATION Spec
INVARIANT GarbageCleaned
CHECK_DEADLOCK FALSE
