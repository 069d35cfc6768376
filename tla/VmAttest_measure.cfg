\* Two passes over images at and beyond every limit, two guest stores, so that a
\* header can be torn by the copy.
CONSTANTS
  Bytes = {0, 1, 2, 7}
  Blank = 0
  Magic <- MCMagic
  Header <- MCHeader
  Copied = 3
  HeadersUpperBound = 2
  ListSize = 1
  ByteRange = 3
  HeapCap = 20
  MaxRequests = 2
  MaxStores = 2
SPECIFICATION Spec
INVARIANTS TypeOK SnapshotFresh ReportExact OwnBlocksReturned HaltedBeyondLimits
CHECK_DEADLOCK FALSE
