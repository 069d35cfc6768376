\* A reader that runs before the writer has initialised the port.
CONSTANTS
  r1 = r1
  r2 = r2
  Readers <- MCReader
  Data <- MCData
  ZeroData = 0
  DIRTY_SEQ_NUM = 3
  MaxMessages = 2
SPECIFICATION Spec
INVARIANT SuccessMeansMessage
