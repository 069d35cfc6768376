\* Patient and impatient peers; four requests, of texts with room for the signature,
\* without, and without room for the newline; one byte of the stack behind the text.
CONSTANTS
  MaxRequests = 4
  Lengths = {1, 5, 7}
  PortSize = 8
  SignatureSize = 2
  Stack = {1}
SPECIFICATION FairSpec
INVARIANTS TypeOK NoSleepOnDispatch SignsTheRequest ReadyMeansReplied HaltedByLongRequest
PROPERTY NoLostDispatch
CHECK_DEADLOCK FALSE
