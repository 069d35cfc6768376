CONSTANTS
  PageSize = 4
  Bytes <- MCBytes
  EofByte = 255
  CharSigned = FALSE
  Lengths <- MCLengths
  Inputs <- MCInputs
  Texts <- MCTexts
  Messages <- MCMessages
  MaxFds = 1
  MaxCalls = 2
SPECIFICATION Spec
INVARIANTS WritesStdin
