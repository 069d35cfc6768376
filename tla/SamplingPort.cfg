\* Two readers; two sequence numbers, five messages, hence more than two rounds.
CONSTANTS
  r1 = r1
  r2 = r2
  Readers <- MCReaders
  Data <- MCData
  ZeroData = 0
  DIRTY_SEQ_NUM = 2
  MaxMessages = 5
SPECIFICATION Spec
INVARIANTS TypeOK NoTornRead NoSpuriousFailure
PROPERTIES DropsShow ImplementsPublishedPort
