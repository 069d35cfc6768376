\* The same memories: read-only data is at offsets and of sizes beyond 2^16 too.
CONSTANTS
  ByteRange = 14
  MemSize = 970
  PageSize = 128
  linux_ram_base = 384
  linux_ram_size = 1024
  NoFrame = NoFrame
  Magic <- MCMagic
  Rodata <- MCRodata
  Copied = 896
  ListSize = 5
  HeadersUpperBound = 3
  Rams <- MCRams
SPECIFICATION ScanSpec
INVARIANT RodataExact
CHECK_DEADLOCK FALSE
