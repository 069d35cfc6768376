\* Memories of 1024 bytes in 8 pages, mapped in every order; 896 bytes copied.
CONSTANTS
  ByteRange = 14
  MemSize = 970
  PageSize = 128
  linux_ram_base = 384
  linux_ram_size = 1024
  NoFrame = NoFrame
  Magic <- MCMagic
  Rodata <- MCRodata
  Copied = 896
  ListSize = 5
  HeadersUpperBound = 3
  Rams <- MCRams
SPECIFICATION ScanSpec
INVARIANTS ScanTypeOK HeadersExact TablesExact NamesInPlace BustedForCause RodataReadable HaltedForCause
CHECK_DEADLOCK FALSE
