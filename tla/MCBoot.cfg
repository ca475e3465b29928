CONSTANTS
  PageSize = 3
  OobSize = 0
  BlockPages = 1
  Pages = 2
  Divisor = 2
  Stride = 2
  Byte <- MCByte
  Erased = 1
  And <- MCAnd
  MaxLen = 9
  Addrs <- None
  WriteAddrs <- None
  ReadLens <- None
  WriteLens <- None
  EraseLens <- None
  WordSize = 2
  CodeSize = 4
  End = 7
  MaxResets = 1
SPECIFICATION MCSpec
INVARIANTS BootTypeOK BootedImage VectorsIntact
PROPERTY BootCompletes
