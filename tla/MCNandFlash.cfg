CONSTANTS
  PageSize = 3
  OobSize = 1
  BlockPages = 2
  Pages = 4
  Divisor = 2
  Stride = 2
  Byte <- MCByte
  Erased = 1
  And <- MCAnd
  MaxLen = 4
  Addrs <- MCAddrs
  WriteAddrs = {1}
  ReadLens = {0, 1, 4}
  WriteLens = {1, 3}
  EraseLens = {3, 6, 12}
SPECIFICATION MCSpec
INVARIANTS TypeOK ReadIsCopy EraseIsExact WriteStaysInRange
PROPERTY BusyChipIsLeftAlone
