CONSTANTS
  Words <- MCWords
  Sectors <- MCSectors
  Image <- MCImage
  Ident <- MCIdent
  Cfi <- MCCfi
  RegionStart <- MCRegionStart
  Addresses <- MCAddresses
  Strings <- MCStrings
  BitAnd <- MCBitAnd
  Values <- MCValues
SPECIFICATION Spec
INVARIANT VectorInPlace
CHECK_DEADLOCK FALSE
