CONSTANTS
  Words <- MCWords
  Sectors <- MCSectors
  Image <- MCImage
  Ident <- MCIdent
  Cfi <- MCCfi
  RegionStart <- MCRegionStart
  Addresses <- MCAddresses
  Strings <- MCStrings
  BitAnd <- MCBitAnd
  Values <- MCValues
SPECIFICATION FairSpec
INVARIANTS NorTypeOK CommandsHeard StringStored EraseExact ScanListsSectors
PROPERTY NorOperationsEnd
CHECK_DEADLOCK FALSE
