CONSTANTS
  NoByte = NoByte
  AddressByte = AddressByte
  Data <- MCData
  Calls <- MCCalls
  Values = {0, 1}
  Cells = 3
  MaxLen = 2
  ReadLens <- MCReadLens
SPECIFICATION FairAt24Spec
INVARIANTS OnlyPrefixWritten ReadSeesItsCells
PROPERTY WritesReturn
CHECK_DEADLOCK FALSE
