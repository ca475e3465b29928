CONSTANTS
  a = a
  b = b
  NoByte = NoByte
  AddressByte = AddressByte
  Data <- MCData
  Calls <- WriteCalls
SPECIFICATION FairWriteSpec
INVARIANTS TypeOK BusFreeUnlessWaiting
PROPERTY RefinesXfer
