CONSTANTS
  a = a
  b = b
  NoByte = NoByte
  AddressByte = AddressByte
  Data <- MCData
  Calls <- ReadCalls
SPECIFICATION Spec
INVARIANT ReadDeliversData
CHECK_DEADLOCK FALSE
