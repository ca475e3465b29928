CONSTANTS
  Irqs <- MCIrqs
  Registrations <- MCRegistrations
  MaxEdges = 4
  MaxRequests = 1
SPECIFICATION SlowSpec
PROPERTY RefinesKeyLeds
CHECK_DEADLOCK FALSE
