CONSTANTS
  Irqs <- MCIrqs
  Registrations <- MCRegistrations
  MaxEdges = 3
  MaxRequests = 0
SPECIFICATION FairSpec
PROPERTY ClearedEintWasServiced
CHECK_DEADLOCK FALSE
