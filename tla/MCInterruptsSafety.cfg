CONSTANTS
  Irqs <- MCIrqs
  Registrations <- MCRegistrations
  MaxEdges = 3
  MaxRequests = 1
SPECIFICATION DarkSpec
INVARIANTS TypeOK NoEmptyDispatch DirectEdgeLostOnlyInWindow
PROPERTY InterruptsSettle
CHECK_DEADLOCK FALSE
