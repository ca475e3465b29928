CONSTANTS
  Dates <- MCDates
  PowerOn <- MCPowerOn
  Seconds = {0, 89}
  Beyond = Beyond
SPECIFICATION FairSpec
INVARIANTS TypeOK OverOnTheBus
PROPERTIES GetGivesRegisters OnlyDatesAccepted ComesBack
