CONSTANTS
  NLines = 2
  MaxEdges = 3
  Users = {b1, b2}
  Counters = {c1}
SPECIFICATION FairSpec
INVARIANTS TypeOK OpenIsExclusive FlagMatchesEvent NoSleeperMissesEvent KeyValIsCurrent
           OpenHasAllLines CountsAreAnnounced PressLostOnlyInWindow
PROPERTY WaitingEventIsTaken
CHECK_DEADLOCK FALSE
