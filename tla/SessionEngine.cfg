SPECIFICATION Spec
CONSTANTS
  GameConfigs <- SmallGames
  Draws = 3
  MaxDelay = 4
  MaxClock = 8
  None = None
INVARIANTS TypeOK DelayedTicksAreTimely TimeIsAccounted EventsOwnTheirTime EventLimits
CHECK_DEADLOCK FALSE
