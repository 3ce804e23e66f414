SPECIFICATION Spec
CONSTANTS
  Starter = {s1}
  Controller = {c1}
  Duration = 2
  Capacity = 1
  MaxSessions = 2
  MaxClock = 2
  None = None
INVARIANTS SurplusIsLateness RunningIsTicked EndIsStored
CHECK_DEADLOCK FALSE
