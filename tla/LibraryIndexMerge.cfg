SPECIFICATION Spec
CONSTANTS
  Path = {p1}
  Capacity = 1
  Limit = 1
  MaxWrites = 1
  MaxDeletes = 0
  MaxRuns = 1
  MaxKills = 0
  None = None
INVARIANT HumanRatingSurvives
CHECK_DEADLOCK FALSE
