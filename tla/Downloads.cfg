SPECIFICATION FairSpec
CONSTANTS
  Source = {s1}
  Task = {t1, t2}
  NoTask = NoTask
  MaxConcurrent = 1
  MaxRetries = 1
  MaxCommands = 3
  MaxRestarts = 1
INVARIANTS OneRunPerSource ChildCanBeCancelled StoragePauseIsFresh
CHECK_DEADLOCK FALSE
PROPERTIES PauseQuiesces ControlIsReleased DeleteEnds ShutdownDrains
