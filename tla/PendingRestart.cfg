SPECIFICATION RestartSpec
CONSTANTS
  Original = original
  Backup = {full, partial}
  Partial = {partial}
  Factory = factory
  Absent = absent
  Torn = torn
  RollbackFails = FALSE
  MaxStagings = 1
INVARIANTS RestartTypeOK SidecarsMatch FailedStartIsUndone
