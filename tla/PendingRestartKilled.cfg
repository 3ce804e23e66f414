SPECIFICATION RestartSpec
CONSTANTS
  Original = original
  Backup = {full, partial}
  Partial = {partial}
  Factory = factory
  Absent = absent
  Torn = torn
  RollbackFails = FALSE
  MaxStagings = 2
INVARIANT RestartIsReversible
