SPECIFICATION Spec
CONSTANTS
  Path = {p1, p2}
  Capacity = 1
  Limit = 1
  MaxWrites = 2
  MaxDeletes = 1
  MaxRuns = 1
  MaxKills = 1
  None = None
SYMMETRY Symmetry
INVARIANTS OneRowPerUrl TagsSurvive ScanIndexesAll RecoveryAgreesWithDisk
CHECK_DEADLOCK FALSE
