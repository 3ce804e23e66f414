SPECIFICATION FairSpec
CONSTANTS
  MaxLoads = 2
  MaxEvents = 2
  CommandCapacity = 2
  StatusCapacity = 1
INVARIANTS TypeOK StatusIsOwn PauseIsRestored
PROPERTIES EndAdvances ShutdownEnds
CHECK_DEADLOCK FALSE
