SPECIFICATION Spec
CONSTANTS
  Image = {i1}
  Video = {v1}
  Tries = 2
  MaxVersion = 2
  MaxChanges = 1
  MaxFaults = 1
  None = None
INVARIANTS HumanRatingWins StoredIsOfTheFile NoRowIsForgotten
PROPERTY LeaseIsReleased
CHECK_DEADLOCK FALSE
