SPECIFICATION Spec
CONSTANTS
  Tail = {n1}
  Caller = {c1, c2}
  Main = Main
  Refresher = Refresher
  V6 = FALSE
  MaxChanges = 2
  MaxEvents = 1
  MaxLong = 1
  None = None
PROPERTY ModeIsServed
CHECK_DEADLOCK FALSE
