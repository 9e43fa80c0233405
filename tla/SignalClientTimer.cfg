CONSTANTS
  r1 = r1
  r2 = r2
  Room = {r1}
  MaxFail = 3
  MaxOps = 1
  MaxKicks = 0
SPECIFICATION Spec
INVARIANT TimerAssertionHolds
CHECK_DEADLOCK FALSE
