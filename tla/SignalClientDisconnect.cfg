CONSTANTS
  r1 = r1
  r2 = r2
  Room = {r1}
  MaxFail = 1
  MaxOps = 1
  MaxKicks = 0
SPECIFICATION FairSpec
PROPERTY DisconnectReconnects
CHECK_DEADLOCK FALSE
