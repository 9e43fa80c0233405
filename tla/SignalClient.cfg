CONSTANTS
  r1 = r1
  r2 = r2
  Room = {r1, r2}
  MaxFail = 3
  MaxOps = 3
  MaxKicks = 1
SPECIFICATION FairSpec
INVARIANTS
  OnlineIsAnnounced ErrorHasTimer AbortNeedsFailures
  RoomsFollow FirstConnectionRooms
PROPERTY Recovers
CHECK_DEADLOCK FALSE
