CONSTANTS
  a1 = a1
  a2 = a2
  b1 = b1
  c1 = c1
  d1 = d1
  ua = ua
  ub = ub
  uc = uc
  ud = ud
  Sockets <- RejoinSockets
  Users <- RejoinUsers
  UserOf <- RejoinUserOf
  MaxConnects = 1
  Picks = 1
  MaxJoins <- RejoinMaxJoins
  DbMayFail = FALSE
SPECIFICATION FairSpec
INVARIANTS
  DegreeBounded FreedForGood
PROPERTIES LockReleased ImplementsRegistry
CHECK_DEADLOCK FALSE
