CONSTANTS
  a1 = a1
  a2 = a2
  b1 = b1
  c1 = c1
  d1 = d1
  ua = ua
  ub = ub
  uc = uc
  ud = ud
  Sockets <- ReconnectSockets
  Users <- RejoinUsers
  UserOf <- ReconnectUserOf
  MaxConnects = 2
  Picks = 2
  MaxJoins <- ReconnectMaxJoins
  DbMayFail = FALSE
SYMMETRY ReconnectSymmetry
SPECIFICATION Spec
INVARIANTS
  OneDocPerUser
CHECK_DEADLOCK FALSE
