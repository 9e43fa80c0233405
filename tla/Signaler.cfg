CONSTANTS
  a1 = a1
  a2 = a2
  b1 = b1
  c1 = c1
  d1 = d1
  ua = ua
  ub = ub
  uc = uc
  ud = ud
  Sockets <- MCSockets
  Users <- MCUsers
  UserOf <- MCUserOf
  MaxConnects = 2
  Picks = 1
  MaxJoins <- MCMaxJoins
  DbMayFail = TRUE
SYMMETRY MCSymmetry
SPECIFICATION Spec
INVARIANTS
  OneSectionAtATime DegreeMatchesLinks
  LinksPointToMembers OneSidedOnlyByReplacement
PROPERTY IntroductionsAreLinked
CHECK_DEADLOCK FALSE
