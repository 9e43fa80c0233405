CONSTANTS
  a = a
  b = b
  Node = {a, b}
  MaxFail = 1
  MaxLeaves = 1
  MaxIntros = 2
  MaxCands = 1
SPECIFICATION FairSpec
INVARIANTS
  TypeOK RegistriesAgree AbortNeedsFailureOrLeave OffererAddsCandidates
PROPERTY Connects
CHECK_DEADLOCK FALSE
