CONSTANTS
  a = a
  b = b
  c = c
  d = d
  NoOne = NoOne
  Node <- LineNode
  Links <- LineLinks
  Slow <- LineSlow
  Hash = {h1, h2}
  N = 2
  MaxPuts = 5
SPECIFICATION Spec
INVARIANTS
  OnceSaveUnseen MisdeliveredOnlyByRedirect DirectedArrives
PROPERTY WindowIsRing
CHECK_DEADLOCK FALSE
