CONSTANTS
  a = a
  b = b
  c = c
  d = d
  NoOne = NoOne
  Node <- CycleNode
  Links <- CycleLinks
  Slow <- CycleSlow
  Hash = {h1}
  N = 3
  MaxPuts = 3
SPECIFICATION Spec
INVARIANTS
  DirectedStaysNear StoppedOnlyByRedirect FloodReachesPeers
CHECK_DEADLOCK FALSE
