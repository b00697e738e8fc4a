SPECIFICATION FairSpec
CONSTANTS
  c1 = c1  c2 = c2  c3 = c3
  Conns <- ThreeSlots
  Limit = 3
  Workers = 2
  HandlersReturn = FALSE
  PeersLeave = FALSE
  MaxLeaked = 1
PROPERTIES NoStarvation StopEndsServer
