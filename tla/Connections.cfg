SPECIFICATION FairSpec
CONSTANTS
  c1 = c1  c2 = c2  c3 = c3
  Conns <- ThreeSlots
  Limit = 2
  Workers = 2
  HandlersReturn = TRUE
  PeersLeave = TRUE
  MaxLeaked = 2
INVARIANTS TypeOK PermitsConserved NeverUndercounted
PROPERTIES BacklogServed ImplementsPool
