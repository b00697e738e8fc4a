SPECIFICATION FairSpec
CONSTANTS
  p1 = p1  p2 = p2  p3 = p3  t1 = t1  t2 = t2
  c1 = c1  c2 = c2  s1 = s1
  NONE = NONE
  Plugins <- OnePlugin
  Key <- OneKey
  Callers = {c1, c2}
  Stoppers = {}
  RunModes = {"plain"}
  Owned = TRUE
  HangingOps = {"ping"}
  CallsReturn = TRUE
PROPERTIES CallsAnswered TeardownTerminates ListenerLeaves PingLeaves
