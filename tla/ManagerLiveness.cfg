SPECIFICATION FairSpec
CONSTANTS
  p1 = p1  p2 = p2  p3 = p3  t1 = t1  t2 = t2
  c1 = c1  c2 = c2  s1 = s1
  NONE = NONE
  Plugins <- OnePlugin
  Key <- OneKey
  Callers = {}
  Stoppers = {s1}
  RunModes = {"plain", "signals"}
  Owned = TRUE
  HangingOps = {"ping"}
  CallsReturn = TRUE
PROPERTIES ImplementsLiveLifecycle RequestEndsRun OsqueryGoneEndsRun
  SendersReleased ListenerLeaves
