SPECIFICATION Spec
CONSTANTS
  r1 = r1
  c1 = c1
  c2 = c2
  x = x
  Replicas <- MCReplicas
  Calls <- MCCalls
  CallerIds <- OneCaller
  FreshIds <- NoIds
  Keys = {"a"}
  Values = {0, 1}
  Zero = 0
  Keep = Keep
  NoId = NoId
  Retain = 0
  MaxHead = 2
  MaxLost = 1
SYMMETRY Symmetry
INVARIANTS
  Projected
  NoGap
  LiveCurrent
  AtMostOnce
PROPERTY ReadYourWrites
CHECK_DEADLOCK FALSE
