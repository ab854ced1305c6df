SPECIFICATION FairSpec
CONSTANTS
  Scopes <- AllScopes
  MaxNow = 5
  MaxEnds = 3
  MaxGen = 2
  MaxForce = 1
  MaxFault = 1
INVARIANT CountedOnce
PROPERTY StartsAllowed
PROPERTY Recovers
CHECK_DEADLOCK FALSE
