SPECIFICATION FairSpec
CONSTANTS
  Scopes <- MCScopes
  None = None
INVARIANTS
  BilledAtMostUsed IntervalsDisjoint Accounted SealedHonest
PROPERTY Delivered
CHECK_DEADLOCK FALSE
