SPECIFICATION FairSpec
CONSTANTS
  e1 = e1
  e2 = e2
  Scopes <- AllScopes
INVARIANTS
  DrainsUnrouted
  SurgeBounded
  SuccessIsWhole
  VolumeHasOneUser
PROPERTIES
  NeverBelowCapacity
  RolloutSettles
  RemovalEnds
CHECK_DEADLOCK FALSE
