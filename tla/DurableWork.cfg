SPECIFICATION FairSpec
CONSTANTS
  k1 = k1
  o1 = o1
  o2 = o2
  NoRow = NoRow
  NoOwner = NoOwner
  Keys = {k1}
  Owners <- MCOwners
  Kinds <- MCKinds
  KindOf <- MCKindOf1
  Serves <- MCServes
  Resources = {"service"}
  ResourceOf <- MCResource1
  AttemptLimit = 2
  MaxClaimSweeps = 2
  MaxEnqueues = 3
INVARIANTS OneCommitter SettledOnce
PROPERTY Converges
CHECK_DEADLOCK FALSE
