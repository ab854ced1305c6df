SPECIFICATION LiveSpec
CONSTANTS
  MaxIncarnation = 3
  MaxFiring = 1
  EvalCapacity = 1
  Scopes <- MCScopes
INVARIANTS
  AdmittedUsable
PROPERTY LostOnlySilent
PROPERTY ServedOrReplaced
CHECK_DEADLOCK FALSE
