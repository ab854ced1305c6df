SPECIFICATION FairSpec
CONSTANTS
  r1 = r1
  a = a
  b = b
  c = c
  r2 = r2
  None = None
  Commits = {a, b, c}
  Replicas = {r1, r2}
  Scopes <- AllScopes
  MaxSpec = 2
  MaxFaults = 1
INVARIANT HeadGetsBuilt
PROPERTY HeadNeverBack
PROPERTY Follows
CHECK_DEADLOCK FALSE
