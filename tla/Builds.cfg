SPECIFICATION FairSpec
CONSTANTS
  s1 = s1
  s2 = s2
  w1 = w1
  w2 = w2
  None = None
  Services = {s1, s2}
  Builders = {w1, w2}
  Intermittent = {w2}
  Scopes <- AllScopes
  AttemptLimit = 2
  MaxBuilds = 3
INVARIANTS
  DeploymentShowsBuild
  OneBuildEach
  LatestClaimWins
PROPERTIES
  RolloutsNeverBack
  NothingWaitsForever
