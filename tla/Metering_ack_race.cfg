SPECIFICATION RaceSpec
CONSTANTS
  Scopes <- MCRaceScopes
  None = None
PROPERTY RecordsKept
CHECK_DEADLOCK FALSE
