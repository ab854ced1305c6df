SPECIFICATION FairSpec
CONSTANTS
  r1 = r1
  r2 = r2
  Replicas <- MCReplicas
  NoHolder = NoHolder
  MaxToken = 2
  MaxHead = 2
INVARIANTS
  PublicationFenced
  WritesFenced
PROPERTY
  VacancyFilled
CHECK_DEADLOCK FALSE
