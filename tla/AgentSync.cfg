SPECIFICATION LiveSpec
CONSTANTS
  a = a
  Allocs <- OneAlloc
  Specs = {s1}
  Overlays = {o1, o2}
  None = None
  MaxDiffEntries = 2
  MaxPatch = 1
  MaxRevision = 3
  MaxSession = 2
  MaxObserve = 1
INVARIANTS
  NeverRefused
PROPERTY
  Follows
PROPERTY
  Reached
CHECK_DEADLOCK FALSE
