SPECIFICATION FairSpec
CONSTANTS
  tag1 = tag1
  tag2 = tag2
  tag3 = tag3
  NULL = NULL
  Ids <- Tags
  NSlots = 2
  AgeMax = 2
INVARIANTS
  OneRequestAtATime
  NothingLeftBehind
  UniqueRecords
PROPERTIES
  RouterKeepsReporting
