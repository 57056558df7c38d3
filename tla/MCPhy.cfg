SPECIFICATION Spec
CONSTANTS
  Air <- TwoFrames
  OwnFrame = "own"
  Results <- TwoResults
  NONE = "NONE"
  Settings = {"ADDR"}
INVARIANTS
  IdleListens
  WaitEnds
PROPERTIES
  ImplementsPhyService
  TransmissionsConfirmed
CHECK_DEADLOCK FALSE
