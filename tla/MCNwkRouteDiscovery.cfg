SPECIFICATION Spec
CONSTANTS
  S = S
  A = A
  B = B
  T = T
  Nodes <- FourNodes
  Groups = {}
  Members <- OnlySelf
  NonRouting = {}
  Quality <- Links
  Lossy <- LossyLinks
  NSlots = 1
  Timeout = 2
  Frames = {1}
  Demands <- OneDemand
  MayForget <- LostAtSource
  Broadcast = Broadcast
  Unknown = Unknown
  NONE = NONE
INVARIANTS
  WaitersHaveDiscovery
  RoutesLead
CHECK_DEADLOCK FALSE
PROPERTY WaitersServed
