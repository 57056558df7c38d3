SPECIFICATION Spec
CONSTANTS
  NEntries = 3
  a = a
  b = b
  c = c
  d = d
  Peers <- FourPeers
  NonRouting <- OneNonRouting
  Unknown = Unknown
  MaxLqi = 0
  DefaultScore = 2
  DefaultRank = 2
  MaxRank = 4
  Pinned <- FirstPinned
INVARIANTS
  UniqueRoutes
  ScoresAndRanks
PROPERTIES
  EvictsOnlyWhenFull
  FailingRouteForgotten
