SPECIFICATION TableFairSpec
CONSTANTS
  a = a
  b = b
  Sources <- TwoSources
  NSlots = 2
  SeqCount = 6
  Window = 2
  IntBits = 4
  TTL = 2
  Reach = 2
  Leap = 3
  MaxNumber = 7
INVARIANTS
  MaskIsHistory
  AcceptedOnce
PROPERTIES
  SilentSourcesForgotten
