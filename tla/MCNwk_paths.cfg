SPECIFICATION Spec
CONSTANTS
  NBuf = 2
  SeqCount = 2
  AckTicks = 2
  JitterMax = 1
  Me = Me
  P1 = P1
  P2 = P2
  Bcast = Bcast
  r1 = r1
  r2 = r2
  Peers <- ThePeers
  Neighbours <- OneNeighbour
  Incoming <- AllPaths
  ReqParams <- AllParams
  Reqs <- OneReq
INVARIANTS
  LockCounts
  RadioOwnsOneFrame
  SleepsWithoutWork
  TimersArmed
