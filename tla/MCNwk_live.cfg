SPECIFICATION FairSpec
CONSTANTS
  NBuf = 2
  SeqCount = 1
  AckTicks = 2
  JitterMax = 1
  Me = Me
  P1 = P1
  P2 = P2
  Bcast = Bcast
  r1 = r1
  r2 = r2
  Peers <- ThePeers
  Neighbours <- OneNeighbour
  Incoming <- RoutedAndAcks
  ReqParams <- AckedUnicast
  Reqs <- TwoReqs
PROPERTIES
  LayerDrains
  RequestsConfirmed
