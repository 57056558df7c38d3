-------------------------------- MODULE MCNwk --------------------------------
(* Small instances of the network layer of one node.                       *)
EXTENDS Nwk

CONSTANTS P1, P2, r1, r2

OneNeighbour == {P1}
ThePeers == {P1, P2}
OneReq == {r1}
TwoReqs == {r1, r2}

(* Headers by the path they take through the receiver.                     *)
Hdr(src, dst, mac) ==
  [src |-> src, dst |-> dst, macDst |-> mac, seq |-> 0,
   ackRequest |-> FALSE, linkLocal |-> FALSE, secured |-> FALSE,
   multicast |-> FALSE, broadcastPan |-> FALSE,
   command |-> "DATA", acked |-> 0]

DataForMe == [Hdr(P1, Me, Me) EXCEPT !.ackRequest = TRUE]
DiscoverMe == Hdr(P1, Me, Bcast)
ToAll == Hdr(P1, Bcast, Bcast)
LinkLocalToAll == [ToAll EXCEPT !.linkLocal = TRUE]
ToRoute == Hdr(P1, P2, Me)
Foreign == Hdr(P1, P2, Bcast)
OtherPan == [Hdr(P1, Me, Bcast) EXCEPT !.broadcastPan = TRUE]
Echo == Hdr(Me, Bcast, Bcast)
Unsupported == [Hdr(P1, Me, Me) EXCEPT !.secured = TRUE]
AckForMe(n) == [Hdr(P1, Me, Me) EXCEPT !.command = "ACK", !.acked = n]
ErrorForMe == [Hdr(P1, Me, Me) EXCEPT !.command = "ROUTE_ERROR"]

AllPaths == {DataForMe, DiscoverMe, ToAll, LinkLocalToAll, ToRoute, Foreign,
             OtherPan, Echo, Unsupported, ErrorForMe} \cup {AckForMe(n) : n \in Seqs}
RoutedAndAcks == {ToRoute} \cup {AckForMe(n) : n \in Seqs}
OnlyAcks == {AckForMe(n) : n \in Seqs}

Params(dst, ack) ==
  [dst |-> dst, ackRequest |-> ack, linkLocal |-> FALSE, broadcastPan |-> FALSE]

AckedUnicast == {Params(P1, TRUE)}
BothKinds == {Params(P1, TRUE), Params(Bcast, FALSE)}
AllParams == BothKinds \cup
  {[Params(P1, FALSE) EXCEPT !.linkLocal = TRUE],
   [Params(P1, FALSE) EXCEPT !.broadcastPan = TRUE]}

===============================================================================
