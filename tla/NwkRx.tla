--------------------------------- MODULE NwkRx ---------------------------------
(***************************************************************************)
(* The receiver (nwkRx.c) with the routing of foreign frames (nwkRoute.c). *)
(* A received frame is filtered, then indicated to an endpoint, passed on, *)
(* or dropped; a broadcast may be both indicated and passed on.  What the  *)
(* receiver sends (acknowledgements, route errors, copies of broadcasts)   *)
(* takes a second buffer of the same pool, and is silently not sent when   *)
(* the pool is exhausted.                                                  *)
(*                                                                         *)
(* The answers of the duplicate table and of the routing table are open    *)
(* here; the modules NwkDuplicates and NwkRoute are about them.            *)
(***************************************************************************)
EXTENDS NwkTx

CONSTANT Incoming       \* the headers that the radio may deliver

ASSUME IncomingAssumption == Incoming \subseteq Header

(* Frames the receiver discards before it looks at any table.              *)
Filtered(h) ==
  \/ h.secured
  \/ h.multicast
  \/ h.dst = Bcast /\ h.ackRequest
  \/ h.src = Me

ForMe(h) == h.dst \in {Me, Bcast}

(* Rebroadcast of a frame that came by broadcast and is not (only) for us. *)
PassedOn(h) == h.macDst = Bcast /\ h.dst # Me /\ ~h.linkLocal

(* The state nwkRxHandleReceivedFrame() leaves; "duplicate" is the verdict *)
(* of nwkRxRejectDuplicate().                                              *)
Verdict(h, duplicate) ==
  IF h.secured \/ h.multicast THEN "FINISH"
  ELSE IF h.broadcastPan THEN IF ForMe(h) THEN "INDICATE" ELSE "FINISH"
  ELSE IF Filtered(h) \/ duplicate THEN "FINISH"
  ELSE IF ForMe(h) THEN "INDICATE"
  ELSE IF h.macDst = Me THEN "ROUTE"
  ELSE "FINISH"

(* An indicated frame is acknowledged when its sender asked for it and the *)
(* endpoint took it, and always when it came to us by broadcast: that is   *)
(* how a route to us is discovered.                                        *)
Acknowledged(h, accepted) ==
  /\ ~h.broadcastPan
  /\ \/ accepted /\ h.ackRequest
     \/ h.macDst = Bcast /\ h.dst = Me

(* nwkTxAckReceived() finds w: the first frame that waits for this number, *)
(* or none.  Any other command or data leaves the transmitter alone.       *)
AckMatches(g, acked) ==
  /\ frame[g].state = "WAIT_ACK"
  /\ frame[g].header.seq = acked

Waiter(w, h) ==
  \/ /\ w \in Frames
     /\ h.command = "ACK"
     /\ AckMatches(w, h.acked)
     /\ \A k \in Frames : k < w => ~AckMatches(k, h.acked)
  \/ /\ w = NULL
     /\ h.command = "ACK" => \A k \in Frames : ~AckMatches(k, h.acked)

-------------------------------------------------------------------------------
(* PHY_DataInd(): the radio's receive buffer is copied into a frame, or    *)
(* the frame is lost when there is none.  The radio does not receive while *)
(* it transmits or sleeps.                                                 *)
PHY_DataInd(g, h) ==
  /\ phyState = "IDLE"
  /\ nwkFrameAlloc(g)
  /\ frame' = [frame EXCEPT ![g] = [FreeFrame EXCEPT !.state = "RECEIVED",
                                                     !.header = h]]
  /\ lock' = lock + 1
  /\ UNCHANGED <<nwkSeqNum, txVars>>

(* nwkRxHandleReceivedFrame(), without or with a copy g that is passed on. *)
RxReceived(f) ==
  /\ frame[f].state = "RECEIVED"
  /\ LET h == frame[f].header
     IN  \E duplicate \in BOOLEAN :
           /\ ~Filtered(h) /\ ~h.broadcastPan /\ ~duplicate /\ PassedOn(h)
                => nwkFrameAllocFails
           /\ frame' = [frame EXCEPT ![f].state = Verdict(h, duplicate)]
  /\ UNCHANGED <<lock, nwkSeqNum, txVars>>

RxReceivedPassOn(f, g) ==
  /\ frame[f].state = "RECEIVED"
  /\ nwkFrameAlloc(g)
  /\ LET h == frame[f].header
     IN  /\ ~Filtered(h) /\ ~h.broadcastPan /\ PassedOn(h)
         /\ \E jitter \in Jitter :
              frame' = [frame EXCEPT ![f].state = Verdict(h, FALSE),
                                     ![g] = nwkTxBroadcastFrame(h, jitter)]
  /\ lock' = lock + 1
  /\ UNCHANGED <<nwkSeqNum, txVars>>

(* The frames after the endpoint has seen f: the frame that waited for the *)
(* acknowledgement, if f is one, is ready to be confirmed.                 *)
AfterIndication(f, w) ==
  LET finished == [frame EXCEPT ![f].state = "FINISH"]
  IN  IF w = NULL THEN finished
      ELSE [finished EXCEPT ![w].state = "CONFIRM"]

(* What the endpoint may return: an application decides as it likes, an    *)
(* acknowledgement is accepted when a frame was waiting for it.            *)
EndpointReturns(h, w) ==
  CASE h.command = "ACK" -> {w # NULL}
    [] h.command = "ROUTE_ERROR" -> {TRUE}
    [] OTHER -> BOOLEAN

(* nwkRxHandleIndication() that sends nothing: no acknowledgement is due,  *)
(* or there is no buffer for it.                                           *)
RxIndicate(f, w) ==
  LET h == frame[f].header
  IN  /\ frame[f].state = "INDICATE"
      /\ Waiter(w, h)
      /\ \E accepted \in EndpointReturns(h, w) :
           Acknowledged(h, accepted) => nwkFrameAllocFails
      /\ frame' = AfterIndication(f, w)
      /\ UNCHANGED <<lock, nwkSeqNum, txVars>>

(* nwkRxHandleIndication() with nwkRxSendAck() into the buffer g.          *)
RxIndicateAck(f, w, g) ==
  LET h == frame[f].header
      ack == [nwkFrameCommandInit("ACK", h.src)
                EXCEPT !.secured = h.secured, !.acked = h.seq]
  IN  /\ frame[f].state = "INDICATE"
      /\ Waiter(w, h)
      /\ nwkFrameAlloc(g)
      /\ \E accepted \in EndpointReturns(h, w) : Acknowledged(h, accepted)
      /\ \E hop \in Hops, jitter \in Jitter :
           frame' = [AfterIndication(f, w) EXCEPT
                       ![g] = nwkTxFrame(CommandFrame(ack), hop, jitter)]
      /\ lock' = lock + 1
      /\ nwkSeqNum' = NextSeq
      /\ UNCHANGED txVars

(* nwkRouteFrame(): the next hop is known, the buffer becomes an outgoing  *)
(* frame of the transmitter.                                               *)
RxRoute(f) ==
  /\ frame[f].state = "ROUTE"
  /\ \E hop \in Neighbours, jitter \in Jitter :
       frame' = [frame EXCEPT
                   ![f] = nwkTxFrame([@ EXCEPT !.confirm = "NULL"], hop, jitter)]
  /\ UNCHANGED <<lock, nwkSeqNum, txVars>>

(* nwkRouteFrame(): no route, and no buffer for the route error.           *)
RxRouteUnknown(f) ==
  /\ frame[f].state = "ROUTE"
  /\ nwkFrameAllocFails
  /\ frame' = [frame EXCEPT ![f] = FreeFrame]
  /\ lock' = lock - 1
  /\ UNCHANGED <<nwkSeqNum, txVars>>

(* Bug for mutation runs: the freed buffer is not counted.                 *)
RxRouteErrorKeepsLock(f, g) ==
  LET error == nwkFrameCommandInit("ROUTE_ERROR", frame[f].header.src)
  IN  /\ frame[f].state = "ROUTE"
      /\ nwkFrameAlloc(g)
      /\ \E hop \in Hops, jitter \in Jitter :
           frame' = [frame EXCEPT
                       ![g] = nwkTxFrame(CommandFrame(error), hop, jitter),
                       ![f] = FreeFrame]
      /\ lock' = lock + 1
      /\ nwkSeqNum' = NextSeq
      /\ UNCHANGED txVars

(* nwkRouteFrame(): no route; nwkRouteSendRouteError() takes the buffer g  *)
(* before f is freed.                                                      *)
RxRouteError(f, g) ==
  LET error == nwkFrameCommandInit("ROUTE_ERROR", frame[f].header.src)
  IN  /\ frame[f].state = "ROUTE"
      /\ nwkFrameAlloc(g)
      /\ \E hop \in Hops, jitter \in Jitter :
           frame' = [frame EXCEPT
                       ![g] = nwkTxFrame(CommandFrame(error), hop, jitter),
                       ![f] = FreeFrame]
      /\ nwkSeqNum' = NextSeq
      /\ UNCHANGED <<lock, txVars>>

RxFinish(f) ==
  /\ frame[f].state = "FINISH"
  /\ frame' = [frame EXCEPT ![f] = FreeFrame]
  /\ lock' = lock - 1
  /\ UNCHANGED <<nwkSeqNum, txVars>>
===============================================================================
