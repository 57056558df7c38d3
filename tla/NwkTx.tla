--------------------------------- MODULE NwkTx ---------------------------------
(***************************************************************************)
(* The transmitter (nwkTx.c): broadcast jitter, the single frame that the  *)
(* radio may own, the wait for an end-to-end acknowledgement, and the      *)
(* confirmation of a frame to whoever sent it.  The radio driver (phy.c)   *)
(* is seen through its state and the two calls that concern the            *)
(* transmitter, PHY_DataReq() and PHY_DataConf().                          *)
(*                                                                         *)
(* The routing table appears as what it answers: the next hop towards an   *)
(* address is some peer, or unknown, and unknown is the broadcast address. *)
(***************************************************************************)
EXTENDS NwkFrame

CONSTANTS
  Neighbours, \* the peers that routes may lead through
  AckTicks,   \* NWK_ACK_WAIT_TIME / NWK_TX_ACK_WAIT_TIMER_INTERVAL + 1
  JitterMax   \* NWK_TX_DELAY_JITTER_MASK + 1

ASSUME NeighboursAssumption == Neighbours \subseteq Peers
ASSUME TicksAssumption == AckTicks \in Nat \ {0} /\ JitterMax \in Nat \ {0}

VARIABLES
  activeFrame,    \* nwkTxPhyActiveFrame
  ackTimer,       \* nwkTxAckWaitTimer is started
  delayTimer,     \* nwkTxDelayTimer is started
  phyState        \* phyState of phy.c

txVars == <<activeFrame, ackTimer, delayTimer, phyState>>

Jitter == 1..JitterMax

(* NWK_RouteNextHop(): a neighbour, or Bcast when there is no entry.       *)
Hops == Neighbours \cup {Bcast}

(* nwkRoutePrepareTx() with the table's answer "hop".                      *)
nwkRoutePrepareTx(h, hop) ==
  IF h.dst = Bcast THEN Bcast
  ELSE IF h.linkLocal THEN h.dst
  ELSE hop

(* nwkTxFrame(): the frame that is left in the buffer.                     *)
nwkTxFrame(fr, hop, jitter) ==
  LET mac == IF fr.header.broadcastPan THEN fr.header.dst
             ELSE nwkRoutePrepareTx(fr.header, hop)
  IN  [fr EXCEPT !.state = "DELAY",
                 !.status = "SUCCESS",
                 !.header = [@ EXCEPT !.macDst = mac],
                 !.timeout = IF mac = Bcast THEN jitter ELSE 0]

(* nwkTxBroadcastFrame(): the copy that is sent on.                        *)
nwkTxBroadcastFrame(h, jitter) ==
  [FreeFrame EXCEPT !.state = "DELAY",
                    !.header = [h EXCEPT !.macDst = Bcast],
                    !.timeout = jitter]

(* A command frame, cleared by the allocation and filled in.               *)
CommandFrame(h) == [FreeFrame EXCEPT !.header = h]

NwkTxInit ==
  /\ activeFrame = NULL
  /\ ackTimer = FALSE
  /\ delayTimer = FALSE
  /\ phyState = "IDLE"

NwkTxTypeOK ==
  /\ activeFrame \in Frames \cup {NULL}
  /\ ackTimer \in BOOLEAN
  /\ delayTimer \in BOOLEAN
  /\ phyState \in {"IDLE", "TX_WAIT_END", "SLEEP"}

-------------------------------------------------------------------------------
(* One case of nwkTxTaskHandler() for the frame f, per state of the frame. *)

TxDelay(f) ==
  /\ frame[f].state = "DELAY"
  /\ frame[f].timeout > 0
  /\ frame' = [frame EXCEPT ![f].state = "WAIT_DELAY"]
  /\ delayTimer' = TRUE
  /\ UNCHANGED <<lock, nwkSeqNum, activeFrame, ackTimer, phyState>>

TxNoDelay(f) ==
  /\ frame[f].state = "DELAY"
  /\ frame[f].timeout = 0
  /\ frame' = [frame EXCEPT ![f].state = "SEND"]
  /\ UNCHANGED <<lock, nwkSeqNum, txVars>>

(* Bug for mutation runs: the radio is not asked whether it is free.       *)
TxSendUnasked(f) ==
  /\ frame[f].state = "SEND"
  /\ activeFrame' = f
  /\ frame' = [frame EXCEPT ![f].state = "WAIT_CONF"]
  /\ phyState' = "TX_WAIT_END"
  /\ lock' = lock + 1
  /\ UNCHANGED <<nwkSeqNum, ackTimer, delayTimer>>

TxSend(f) ==
  /\ frame[f].state = "SEND"
  /\ activeFrame = NULL
  /\ activeFrame' = f
  /\ frame' = [frame EXCEPT ![f].state = "WAIT_CONF"]
  /\ phyState' = "TX_WAIT_END"             \* PHY_DataReq()
  /\ lock' = lock + 1
  /\ UNCHANGED <<nwkSeqNum, ackTimer, delayTimer>>

TxSendBlocked(f) ==
  /\ frame[f].state = "SEND"
  /\ activeFrame # NULL
  /\ UNCHANGED <<frameVars, txVars>>

(* A sent frame waits for an acknowledgement only at its originator.       *)
AwaitsAck(fr) ==
  fr.status = "SUCCESS" /\ fr.header.src = Me /\ fr.header.ackRequest

TxSent(f) ==
  /\ frame[f].state = "SENT"
  /\ IF AwaitsAck(frame[f])
     THEN /\ frame' = [frame EXCEPT ![f] = [@ EXCEPT !.state = "WAIT_ACK",
                                                      !.timeout = AckTicks]]
          /\ ackTimer' = TRUE
     ELSE /\ frame' = [frame EXCEPT ![f].state = "CONFIRM"]
          /\ UNCHANGED ackTimer
  /\ UNCHANGED <<lock, nwkSeqNum, activeFrame, delayTimer, phyState>>

(* CONFIRM of a frame without a callback: it goes back to the pool.        *)
TxConfirmFree(f) ==
  /\ frame[f].state = "CONFIRM"
  /\ frame[f].confirm = "NULL"
  /\ frame' = [frame EXCEPT ![f] = FreeFrame]
  /\ lock' = lock - 1
  /\ UNCHANGED <<nwkSeqNum, txVars>>

-------------------------------------------------------------------------------
(* The radio reports the end of the transmission (PHY_TaskHandler,         *)
(* PHY_DataConf): the frame it owned is SENT.                              *)
PHY_DataConf ==
  /\ phyState = "TX_WAIT_END"
  /\ \E status \in {"SUCCESS", "PHY_ERROR"} :
       frame' = [frame EXCEPT ![activeFrame] = [@ EXCEPT !.state = "SENT",
                                                         !.status = status]]
  /\ phyState' = "IDLE"
  /\ activeFrame' = NULL
  /\ lock' = lock - 1
  /\ UNCHANGED <<nwkSeqNum, ackTimer, delayTimer>>

(* Bugs for mutation runs: the timer goes on only after a frame gave up;   *)
(* the status is not set.                                                  *)
AckWaitRestartMisplaced ==
  LET waiting == {f \in Frames : frame[f].state = "WAIT_ACK"}
      Tick(fr) == IF fr.timeout = 1
                  THEN [fr EXCEPT !.timeout = 0, !.state = "CONFIRM",
                                  !.status = "NO_ACK"]
                  ELSE [fr EXCEPT !.timeout = @ - 1]
  IN  /\ ackTimer
      /\ frame' = [f \in Frames |->
                     IF f \in waiting THEN Tick(frame[f]) ELSE frame[f]]
      /\ ackTimer' = (\E f \in waiting : frame[f].timeout = 1)
      /\ UNCHANGED <<lock, nwkSeqNum, activeFrame, delayTimer, phyState>>

AckWaitNoStatus ==
  LET waiting == {f \in Frames : frame[f].state = "WAIT_ACK"}
      Tick(fr) == IF fr.timeout = 1
                  THEN [fr EXCEPT !.timeout = 0, !.state = "CONFIRM"]
                  ELSE [fr EXCEPT !.timeout = @ - 1]
  IN  /\ ackTimer
      /\ frame' = [f \in Frames |->
                     IF f \in waiting THEN Tick(frame[f]) ELSE frame[f]]
      /\ ackTimer' = (waiting # {})
      /\ UNCHANGED <<lock, nwkSeqNum, activeFrame, delayTimer, phyState>>

(* nwkTxAckWaitTimerHandler(): one tick for every waiting frame; the last  *)
(* one confirms the frame with NWK_NO_ACK_STATUS.                          *)
nwkTxAckWaitTimerHandler ==
  LET waiting == {f \in Frames : frame[f].state = "WAIT_ACK"}
      Tick(fr) == IF fr.timeout = 1
                  THEN [fr EXCEPT !.timeout = 0, !.state = "CONFIRM",
                                  !.status = "NO_ACK"]
                  ELSE [fr EXCEPT !.timeout = @ - 1]
  IN  /\ ackTimer
      /\ frame' = [f \in Frames |->
                     IF f \in waiting THEN Tick(frame[f]) ELSE frame[f]]
      /\ ackTimer' = (waiting # {})
      /\ UNCHANGED <<lock, nwkSeqNum, activeFrame, delayTimer, phyState>>

(* nwkTxDelayTimerHandler(): the last tick makes a frame ready to be sent. *)
nwkTxDelayTimerHandler ==
  LET waiting == {f \in Frames : frame[f].state = "WAIT_DELAY"}
      Tick(fr) == IF fr.timeout = 1
                  THEN [fr EXCEPT !.timeout = 0, !.state = "SEND"]
                  ELSE [fr EXCEPT !.timeout = @ - 1]
  IN  /\ delayTimer
      /\ frame' = [f \in Frames |->
                     IF f \in waiting THEN Tick(frame[f]) ELSE frame[f]]
      /\ delayTimer' = (waiting # {})
      /\ UNCHANGED <<lock, nwkSeqNum, activeFrame, ackTimer, phyState>>
===============================================================================
