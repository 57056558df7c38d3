------------------------------- MODULE Transceiver -------------------------------
(***************************************************************************)
(* The radio transceiver of the chip, as the two drivers under phy/ use    *)
(* it.  It has one frame buffer for both directions, reports the end of a  *)
(* reception and of a transmission by flags, and acknowledges by itself    *)
(* (RX_AACK) or waits for the acknowledgement by itself (TX_ARET).  A      *)
(* frame that was received stays protected until the driver says that it   *)
(* has read it (rxSafeMode) or another state is set.                       *)
(***************************************************************************)
EXTENDS Naturals, FiniteSets

CONSTANTS
  Air,        \* frames that other nodes send
  OwnFrame,   \* what PHY_DataReq() has written into the buffer
  Results,    \* tracStatus: success, no acknowledgement, no access
  NONE        \* nothing

VARIABLES
  trx,        \* trxStatus
  flags,      \* IRQ_STATUS_REG: rxEnd, txEnd
  buffer,     \* TRX_FRAME_BUFFER
  guarded,    \* the buffer is protected against the next reception
  acking,     \* an acknowledgement is going out
  goPll,      \* TRX_CMD_PLL_ON is waiting for that
  trac        \* tracStatus

hardware == <<trx, flags, buffer, guarded, acking, goPll, trac>>

HardwareInit ==
  /\ trx = "TRX_OFF" /\ flags = {} /\ buffer = NONE
  /\ guarded = FALSE /\ acking = FALSE /\ goPll = FALSE
  /\ trac \in Results

(* phyTrxSetState(): by force through TRX_OFF, whatever was going on, and  *)
(* wait until the new state is there.                                      *)
SetState(state) ==
  /\ trx' = state
  /\ guarded' = FALSE /\ acking' = FALSE /\ goPll' = FALSE

FrameArrives(f) ==
  /\ trx = "RX_AACK_ON" /\ ~guarded /\ ~acking /\ ~goPll
  /\ buffer' = f /\ guarded' = TRUE
  /\ flags' = flags \cup {"rxEnd"}
  /\ acking' \in BOOLEAN
  /\ UNCHANGED <<trx, goPll, trac>>

AckSent ==
  /\ acking
  /\ acking' = FALSE /\ flags' = flags \cup {"txEnd"}
  /\ UNCHANGED <<trx, buffer, guarded, goPll, trac>>

ReachesPll ==
  /\ goPll /\ ~acking
  /\ trx' = "PLL_ON" /\ goPll' = FALSE /\ guarded' = FALSE
  /\ UNCHANGED <<flags, buffer, acking, trac>>

TransmissionEnds(result) ==
  /\ trx = "BUSY_TX_ARET"
  /\ trx' = "TX_ARET_ON" /\ trac' = result
  /\ flags' = flags \cup {"txEnd"}
  /\ UNCHANGED <<buffer, guarded, acking, goPll>>

HardwareFinishes ==
  AckSent \/ ReachesPll \/ \E result \in Results : TransmissionEnds(result)

HardwareTypeOK ==
  /\ trx \in {"TRX_OFF", "RX_AACK_ON", "BUSY_TX_ARET", "TX_ARET_ON", "PLL_ON"}
  /\ flags \subseteq {"rxEnd", "txEnd"}
  /\ buffer \in Air \cup {OwnFrame, NONE}
  /\ guarded \in BOOLEAN /\ acking \in BOOLEAN /\ goPll \in BOOLEAN
  /\ trac \in Results
===============================================================================
