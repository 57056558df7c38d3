------------------------------ MODULE PhyAtmegarfr2 ------------------------------
(***************************************************************************)
(* The radio driver of the builds (phy/atmegarfr2/src/phy.c).  It has no   *)
(* interrupts: PHY_TaskHandler() looks at the flags once in every pass of  *)
(* the main loop, and the transceiver goes on between any two of its       *)
(* steps.  Registers that only hold settings (channel, addresses, power)   *)
(* are left out, and so are energy detection and AES, which no build turns *)
(* on.                                                                     *)
(***************************************************************************)
EXTENDS Transceiver

VARIABLES
  phyState,    \* PHY_STATE_...
  rx,          \* phyRxState
  pc,          \* where the main loop is: "upper" is outside of this driver
  asked,       \* a PHY_DataReq() is not confirmed yet
  ind, conf    \* what PHY_DataInd() and PHY_DataConf() tell in this step

driver == <<phyState, rx, pc, asked, ind, conf>>

Init ==
  /\ HardwareInit
  /\ phyState = "IDLE" /\ rx = FALSE /\ pc = "upper"
  /\ asked = FALSE /\ ind = NONE /\ conf = NONE

Listening == IF rx' THEN "RX_AACK_ON" ELSE "TRX_OFF"

(* phySetRxState(): the flags are cleared while the transceiver is off.    *)
phySetRxState ==
  /\ SetState(Listening) /\ flags' = {}
  /\ UNCHANGED <<buffer, trac>>

-------------------------------------------------------------------------------
(* The rest of a pass: the network layer and the application.  They send   *)
(* one frame at a time and not during sleep, and sleep with no frame out   *)
(* (Nwk shows that they keep to it).                                       *)
Upper == pc = "upper" /\ pc' = "task" /\ UNCHANGED <<ind, conf>>

PHY_SetRxState(on) ==
  /\ Upper
  /\ phyState = "IDLE"
  /\ rx' = on
  /\ phySetRxState
  /\ UNCHANGED <<phyState, asked>>

(* Bug for mutation runs: the flags are not cleared.                       *)
PHY_DataReqKeepsFlags ==
  /\ Upper
  /\ phyState # "SLEEP" /\ ~asked
  /\ SetState("BUSY_TX_ARET")
  /\ buffer' = OwnFrame
  /\ phyState' = "TX_WAIT_END" /\ asked' = TRUE
  /\ UNCHANGED <<rx, trac, flags>>

PHY_DataReq ==
  /\ Upper
  /\ phyState # "SLEEP" /\ ~asked
  /\ SetState("BUSY_TX_ARET")
  /\ flags' = {}
  /\ buffer' = OwnFrame
  /\ phyState' = "TX_WAIT_END" /\ asked' = TRUE
  /\ UNCHANGED <<rx, trac>>

PHY_Sleep ==
  /\ Upper
  /\ phyState # "SLEEP" /\ ~asked
  /\ SetState("TRX_OFF")
  /\ phyState' = "SLEEP"
  /\ UNCHANGED <<rx, asked, flags, buffer, trac>>

PHY_Wakeup ==
  /\ Upper
  /\ phyState = "SLEEP"
  /\ rx' = rx /\ phySetRxState
  /\ phyState' = "IDLE"
  /\ UNCHANGED asked

(* The noise is read in another state of the transceiver, which listens    *)
(* again in the end; what it received meanwhile is dropped.                *)
PHY_RandomReq ==
  /\ Upper
  /\ phyState = "IDLE"
  /\ rx' = rx /\ phySetRxState
  /\ UNCHANGED <<phyState, asked>>

Nothing ==
  /\ Upper
  /\ UNCHANGED <<phyState, rx, asked, hardware>>

-------------------------------------------------------------------------------
(* PHY_TaskHandler(): a frame has come in; the buffer is protected while   *)
(* it is read.                                                             *)
Go(from, to) == pc = from /\ pc' = to

Asleep ==
  /\ Go("task", "upper") /\ phyState = "SLEEP"
  /\ UNCHANGED <<phyState, rx, asked, ind, conf, hardware>>

Received ==
  /\ Go("task", "received")
  /\ phyState # "SLEEP" /\ "rxEnd" \in flags
  /\ ind' = buffer
  /\ UNCHANGED <<phyState, rx, asked, conf, hardware>>

(* Bug for mutation runs: the flag is left for the next pass.              *)
ReadKeepsFlag ==
  /\ Go("received", "upper")
  /\ trx = "RX_AACK_ON" /\ ~acking
  /\ guarded' = FALSE
  /\ ind' = NONE
  /\ UNCHANGED <<phyState, rx, asked, conf, trx, buffer, acking, goPll, trac, flags>>

(* It waits until an acknowledgement has gone out.  Setting one bit of the *)
(* flag register writes back, and so clears, every flag that is set.       *)
Read ==
  /\ Go("received", "upper")
  /\ trx = "RX_AACK_ON" /\ ~acking
  /\ flags' = {} /\ guarded' = FALSE
  /\ ind' = NONE
  /\ UNCHANGED <<phyState, rx, asked, conf, trx, buffer, acking, goPll, trac>>

NotReceived ==
  /\ Go("task", "sent?")
  /\ phyState # "SLEEP" /\ "rxEnd" \notin flags
  /\ UNCHANGED <<phyState, rx, asked, ind, conf, hardware>>

NotSent ==
  /\ Go("sent?", "upper")
  /\ "txEnd" \notin flags
  /\ UNCHANGED <<phyState, rx, asked, ind, conf, hardware>>

Sent ==
  /\ Go("sent?", "clear")
  /\ "txEnd" \in flags /\ trx = "TX_ARET_ON"
  /\ rx' = rx /\ phySetRxState
  /\ phyState' = "IDLE"
  /\ asked' = FALSE /\ conf' = trac
  /\ UNCHANGED ind

(* The acknowledgement of a frame that was received has gone out.          *)
AckWasSent ==
  /\ Go("sent?", "clear")
  /\ "txEnd" \in flags /\ trx # "TX_ARET_ON"
  /\ UNCHANGED <<phyState, rx, asked, ind, conf, hardware>>

(* Again all flags are cleared, with that of a frame that has just come.   *)
Clear ==
  /\ Go("clear", "upper")
  /\ flags' = {}
  /\ conf' = NONE
  /\ UNCHANGED <<phyState, rx, asked, ind, trx, buffer, guarded, acking, goPll, trac>>

UpperLayers ==
  \/ \E on \in BOOLEAN : PHY_SetRxState(on)
  \/ PHY_RandomReq \/ PHY_DataReq \/ PHY_Sleep \/ PHY_Wakeup \/ Nothing

PHY_TaskHandler ==
  \/ Asleep \/ Received \/ Read
  \/ NotReceived \/ NotSent \/ Sent \/ AckWasSent \/ Clear

Loop == UpperLayers \/ PHY_TaskHandler

Finishes == HardwareFinishes /\ UNCHANGED driver

Arrives == (\E f \in Air : FrameArrives(f)) /\ UNCHANGED driver

Next == Loop \/ Finishes \/ Arrives
===============================================================================
