----------------------------- MODULE PhyAtmega256rfr2 -----------------------------
(***************************************************************************)
(* The other radio driver (phy/atmega256rfr2/src/phy.c), which is kept     *)
(* beside that of the builds.  Interrupts take the flags as they come and  *)
(* note in phyState what the main loop has to do; settings are collected   *)
(* in phyIb.request until the driver is idle.  Interrupts are never masked *)
(* here, so that the main loop takes no step while a flag is up.  Left     *)
(* out are energy detection and AES, which no build turns on, and random   *)
(* numbers, which BaseNode.c takes from the other driver's function.       *)
(***************************************************************************)
EXTENDS Transceiver

CONSTANT Settings    \* PHY_REQ_CHANNEL, PHY_REQ_ADDR and so on

VARIABLES
  phyState,    \* PHY_STATE_...
  rx,          \* phyIb.rx
  request,     \* phyIb.request
  phyTxStatus,
  pc,          \* where the main loop is: "upper" is outside of this driver
  asked,       \* a PHY_DataReq() is not confirmed yet
  ind, conf    \* what PHY_DataInd() and PHY_DataConf() tell in this step

driver == <<phyState, rx, request, phyTxStatus, pc, asked, ind, conf>>

Init ==
  /\ HardwareInit
  /\ phyState = "IDLE" /\ rx = FALSE /\ request = {}
  /\ phyTxStatus \in Results
  /\ pc = "upper"
  /\ asked = FALSE /\ ind = NONE /\ conf = NONE

phySetRxState ==
  /\ SetState(IF rx THEN "RX_AACK_ON" ELSE "TRX_OFF")
  /\ UNCHANGED <<flags, buffer, trac>>

-------------------------------------------------------------------------------
(* The interrupts.  TX_END also comes after an acknowledgement.            *)
TX_END ==
  /\ "txEnd" \in flags
  /\ flags' = flags \ {"txEnd"}
  /\ IF trx = "TX_ARET_ON"
     THEN phyTxStatus' = trac /\ goPll' = TRUE /\ phyState' = "TX_CONFIRM"
     ELSE UNCHANGED <<phyTxStatus, goPll, phyState>>
  /\ UNCHANGED <<trx, buffer, guarded, acking, trac, rx, request, pc, asked, ind, conf>>

RX_END ==
  /\ "rxEnd" \in flags
  /\ flags' = flags \ {"rxEnd"}
  /\ goPll' = TRUE
  /\ phyState' = "RX_IND"
  /\ UNCHANGED <<trx, buffer, guarded, acking, trac>>
  /\ UNCHANGED <<phyTxStatus, rx, request, pc, asked, ind, conf>>

Interrupt == TX_END \/ RX_END

-------------------------------------------------------------------------------
(* The rest of a pass, as for the other driver.  phyState is set when the  *)
(* transmission has been started: no transmission is as short as that, nor *)
(* is a reception as short as the end of PHY_Wakeup().                     *)
Upper ==
  /\ flags = {}
  /\ pc = "upper" /\ pc' = "task"
  /\ UNCHANGED <<ind, conf>>

PHY_SetRxState(on) ==
  /\ Upper
  /\ rx' = on /\ request' = request \cup {"RX"}
  /\ UNCHANGED <<phyState, phyTxStatus, asked, hardware>>

(* PHY_SetChannel(), PHY_SetBand(), PHY_SetPanId(), PHY_SetShortAddr() and *)
(* PHY_SetTxPower().                                                       *)
PHY_Set(setting) ==
  /\ Upper
  /\ request' = request \cup {setting}
  /\ UNCHANGED <<phyState, rx, phyTxStatus, asked, hardware>>

PHY_DataReq ==
  /\ Upper
  /\ phyState # "SLEEP" /\ ~asked
  /\ SetState("BUSY_TX_ARET")
  /\ buffer' = OwnFrame
  /\ phyState' = "TX_WAIT_END" /\ asked' = TRUE
  /\ UNCHANGED <<rx, request, phyTxStatus, flags, trac>>

PHY_Sleep ==
  /\ Upper
  /\ phyState # "SLEEP" /\ ~asked
  /\ SetState("TRX_OFF")
  /\ phyState' = "SLEEP"
  /\ UNCHANGED <<rx, request, phyTxStatus, asked, flags, buffer, trac>>

PHY_Wakeup ==
  /\ Upper
  /\ phyState = "SLEEP"
  /\ phySetRxState
  /\ phyState' = "IDLE"
  /\ UNCHANGED <<rx, request, phyTxStatus, asked>>

Nothing ==
  /\ Upper
  /\ UNCHANGED <<phyState, rx, request, phyTxStatus, asked, hardware>>

-------------------------------------------------------------------------------
(* PHY_TaskHandler().  That the driver is idle with settings to make is    *)
(* seen before the transceiver is turned off: a frame may come in between. *)
Go(from, to) == flags = {} /\ pc = from /\ pc' = to

Idle ==
  /\ Go("task", "upper")
  /\ \/ phyState = "IDLE" /\ request = {}
     \/ phyState \in {"SLEEP", "TX_WAIT_END"}
  /\ UNCHANGED <<phyState, rx, request, phyTxStatus, asked, ind, conf, hardware>>

HasRequests ==
  /\ Go("task", "set")
  /\ phyState = "IDLE" /\ request # {}
  /\ UNCHANGED <<phyState, rx, request, phyTxStatus, asked, ind, conf, hardware>>

phyHandleSetRequests ==
  /\ Go("set", "upper")
  /\ phySetRxState
  /\ request' = {}
  /\ UNCHANGED <<phyState, rx, phyTxStatus, asked, ind, conf>>

Sent ==
  /\ Go("task", "done")
  /\ phyState = "TX_CONFIRM"
  /\ conf' = phyTxStatus /\ asked' = FALSE
  /\ UNCHANGED <<phyState, rx, request, phyTxStatus, ind, hardware>>

Received ==
  /\ Go("task", "done")
  /\ phyState = "RX_IND"
  /\ ind' = buffer
  /\ UNCHANGED <<phyState, rx, request, phyTxStatus, asked, conf, hardware>>

(* Bug for mutation runs: the receiver is not turned on again.             *)
DoneDeaf ==
  /\ Go("done", "upper")
  /\ trx = "PLL_ON"
  /\ phyState' = "IDLE" /\ ind' = NONE /\ conf' = NONE
  /\ UNCHANGED <<rx, request, phyTxStatus, asked, hardware>>

(* Both wait for PLL_ON, which the interrupt has asked for.  (If settings  *)
(* were made in between, only the next reception ends this wait.)          *)
Done ==
  /\ Go("done", "upper")
  /\ trx = "PLL_ON"
  /\ phyState' = "IDLE" /\ ind' = NONE /\ conf' = NONE
  /\ phySetRxState
  /\ UNCHANGED <<rx, request, phyTxStatus, asked>>

UpperLayers ==
  \/ \E on \in BOOLEAN : PHY_SetRxState(on)
  \/ \E setting \in Settings : PHY_Set(setting)
  \/ PHY_DataReq \/ PHY_Sleep \/ PHY_Wakeup \/ Nothing

PHY_TaskHandler ==
  \/ Idle \/ HasRequests \/ phyHandleSetRequests
  \/ Sent \/ Received \/ Done

Loop == UpperLayers \/ PHY_TaskHandler

Finishes == HardwareFinishes /\ UNCHANGED driver

Arrives == (\E f \in Air : FrameArrives(f)) /\ UNCHANGED driver

Next == Loop \/ Interrupt \/ Finishes \/ Arrives
===============================================================================
