----------------------------------- MODULE Phy -----------------------------------
(***************************************************************************)
(* Either of the two radio drivers with its transceiver.  Both have the    *)
(* interface of phy.h, and both are to keep its promise (PhyService).      *)
(***************************************************************************)
EXTENDS Naturals, FiniteSets

CONSTANTS Air, OwnFrame, Results, NONE, Settings

ASSUME AirAssumption == OwnFrame \notin Air /\ NONE \notin Air \cup {OwnFrame}
ASSUME ResultsAssumption == NONE \notin Results
ASSUME SettingsAssumption == "RX" \notin Settings

VARIABLES
  trx, flags, buffer, guarded, acking, goPll, trac,
  phyState, rx, request, phyTxStatus, pc, asked, ind, conf,
  build        \* the driver that was compiled

vars == <<trx, flags, buffer, guarded, acking, goPll, trac, phyState, rx,
          request, phyTxStatus, pc, asked, ind, conf, build>>

Polled == INSTANCE PhyAtmegarfr2
Driven == INSTANCE PhyAtmega256rfr2

NoRequests == request = {} /\ phyTxStatus = CHOOSE r \in Results : TRUE

Init ==
  \/ build = "atmegarfr2" /\ Polled!Init /\ NoRequests
  \/ build = "atmega256rfr2" /\ Driven!Init

(* A step of one driver leaves alone what only the other one has.          *)
PolledOnly == build = "atmegarfr2" /\ UNCHANGED <<request, phyTxStatus, build>>
DrivenOnly == build = "atmega256rfr2" /\ UNCHANGED build

Loop == (PolledOnly /\ Polled!Loop) \/ (DrivenOnly /\ Driven!Loop)
Finishes == (PolledOnly /\ Polled!Finishes) \/ (DrivenOnly /\ Driven!Finishes)
Arrives == (PolledOnly /\ Polled!Arrives) \/ (DrivenOnly /\ Driven!Arrives)
Interrupt == DrivenOnly /\ Driven!Interrupt

Next == Loop \/ Finishes \/ Arrives \/ Interrupt

(* The main loop goes on, what the transceiver has begun ends, interrupts  *)
(* are served.  Nothing is assumed about frames from others.               *)
Fairness ==
  /\ WF_vars(Loop) /\ WF_vars(Finishes) /\ WF_vars(Interrupt)

Spec == Init /\ [][Next]_vars /\ Fairness

-------------------------------------------------------------------------------
TypeOK ==
  /\ Polled!HardwareTypeOK
  /\ build \in {"atmegarfr2", "atmega256rfr2"}
  /\ phyState \in {"IDLE", "SLEEP", "TX_WAIT_END", "TX_CONFIRM", "RX_IND"}
  /\ rx \in BOOLEAN /\ asked \in BOOLEAN
  /\ request \subseteq Settings \cup {"RX"} /\ phyTxStatus \in Results
  /\ pc \in {"upper", "task", "received", "sent?", "clear", "set", "done"}
  /\ ind \in Air \cup {NONE} /\ conf \in Results \cup {NONE}

(* How far a transmission is, for the network layer.                       *)
Progress ==
  IF ~asked THEN "none"
  ELSE IF phyState = "TX_CONFIRM" THEN phyTxStatus
  ELSE IF trx = "TX_ARET_ON" THEN trac
  ELSE "sending"

(* The frame that is yet to be indicated: a flag or the driver's state     *)
(* tells of it.                                                            *)
Pending ==
  LET told == build = "atmegarfr2" /\ pc = "received"
      flagged == phyState # "SLEEP" /\ "rxEnd" \in flags /\ ~told
      noted == phyState = "RX_IND" /\ pc # "done"
  IN IF flagged \/ noted THEN buffer ELSE NONE

Service == INSTANCE PhyService WITH
  tx <- Progress, awake <- (phyState # "SLEEP"), got <- Pending

(* Whenever frames come in and transmissions end between the steps of the  *)
(* main loop, both drivers keep the promise of phy.h: one confirmation for *)
(* every request, with the result of that transmission, and no frame       *)
(* indicated twice, altered, after a transmission has used the buffer, or  *)
(* in the middle of one.                                                   *)
ImplementsPhyService == Service!Spec

(* An idle driver listens if it was told to: no order of transmissions,    *)
(* receptions, settings and sleep leaves the node deaf.                    *)
IdleListens ==
  phyState = "IDLE" /\ "RX" \notin request =>
    /\ trx = (IF rx THEN "RX_AACK_ON" ELSE "TRX_OFF")
    /\ ~goPll

(* The driver of the builds waits, without limit, for the transceiver to   *)
(* listen again after a reception: it does so only when it is listening.   *)
(* (The other driver may wait for PLL_ON in vain; see README.md.)          *)
WaitEnds == build = "atmegarfr2" /\ pc = "received" => trx = "RX_AACK_ON"

(* Every frame given to the radio is confirmed.                            *)
TransmissionsConfirmed == asked ~> ~asked
===============================================================================
