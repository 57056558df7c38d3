-------------------------------- MODULE PhyProofs --------------------------------
(***************************************************************************)
(* Both radio drivers keep the promise of phy.h, for whatever frames are   *)
(* in the air, results of transmissions and settings there are, and        *)
(* wherever the transceiver and the interrupts come between the steps of   *)
(* the main loop.  What a driver must know of its transceiver in every     *)
(* state is PolledInv and DrivenInv; the refinement follows from them.     *)
(***************************************************************************)
EXTENDS Phy, TLAPS

Listens == IF rx THEN "RX_AACK_ON" ELSE "TRX_OFF"

(* A frame that is announced lies in the buffer, which is protected.       *)
Announced == "rxEnd" \in flags => buffer \in Air /\ guarded

(* The driver of the builds: its state tells that of the transceiver, and  *)
(* a frame is announced only while it listens, or is forgotten in sleep.   *)
PolledInv ==
  /\ phyState \in {"IDLE", "SLEEP", "TX_WAIT_END"}
  /\ pc \in {"upper", "task", "received", "sent?", "clear"}
  /\ request = {} /\ ~goPll
  /\ asked <=> phyState = "TX_WAIT_END"
  /\ phyState = "IDLE" => trx = Listens
  /\ phyState = "SLEEP" => trx = "TRX_OFF"
  /\ phyState = "TX_WAIT_END" => trx \in {"BUSY_TX_ARET", "TX_ARET_ON"}
  /\ phyState # "SLEEP" => Announced /\ ("rxEnd" \in flags => trx = "RX_AACK_ON")
  /\ pc = "received" => trx = "RX_AACK_ON" /\ "rxEnd" \in flags
  /\ pc # "received" => ind = NONE
  /\ pc # "clear" => conf = NONE

(* The other driver: what phyState says of the transceiver, ...            *)
StateMatchesTrx ==
  /\ phyState = "IDLE" =>
       /\ trx \in {"RX_AACK_ON", "TRX_OFF"} /\ ~goPll
       /\ "RX" \notin request => trx = Listens
  /\ phyState = "SLEEP" => trx = "TRX_OFF" /\ ~goPll
  /\ phyState = "TX_WAIT_END" => trx \in {"BUSY_TX_ARET", "TX_ARET_ON"} /\ ~goPll
  /\ phyState = "TX_CONFIRM" => trx = IF goPll THEN "TX_ARET_ON" ELSE "PLL_ON"
  /\ phyState = "RX_IND" =>
       /\ trx \in {"RX_AACK_ON", "TRX_OFF", "PLL_ON"}
       /\ goPll => trx # "TRX_OFF"
       /\ buffer \in Air

(* ... and what the flags can say in each of its states.                   *)
FlagsMatchTrx ==
  /\ Announced
  /\ "rxEnd" \in flags => trx = "RX_AACK_ON" /\ ~goPll
  /\ trx = "BUSY_TX_ARET" => flags = {}
  /\ trx \in {"BUSY_TX_ARET", "TX_ARET_ON"} => ~acking
  /\ phyState = "TX_CONFIRM" => flags = {} /\ ~acking

DrivenInv ==
  /\ phyState \in {"IDLE", "SLEEP", "TX_WAIT_END", "TX_CONFIRM", "RX_IND"}
  /\ pc \in {"upper", "task", "set", "done"}
  /\ StateMatchesTrx /\ FlagsMatchTrx
  /\ asked <=> \/ phyState = "TX_WAIT_END"
               \/ phyState = "TX_CONFIRM" /\ pc # "done"
  /\ pc = "set" => phyState \in {"IDLE", "RX_IND"}
  /\ pc = "done" => phyState \in {"TX_CONFIRM", "RX_IND"}
  /\ phyState = "TX_CONFIRM" => pc # "set"
  /\ pc # "done" => ind = NONE /\ conf = NONE

IInv ==
  /\ TypeOK
  /\ build = "atmegarfr2" => PolledInv
  /\ build = "atmega256rfr2" => DrivenInv


-------------------------------------------------------------------------------
(* Both drivers start with the transceiver off, as they believe it to be.  *)
LEMMA InitInv == Init => IInv
BY DEF Init, IInv, TypeOK, PolledInv, DrivenInv, StateMatchesTrx, FlagsMatchTrx,
       Announced, Listens, NoRequests, Polled!Init, Polled!HardwareInit,
       Polled!HardwareTypeOK, Driven!Init, Driven!HardwareInit

(* The driver of the builds, step by step: what the layers above ask of it.*)
LEMMA PolledUpper ==
  ASSUME IInv, PolledOnly, Polled!UpperLayers
  PROVE  IInv'
<1> USE AirAssumption, ResultsAssumption, SettingsAssumption
    DEF IInv, TypeOK, PolledInv, Announced, Listens, PolledOnly, Polled!HardwareTypeOK,
        Polled!Upper, Polled!SetState, Polled!phySetRxState, Polled!Listening
<1>1. ASSUME NEW on \in BOOLEAN, Polled!PHY_SetRxState(on) PROVE IInv'
  BY <1>1 DEF Polled!PHY_SetRxState
<1>2. CASE Polled!PHY_RandomReq
  BY <1>2 DEF Polled!PHY_RandomReq
<1>3. CASE Polled!PHY_DataReq
  BY <1>3 DEF Polled!PHY_DataReq
<1>4. CASE Polled!PHY_Sleep
  BY <1>4 DEF Polled!PHY_Sleep
<1>5. CASE Polled!PHY_Wakeup
  BY <1>5 DEF Polled!PHY_Wakeup
<1>6. CASE Polled!Nothing
  BY <1>6 DEF Polled!Nothing, Polled!hardware
<1> QED BY <1>1, <1>2, <1>3, <1>4, <1>5, <1>6 DEF Polled!UpperLayers

(* ... and what PHY_TaskHandler() finds in the flags.                      *)
LEMMA PolledTask ==
  ASSUME IInv, PolledOnly, Polled!PHY_TaskHandler
  PROVE  IInv'
<1> USE AirAssumption, ResultsAssumption
    DEF IInv, TypeOK, PolledInv, Announced, Listens, PolledOnly, Polled!HardwareTypeOK,
        Polled!Go, Polled!hardware
<1>1. CASE Polled!Asleep
  BY <1>1 DEF Polled!Asleep
<1>2. CASE Polled!Received
  BY <1>2 DEF Polled!Received
<1>3. CASE Polled!Read
  BY <1>3 DEF Polled!Read
<1>4. CASE Polled!NotReceived
  BY <1>4 DEF Polled!NotReceived
<1>5. CASE Polled!NotSent
  BY <1>5 DEF Polled!NotSent
<1>6. CASE Polled!Sent
  BY <1>6 DEF Polled!Sent, Polled!SetState, Polled!phySetRxState, Polled!Listening
<1>7. CASE Polled!AckWasSent
  BY <1>7 DEF Polled!AckWasSent
<1>8. CASE Polled!Clear
  BY <1>8 DEF Polled!Clear
<1> QED BY <1>1, <1>2, <1>3, <1>4, <1>5, <1>6, <1>7, <1>8 DEF Polled!PHY_TaskHandler

(* The transceiver goes on by itself while the main loop stands still.     *)
LEMMA PolledHardware ==
  ASSUME IInv, PolledOnly, Polled!Finishes \/ Polled!Arrives
  PROVE  IInv'
<1> USE AirAssumption
    DEF IInv, TypeOK, PolledInv, Announced, Listens, PolledOnly, Polled!HardwareTypeOK,
        Polled!driver
<1>1. CASE Polled!AckSent /\ UNCHANGED Polled!driver
  <2>1. /\ flags' \subseteq {"rxEnd", "txEnd"}
        /\ "rxEnd" \in flags' <=> "rxEnd" \in flags
    BY <1>1 DEF Polled!AckSent
  <2>2. /\ UNCHANGED <<trx, buffer, guarded, goPll, trac, phyState, rx, pc, asked, ind, conf>>
        /\ UNCHANGED <<build, request, phyTxStatus>> /\ acking' = FALSE
    BY <1>1 DEF Polled!AckSent
  <2>3. TypeOK /\ PolledInv
    OBVIOUS
  <2> HIDE DEF IInv, PolledInv, PolledOnly
  <2>4. TypeOK'
    <3>1. Polled!HardwareTypeOK
      BY <2>3
    <3>2. Polled!HardwareTypeOK'
      BY <2>1, <2>2, <3>1
    <3> HIDE DEF Polled!HardwareTypeOK
    <3> QED BY <2>2, <2>3, <3>2
  <2> HIDE DEF TypeOK
  <2>5. PolledInv'
    BY <2>1, <2>2, <2>3 DEF PolledInv
  <2> QED BY <2>2, <2>4, <2>5 DEF IInv, PolledOnly
<1>2. CASE Polled!ReachesPll /\ UNCHANGED Polled!driver
  BY <1>2 DEF Polled!ReachesPll
<1>3. ASSUME NEW r \in Results, Polled!TransmissionEnds(r), UNCHANGED Polled!driver
      PROVE  IInv'
  BY <1>3 DEF Polled!TransmissionEnds
<1>4. ASSUME NEW f \in Air, Polled!FrameArrives(f), UNCHANGED Polled!driver
      PROVE  IInv'
  BY <1>4 DEF Polled!FrameArrives
<1> QED BY <1>1, <1>2, <1>3, <1>4
        DEF Polled!Finishes, Polled!HardwareFinishes, Polled!Arrives

-------------------------------------------------------------------------------
(* The other driver: its callers, its task handler, ...                    *)
LEMMA DrivenUpper ==
  ASSUME IInv, DrivenOnly, Driven!UpperLayers
  PROVE  IInv'
<1> USE SettingsAssumption
    DEF IInv, TypeOK, DrivenInv, StateMatchesTrx, FlagsMatchTrx, Announced, Listens,
        DrivenOnly, Polled!HardwareTypeOK, Driven!Upper, Driven!hardware
<1>1. ASSUME NEW on \in BOOLEAN, Driven!PHY_SetRxState(on) PROVE IInv'
  BY <1>1 DEF Driven!PHY_SetRxState
<1>2. ASSUME NEW setting \in Settings, Driven!PHY_Set(setting) PROVE IInv'
  BY <1>2 DEF Driven!PHY_Set
<1>3. CASE Driven!PHY_DataReq
  BY <1>3 DEF Driven!PHY_DataReq, Driven!SetState
<1>4. CASE Driven!PHY_Sleep
  BY <1>4 DEF Driven!PHY_Sleep, Driven!SetState
<1>5. CASE Driven!PHY_Wakeup
  BY <1>5 DEF Driven!PHY_Wakeup, Driven!SetState, Driven!phySetRxState
<1>6. CASE Driven!Nothing
  BY <1>6 DEF Driven!Nothing
<1> QED BY <1>1, <1>2, <1>3, <1>4, <1>5, <1>6 DEF Driven!UpperLayers

LEMMA DrivenTask ==
  ASSUME IInv, DrivenOnly, Driven!PHY_TaskHandler
  PROVE  IInv'
<1> USE SettingsAssumption
    DEF IInv, TypeOK, DrivenInv, StateMatchesTrx, FlagsMatchTrx, Announced, Listens,
        DrivenOnly, Polled!HardwareTypeOK, Driven!Go, Driven!hardware
<1>1. CASE Driven!Idle
  BY <1>1 DEF Driven!Idle
<1>2. CASE Driven!HasRequests
  BY <1>2 DEF Driven!HasRequests
<1>3. CASE Driven!phyHandleSetRequests
  BY <1>3 DEF Driven!phyHandleSetRequests, Driven!SetState, Driven!phySetRxState
<1>4. CASE Driven!Sent
  BY <1>4 DEF Driven!Sent
<1>5. CASE Driven!Received
  BY <1>5 DEF Driven!Received
<1>6. CASE Driven!Done
  BY <1>6 DEF Driven!Done, Driven!SetState, Driven!phySetRxState
<1> QED BY <1>1, <1>2, <1>3, <1>4, <1>5, <1>6 DEF Driven!PHY_TaskHandler

(* ... and what comes between their steps.                                 *)
LEMMA DrivenHardware ==
  ASSUME IInv, DrivenOnly, Driven!Interrupt \/ Driven!Finishes \/ Driven!Arrives
  PROVE  IInv'
<1> USE SettingsAssumption
    DEF IInv, TypeOK, DrivenInv, StateMatchesTrx, FlagsMatchTrx, Announced, Listens,
        DrivenOnly, Polled!HardwareTypeOK, Driven!driver
<1>1. CASE Driven!TX_END
  <2>1. CASE trx = "TX_ARET_ON"
    <3>1. phyState = "TX_WAIT_END" /\ "rxEnd" \notin flags /\ ~acking
      BY <1>1, <2>1 DEF Driven!TX_END
    <3>2. flags' = {}
      BY <1>1, <3>1 DEF Driven!TX_END
    <3> QED BY <1>1, <2>1, <3>1, <3>2 DEF Driven!TX_END
  <2>2. CASE trx # "TX_ARET_ON"
    BY <1>1, <2>2 DEF Driven!TX_END
  <2> QED BY <2>1, <2>2
<1>2. CASE Driven!RX_END
  <2>1. trx = "RX_AACK_ON" /\ phyState \in {"IDLE", "RX_IND"} /\ buffer \in Air
    BY <1>2 DEF Driven!RX_END
  <2>2. flags' \subseteq {"rxEnd", "txEnd"} /\ "rxEnd" \notin flags'
    BY <1>2 DEF Driven!RX_END
  <2>3. phyState' = "RX_IND" /\ goPll' /\ trx' = "RX_AACK_ON" /\ buffer' \in Air
    BY <1>2, <2>1 DEF Driven!RX_END
  <2>4. TypeOK'
    BY <1>2, <2>2 DEF Driven!RX_END
  <2>5. StateMatchesTrx' /\ FlagsMatchTrx'
    BY <1>2, <2>2, <2>3 DEF Driven!RX_END
  <2>6. /\ ~asked /\ pc \in {"upper", "task", "set", "done"}
        /\ pc # "done" => ind = NONE /\ conf = NONE
    BY <1>2, <2>1
  <2>7. DrivenInv'
    BY <1>2, <2>3, <2>5, <2>6 DEF Driven!RX_END
  <2> QED BY <2>4, <2>7
<1>3. CASE Driven!AckSent /\ UNCHANGED Driven!driver
  <2>1. /\ flags' \subseteq {"rxEnd", "txEnd"}
        /\ "rxEnd" \in flags' <=> "rxEnd" \in flags
        /\ trx \notin {"BUSY_TX_ARET", "TX_ARET_ON"} /\ phyState # "TX_CONFIRM"
    BY <1>3 DEF Driven!AckSent
  <2>2. /\ UNCHANGED <<trx, buffer, guarded, goPll, trac, phyState, rx, pc, asked, ind, conf>>
        /\ UNCHANGED <<build, request, phyTxStatus>> /\ acking' = FALSE
    BY <1>3 DEF Driven!AckSent
  <2>3. TypeOK /\ DrivenInv
    OBVIOUS
  <2> HIDE DEF IInv, DrivenInv, DrivenOnly, StateMatchesTrx, FlagsMatchTrx
  <2>4. TypeOK'
    <3>1. Polled!HardwareTypeOK
      BY <2>3
    <3>2. Polled!HardwareTypeOK'
      BY <2>1, <2>2, <3>1
    <3> HIDE DEF Polled!HardwareTypeOK
    <3> QED BY <2>2, <2>3, <3>2
  <2> HIDE DEF TypeOK
  <2>5. StateMatchesTrx' /\ FlagsMatchTrx'
    BY <2>1, <2>2, <2>3 DEF DrivenInv, StateMatchesTrx, FlagsMatchTrx
  <2>6. DrivenInv'
    BY <2>2, <2>3, <2>5 DEF DrivenInv
  <2> QED BY <2>2, <2>4, <2>6 DEF IInv, DrivenOnly
<1>4. CASE Driven!ReachesPll /\ UNCHANGED Driven!driver
  BY <1>4 DEF Driven!ReachesPll
<1>5. ASSUME NEW r \in Results, Driven!TransmissionEnds(r), UNCHANGED Driven!driver
      PROVE  IInv'
  BY <1>5 DEF Driven!TransmissionEnds
<1>6. ASSUME NEW f \in Air, Driven!FrameArrives(f), UNCHANGED Driven!driver
      PROVE  IInv'
  BY <1>6 DEF Driven!FrameArrives
<1> QED BY <1>1, <1>2, <1>3, <1>4, <1>5, <1>6
        DEF Driven!Interrupt, Driven!Finishes, Driven!HardwareFinishes, Driven!Arrives

(* What a driver knows of its transceiver holds in every state.            *)
THEOREM DriverInvariant == Spec => []IInv
<1>1. IInv /\ [Next]_vars => IInv'
  <2> SUFFICES ASSUME IInv, [Next]_vars PROVE IInv'
    OBVIOUS
  <2>1. CASE PolledOnly /\ (Polled!Loop \/ Polled!Finishes \/ Polled!Arrives)
    BY <2>1, PolledUpper, PolledTask, PolledHardware DEF Polled!Loop
  <2>2. CASE DrivenOnly /\ (Driven!Loop \/ Driven!Interrupt
                              \/ Driven!Finishes \/ Driven!Arrives)
    BY <2>2, DrivenUpper, DrivenTask, DrivenHardware DEF Driven!Loop
  <2>3. CASE UNCHANGED vars
    BY <2>3 DEF vars, IInv, TypeOK, PolledInv, DrivenInv, StateMatchesTrx, FlagsMatchTrx,
                Announced, Listens, Polled!HardwareTypeOK
  <2> QED BY <2>1, <2>2, <2>3 DEF Next, Loop, Finishes, Arrives, Interrupt
<1> QED BY InitInv, <1>1, PTL DEF Spec

(* TypeOK: the buffer never holds anything but a frame that came or the    *)
(* one to be sent, and neither driver reads a result that no transmission  *)
(* had, or a state of the transceiver that it does not know (phy.c of both *)
(* builds).                                                                *)
THEOREM TypeCorrect == Spec => []TypeOK
<1>1. IInv => TypeOK
  BY DEF IInv
<1> QED BY DriverInvariant, <1>1, PTL

(* An idle driver listens if it was told to, whatever was sent, received,  *)
(* set and slept through before: neither driver leaves its node deaf.      *)
THEOREM NeverDeaf == Spec => []IdleListens
<1>1. IInv => IdleListens
  BY DEF IInv, TypeOK, PolledInv, DrivenInv, StateMatchesTrx, IdleListens, Listens
<1> QED BY DriverInvariant, <1>1, PTL

(* When the driver of the builds waits for the end of a reception, the     *)
(* transceiver listens, so that the wait ends with the acknowledgement.    *)
THEOREM WaitHasAnEnd == Spec => []WaitEnds
<1>1. IInv => WaitEnds
  BY DEF IInv, PolledInv, WaitEnds
<1> QED BY DriverInvariant, <1>1, PTL

-------------------------------------------------------------------------------
(* The refinement, step by step.  In every state the two values the        *)
(* network layer does not see are these.                                   *)
Step == [Service!Next]_(Service!vars)

LEMMA PolledServes ==
  ASSUME IInv, PolledOnly, Polled!Next
  PROVE  Step
<1> USE AirAssumption
    DEF IInv, TypeOK, PolledInv, Announced, Listens, PolledOnly, Polled!HardwareTypeOK,
        Polled!Upper, Polled!Go, Polled!SetState, Polled!phySetRxState, Polled!Listening,
        Polled!hardware, Polled!driver, Progress, Pending, Service!MayLose
<1>1. ASSUME NEW on \in BOOLEAN, Polled!PHY_SetRxState(on) PROVE Service!Lose
  BY <1>1 DEF Polled!PHY_SetRxState, Service!Lose
<1>2. ASSUME Polled!PHY_RandomReq PROVE Service!Lose
  BY <1>2 DEF Polled!PHY_RandomReq, Service!Lose
<1>3. ASSUME Polled!PHY_DataReq PROVE Service!DataReq
  BY <1>3 DEF Polled!PHY_DataReq, Service!DataReq
<1>4. ASSUME Polled!PHY_Sleep PROVE Service!Sleep
  BY <1>4 DEF Polled!PHY_Sleep, Service!Sleep
<1>5. ASSUME Polled!PHY_Wakeup PROVE Service!Wakeup
  BY <1>5 DEF Polled!PHY_Wakeup, Service!Wakeup
<1>6. ASSUME Polled!Nothing PROVE UNCHANGED Service!vars
  BY <1>6 DEF Polled!Nothing, Service!vars
<1>7. ASSUME Polled!Asleep \/ Polled!NotReceived \/ Polled!NotSent \/ Polled!AckWasSent
      PROVE  UNCHANGED Service!vars
  BY <1>7 DEF Polled!Asleep, Polled!NotReceived, Polled!NotSent, Polled!AckWasSent,
              Service!vars
<1>8. ASSUME Polled!Received PROVE Service!DataInd
  BY <1>8 DEF Polled!Received, Service!DataInd
<1>9. ASSUME Polled!Read \/ Polled!Clear PROVE Service!Taken
  BY <1>9 DEF Polled!Read, Polled!Clear, Service!Taken
<1>10. ASSUME Polled!Sent PROVE Service!DataConf
  BY <1>10 DEF Polled!Sent, Service!DataConf
<1>11. ASSUME Polled!AckSent \/ Polled!ReachesPll, UNCHANGED Polled!driver
       PROVE  UNCHANGED Service!vars
  BY <1>11 DEF Polled!AckSent, Polled!ReachesPll, Service!vars
<1>12. ASSUME NEW r \in Results, Polled!TransmissionEnds(r), UNCHANGED Polled!driver
       PROVE  Service!Transmitted
  BY <1>12 DEF Polled!TransmissionEnds, Service!Transmitted
<1>13. ASSUME NEW f \in Air, Polled!FrameArrives(f), UNCHANGED Polled!driver
       PROVE  Service!Arrives
  BY <1>13 DEF Polled!FrameArrives, Service!Arrives
<1> QED
  BY <1>1, <1>2, <1>3, <1>4, <1>5, <1>6, <1>7, <1>8, <1>9, <1>10, <1>11, <1>12, <1>13
  DEF Polled!Next, Polled!Loop, Polled!UpperLayers, Polled!PHY_TaskHandler,
      Polled!Finishes, Polled!HardwareFinishes, Polled!Arrives, Step, Service!Next

LEMMA DrivenServes ==
  ASSUME IInv, DrivenOnly, Driven!Next
  PROVE  Step
<1> USE AirAssumption
    DEF IInv, TypeOK, DrivenInv, StateMatchesTrx, FlagsMatchTrx, Announced, Listens,
        DrivenOnly, Polled!HardwareTypeOK, Driven!Upper, Driven!Go, Driven!SetState,
        Driven!phySetRxState, Driven!hardware, Driven!driver,
        Progress, Pending, Service!MayLose
<1>1. ASSUME NEW on \in BOOLEAN, Driven!PHY_SetRxState(on) PROVE UNCHANGED Service!vars
  BY <1>1 DEF Driven!PHY_SetRxState, Service!vars
<1>2. ASSUME NEW setting \in Settings, Driven!PHY_Set(setting)
      PROVE  UNCHANGED Service!vars
  BY <1>2 DEF Driven!PHY_Set, Service!vars
<1>3. ASSUME Driven!PHY_DataReq PROVE Service!DataReq
  BY <1>3 DEF Driven!PHY_DataReq, Service!DataReq
<1>4. ASSUME Driven!PHY_Sleep PROVE Service!Sleep
  BY <1>4 DEF Driven!PHY_Sleep, Service!Sleep
<1>5. ASSUME Driven!PHY_Wakeup PROVE Service!Wakeup
  BY <1>5 DEF Driven!PHY_Wakeup, Service!Wakeup
<1>6. ASSUME Driven!Nothing PROVE UNCHANGED Service!vars
  BY <1>6 DEF Driven!Nothing, Service!vars
<1>7. ASSUME Driven!Idle \/ Driven!HasRequests PROVE UNCHANGED Service!vars
  BY <1>7 DEF Driven!Idle, Driven!HasRequests, Service!vars
<1>8. ASSUME Driven!phyHandleSetRequests PROVE UNCHANGED Service!vars
  BY <1>8 DEF Driven!phyHandleSetRequests, Service!vars
<1>9. ASSUME Driven!Sent PROVE Service!DataConf
  BY <1>9 DEF Driven!Sent, Service!DataConf
<1>10. ASSUME Driven!Received PROVE Service!DataInd
  BY <1>10 DEF Driven!Received, Service!DataInd
<1>11. ASSUME Driven!Done PROVE Service!Taken
  BY <1>11 DEF Driven!Done, Service!Taken
<1>12. ASSUME Driven!TX_END PROVE UNCHANGED Service!vars
  BY <1>12 DEF Driven!TX_END, Service!vars
<1>13. ASSUME Driven!RX_END PROVE Service!Lose
  BY <1>13 DEF Driven!RX_END, Service!Lose
<1>14. ASSUME Driven!AckSent \/ Driven!ReachesPll, UNCHANGED Driven!driver
       PROVE  UNCHANGED Service!vars
  BY <1>14 DEF Driven!AckSent, Driven!ReachesPll, Service!vars
<1>15. ASSUME NEW r \in Results, Driven!TransmissionEnds(r), UNCHANGED Driven!driver
       PROVE  Service!Transmitted
  BY <1>15 DEF Driven!TransmissionEnds, Service!Transmitted
<1>16. ASSUME NEW f \in Air, Driven!FrameArrives(f), UNCHANGED Driven!driver
       PROVE  Service!Arrives
  BY <1>16 DEF Driven!FrameArrives, Service!Arrives
<1> QED
  BY <1>1, <1>2, <1>3, <1>4, <1>5, <1>6, <1>7, <1>8, <1>9, <1>10, <1>11, <1>12, <1>13,
     <1>14, <1>15, <1>16
  DEF Driven!Next, Driven!Loop, Driven!Interrupt, Driven!UpperLayers,
      Driven!PHY_TaskHandler, Driven!Finishes, Driven!HardwareFinishes, Driven!Arrives,
      Step, Service!Next

(* Both drivers keep the promise of phy.h: one confirmation for every      *)
(* frame handed over, with the result of that transmission, and no frame   *)
(* indicated twice, altered, in the middle of a transmission or asleep.    *)
THEOREM DriversServe == Spec => ImplementsPhyService
<1>1. Init => Service!Init
  BY DEF Init, Polled!Init, Driven!Init, Polled!HardwareInit, Driven!HardwareInit,
         Progress, Pending, Service!Init
<1>2. IInv /\ [Next]_vars => Step
  <2> SUFFICES ASSUME IInv, [Next]_vars PROVE Step
    OBVIOUS
  <2>1. CASE PolledOnly /\ Polled!Next
    BY <2>1, PolledServes
  <2>2. CASE DrivenOnly /\ Driven!Next
    BY <2>2, DrivenServes
  <2>3. CASE UNCHANGED vars
    BY <2>3 DEF vars, Step, Service!vars, Progress, Pending
  <2> QED BY <2>1, <2>2, <2>3
          DEF Next, Loop, Finishes, Arrives, Interrupt, Polled!Next, Driven!Next
<1> QED BY <1>1, <1>2, DriverInvariant, PTL
        DEF Spec, Step, ImplementsPhyService, Service!Spec
===============================================================================
