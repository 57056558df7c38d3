----------------------------------- MODULE Nwk -----------------------------------
(***************************************************************************)
(* The network layer of one node in its main loop (main.c, sys.c, nwk.c).  *)
(* A pass of the loop visits the radio, the receiver, the transmitter, the *)
(* data request service, the software timers and the application, in this  *)
(* order.  The receiver and the transmitter go through the frames by       *)
(* ascending index and take each frame one state further; "cursor" is the  *)
(* first frame the walk has not passed yet.  Nothing preempts the loop: the *)
(* radio and the timers only leave flags that the loop finds later.        *)
(***************************************************************************)
EXTENDS NwkRx, NwkDataReq

VARIABLES
  phase,    \* where the pass is
  cursor    \* the next frame of the walk

loopVars == <<phase, cursor>>
vars == <<frameVars, txVars, reqVars, loopVars>>

Phases == {"PHY", "RX", "TX", "REQ", "TIMER", "APP"}

Init ==
  /\ NwkFrameInit
  /\ NwkTxInit
  /\ NwkDataReqInit
  /\ phase = "PHY"
  /\ cursor = 1

TypeOK ==
  /\ NwkFrameTypeOK
  /\ NwkTxTypeOK
  /\ NwkDataReqTypeOK
  /\ phase \in Phases
  /\ cursor \in 1..(NBuf + 1)

GoTo(p) == phase' = p /\ cursor' = 1

(* The walk over the frames (nwkFrameNext): f is the next one in a state   *)
(* that the handler has a case for.                                        *)
Handles(f, states) ==
  /\ f \in Frames
  /\ cursor <= f
  /\ frame[f].state \in states
  /\ \A g \in Frames : cursor <= g /\ g < f => frame[g].state \notin states

WalkDone(states) == \A g \in Frames : cursor <= g => frame[g].state \notin states

WalkPast(f) == cursor' = f + 1 /\ UNCHANGED phase

RxCases == RxStates
TxCases == TxStates \ {"WAIT_DELAY", "WAIT_CONF", "WAIT_ACK"}

-------------------------------------------------------------------------------
(* PHY_TaskHandler(): one received frame, or the end of a transmission, or *)
(* nothing; a frame that finds no buffer is lost without a trace.          *)
RadioReceives ==
  /\ phase = "PHY"
  /\ \E g \in Frames, h \in Incoming : PHY_DataInd(g, h)
  /\ GoTo("RX")
  /\ UNCHANGED reqVars

RadioSent ==
  /\ phase = "PHY"
  /\ PHY_DataConf
  /\ GoTo("RX")
  /\ UNCHANGED reqVars

RadioIdle ==
  /\ phase = "PHY"
  /\ GoTo("RX")
  /\ UNCHANGED <<frameVars, txVars, reqVars>>

(* nwkRxTaskHandler() *)
RxStep ==
  /\ phase = "RX"
  /\ \E f \in Frames :
       /\ Handles(f, RxCases)
       /\ \/ RxReceived(f)
          \/ \E g \in Frames : RxReceivedPassOn(f, g)
          \/ \E w \in Frames \cup {NULL} : RxIndicate(f, w)
          \/ \E w \in Frames \cup {NULL}, g \in Frames : RxIndicateAck(f, w, g)
          \/ RxRoute(f)
          \/ RxRouteUnknown(f)
          \/ \E g \in Frames : RxRouteError(f, g)
          \/ RxFinish(f)
       /\ WalkPast(f)
  /\ UNCHANGED reqVars

RxDone ==
  /\ phase = "RX"
  /\ WalkDone(RxCases)
  /\ GoTo("TX")
  /\ UNCHANGED <<frameVars, txVars, reqVars>>

(* nwkTxTaskHandler() *)
TxStep ==
  /\ phase = "TX"
  /\ \E f \in Frames :
       /\ Handles(f, TxCases)
       /\ \/ TxDelay(f) /\ UNCHANGED reqVars
          \/ TxNoDelay(f) /\ UNCHANGED reqVars
          \/ TxSend(f) /\ UNCHANGED reqVars
          \/ TxSendBlocked(f) /\ UNCHANGED reqVars
          \/ TxSent(f) /\ UNCHANGED reqVars
          \/ TxConfirmFree(f) /\ UNCHANGED reqVars
          \/ TxConfirmRequest(f)
       /\ WalkPast(f)

TxDone ==
  /\ phase = "TX"
  /\ WalkDone(TxCases)
  /\ GoTo("REQ")
  /\ UNCHANGED <<frameVars, txVars, reqVars>>

(* nwkDataReqTaskHandler(): at most one request per pass.                  *)
ReqStep ==
  /\ phase = "REQ"
  /\ \E i \in DOMAIN queue :
       \/ \E g \in Frames : ReqSend(i, g)
       \/ ReqOutOfMemory(i)
       \/ ReqConfirm(i)
  /\ GoTo("TIMER")

ReqDone ==
  /\ phase = "REQ"
  /\ NoTurn
  /\ GoTo("TIMER")
  /\ UNCHANGED <<frameVars, txVars, reqVars>>

(* SYS_TimerTaskHandler(): the timers that have expired, in any order and  *)
(* again when several intervals have gone by.                              *)
AckTimerFires ==
  /\ phase = "TIMER"
  /\ nwkTxAckWaitTimerHandler
  /\ UNCHANGED <<reqVars, loopVars>>

DelayTimerFires ==
  /\ phase = "TIMER"
  /\ nwkTxDelayTimerHandler
  /\ UNCHANGED <<reqVars, loopVars>>

TimersDone ==
  /\ phase = "TIMER"
  /\ GoTo("APP")
  /\ UNCHANGED <<frameVars, txVars, reqVars>>

(* The application: hand over a request, put the idle layer to sleep and   *)
(* wake it (EndDevice.c: no request while it sleeps), or nothing.          *)
AppSends ==
  /\ phase = "APP"
  /\ phyState # "SLEEP"
  /\ \E r \in Reqs, p \in ReqParams : NWK_DataReq(r, p)
  /\ UNCHANGED loopVars

AppSleeps ==
  /\ phase = "APP"
  /\ phyState # "SLEEP"
  /\ ~(lock > 0)                           \* NWK_Busy()
  /\ phyState' = "SLEEP"                   \* NWK_SleepReq()
  /\ GoTo("PHY")
  /\ UNCHANGED <<frameVars, activeFrame, ackTimer, delayTimer, reqVars>>

AppWakes ==
  /\ phase = "APP"
  /\ phyState = "SLEEP"
  /\ phyState' = "IDLE"                    \* NWK_WakeupReq()
  /\ GoTo("PHY")
  /\ UNCHANGED <<frameVars, activeFrame, ackTimer, delayTimer, reqVars>>

AppDone ==
  /\ phase = "APP"
  /\ GoTo("PHY")
  /\ UNCHANGED <<frameVars, txVars, reqVars>>

(* The steps of the loop that do not depend on anyone outside.             *)
Loop ==
  \/ RadioIdle \/ RxStep \/ RxDone \/ TxStep \/ TxDone
  \/ ReqStep \/ ReqDone \/ TimersDone \/ AppDone

Next ==
  \/ Loop
  \/ RadioReceives \/ RadioSent
  \/ AckTimerFires \/ DelayTimerFires
  \/ AppSends \/ AppSleeps \/ AppWakes

Spec == Init /\ [][Next]_vars

-------------------------------------------------------------------------------
(***************************************************************************)
(* Safety.                                                                 *)
(***************************************************************************)

(* The lock counter is exactly the work in hand: buffers in use, requests  *)
(* in the list, and the frame the radio owns.  It is what NWK_Busy()       *)
(* answers, so a missed decrement keeps a battery node awake for ever and  *)
(* a missed increment puts it to sleep in the middle of a transmission.    *)
LockCounts ==
  lock = Cardinality(Busy) + Cardinality(Queued)
           + (IF activeFrame = NULL THEN 0 ELSE 1)

(* The radio transmits exactly when the transmitter has an active frame,   *)
(* and that frame is the only one that waits for the radio: PHY_DataConf() *)
(* never dereferences a null or a recycled frame.                          *)
RadioOwnsOneFrame ==
  /\ phyState = "TX_WAIT_END" <=> activeFrame # NULL
  /\ \A f \in Frames : frame[f].state = "WAIT_CONF" <=> f = activeFrame

(* No lost wakeup: a frame that only a timer can move has its timer        *)
(* started and ticks left, although one timer serves all frames and stops  *)
(* itself when it finds no frame to serve.                                 *)
TimersArmed ==
  \A f \in Frames :
    /\ frame[f].state = "WAIT_ACK" => ackTimer /\ frame[f].timeout > 0
    /\ frame[f].state = "WAIT_DELAY" => delayTimer /\ frame[f].timeout > 0

(* Requests and frames belong together: a request that waits for the       *)
(* transmitter owns a frame that will confirm it, every frame that will    *)
(* confirm a request is owned by one, and only such frames, of a request   *)
(* that asked for it, wait for an acknowledgement.                         *)
OwnedBy(r, f) == req[r].state = "WAIT_CONF" /\ req[r].frame = f

RequestsOwnFrames ==
  /\ \A r \in Reqs : req[r].state = "WAIT_CONF" =>
       \E f \in Frames : /\ OwnedBy(r, f)
                        /\ frame[f].confirm = "nwkDataReqTxConf"
                        /\ frame[f].state \in TxStates
  /\ \A f \in Frames : frame[f].confirm = "nwkDataReqTxConf" =>
       \E r \in Reqs : /\ OwnedBy(r, f)
                      /\ \A s \in Reqs : OwnedBy(s, f) => s = r
                      /\ frame[f].header.ackRequest = req[r].ackRequest
  /\ \A f \in Frames : frame[f].state = "WAIT_ACK" =>
       /\ frame[f].confirm = "nwkDataReqTxConf"
       /\ frame[f].header.ackRequest

(* A confirmed request stays in the list with its pointer to a frame that  *)
(* is free again and may serve another request by then.  The search by     *)
(* frame in nwkDataReqTxConf() still finds the right request, because of   *)
(* the order of the list: whoever got the frame later stands before.       *)
ConfirmFindsOwner ==
  \A f \in Frames : frame[f].confirm = "nwkDataReqTxConf" =>
    \E i \in DOMAIN queue :
      /\ OwnedBy(queue[i], f)
      /\ \A j \in DOMAIN queue : j < i => req[queue[j]].frame # f

(* The list holds every request that is in service, once.                  *)
QueueHoldsRequests ==
  /\ \A i, j \in DOMAIN queue : i # j => queue[i] # queue[j]
  /\ {queue[i] : i \in DOMAIN queue} = Queued

(* A sleeping node has nothing in hand: no frame, no request, no           *)
(* transmission is left behind by the check of NWK_Busy().                 *)
SleepsWithoutWork ==
  phyState = "SLEEP" => Busy = {} /\ queue = <<>> /\ activeFrame = NULL

(* A frame stops waiting with success only when an acknowledgement of its  *)
(* own sequence number has just been indicated: neither the end of the     *)
(* waiting time nor a number that belongs to another frame will do.        *)
SuccessMeansAcknowledged ==
  [][\A f \in Frames :
       /\ frame[f].state = "WAIT_ACK" /\ frame'[f].state = "CONFIRM"
       /\ frame'[f].status = "SUCCESS"
       => \E k \in Frames :
            /\ frame[k].state = "INDICATE" /\ frame'[k].state = "FINISH"
            /\ frame[k].header.command = "ACK"
            /\ frame[k].header.acked = frame[f].header.seq]_vars

(***************************************************************************)
(* Refinement: the layer implements the service of NwkService.  The stage  *)
(* of a request is that of its frame while it has one; it is DONE as soon  *)
(* as nothing can change its outcome.                                      *)
(***************************************************************************)
SentFor(r) == frame[req[r].frame]

StageOf(r) ==
  CASE req[r].state = "IDLE" -> "IDLE"
    [] req[r].state = "INITIAL" -> "QUEUED"
    [] req[r].state = "CONFIRM" -> "DONE"
    [] req[r].state = "WAIT_CONF" ->
         CASE SentFor(r).state = "WAIT_ACK" -> "WAITING"
           [] SentFor(r).state = "CONFIRM" -> "DONE"
           [] SentFor(r).state = "SENT" ->
                IF AwaitsAck(SentFor(r)) THEN "SENDING" ELSE "DONE"
           [] OTHER -> "SENDING"

ResultOf(r) ==
  IF StageOf(r) # "DONE" THEN "SUCCESS"
  ELSE IF req[r].state = "WAIT_CONF" THEN SentFor(r).status
  ELSE req[r].status

Service == INSTANCE NwkService WITH
             stage <- [r \in Reqs |-> StageOf(r)],
             asked <- [r \in Reqs |-> req[r].ackRequest],
             result <- [r \in Reqs |-> ResultOf(r)]

(* Every request is answered once, and its status tells the truth about    *)
(* what became of its frame, whatever else shares the pool, the radio, the *)
(* timer and the list with it.                                             *)
ImplementsService == Service!SSpec

(***************************************************************************)
(* Liveness.  The loop runs; a transmission that the radio has begun ends  *)
(* and is noticed; a timer that stays started expires.  Strong fairness is *)
(* needed since each of these is enabled in one phase of the pass only.    *)
(***************************************************************************)
Fairness ==
  /\ WF_vars(Loop)
  /\ SF_vars(RadioSent)
  /\ SF_vars(AckTimerFires)
  /\ SF_vars(DelayTimerFires)

FairSpec == Spec /\ Fairness

(* From some time on nothing new arrives from the air or the application.  *)
(* Without it a stream of new frames in low buffers can hold back a frame  *)
(* in a high one, and a stream of new requests the oldest in the list.     *)
Arrival == RadioReceives \/ AppSends
TrafficStops == <>[][~Arrival]_vars

(* Every request is returned to the application.                           *)
RequestsConfirmed ==
  TrafficStops => \A r \in Reqs : req[r].state # "IDLE" ~> req[r].state = "IDLE"

(* The layer becomes idle for good, so that the node may sleep.            *)
LayerDrains == TrafficStops => <>[](lock = 0)
===============================================================================
