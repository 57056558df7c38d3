------------------------------ MODULE NwkDataReq ------------------------------
(***************************************************************************)
(* The data request service (nwkDataReq.c).  The application hands over a  *)
(* request; the service links it into its list, newest first, sends a      *)
(* frame for it when its turn comes, learns from the transmitter how the   *)
(* frame fared, and returns the request with a status by its callback.     *)
(***************************************************************************)
EXTENDS NwkTx, SequencesExt

CONSTANTS
  Reqs,       \* the application's NWK_DataReq_t objects
  ReqParams   \* the parameters it may fill in

ASSUME ReqsAssumption == IsFiniteSet(Reqs)
ASSUME ReqParamsAssumption ==
  ReqParams \subseteq [dst : Addr \ {Me}, ackRequest : BOOLEAN,
                       linkLocal : BOOLEAN, broadcastPan : BOOLEAN]

VARIABLES
  queue,   \* nwkDataReqQueue, head first
  req      \* the service fields of every request

reqVars == <<queue, req>>

(* IDLE: the request belongs to the application and is not in the list.    *)
ReqStates == {"IDLE", "INITIAL", "WAIT_CONF", "CONFIRM"}

IdleReq ==
  [state |-> "IDLE", frame |-> NULL, status |-> "SUCCESS",
   dst |-> Bcast, ackRequest |-> FALSE, linkLocal |-> FALSE,
   broadcastPan |-> FALSE]

Req ==
  [state : ReqStates, frame : Frames \cup {NULL}, status : Statuses,
   dst : Addr \ {Me}, ackRequest : BOOLEAN, linkLocal : BOOLEAN,
   broadcastPan : BOOLEAN]

Queued == {r \in Reqs : req[r].state # "IDLE"}

NwkDataReqInit ==
  /\ queue = <<>>
  /\ req = [r \in Reqs |-> IdleReq]

NwkDataReqTypeOK ==
  /\ queue \in Seq(Reqs)
  /\ req \in [Reqs -> Req]

-------------------------------------------------------------------------------
(* Bugs a change of this module could bring in, for mutation runs.         *)
NWK_DataReqNoLock(r, p) ==
  /\ req[r].state = "IDLE"
  /\ req' = [req EXCEPT ![r] =
               [state |-> "INITIAL", frame |-> NULL, status |-> "SUCCESS",
                dst |-> p.dst, ackRequest |-> p.ackRequest,
                linkLocal |-> p.linkLocal, broadcastPan |-> p.broadcastPan]]
  /\ queue' = <<r>> \o queue
  /\ UNCHANGED <<frame, lock, nwkSeqNum, txVars>>

NWK_DataReqKeepsFrame(r, p) ==
  /\ req[r].state = "IDLE"
  /\ req' = [req EXCEPT ![r] =
               [state |-> "INITIAL", frame |-> @.frame, status |-> "SUCCESS",
                dst |-> p.dst, ackRequest |-> p.ackRequest,
                linkLocal |-> p.linkLocal, broadcastPan |-> p.broadcastPan]]
  /\ queue' = <<r>> \o queue
  /\ lock' = lock + 1
  /\ UNCHANGED <<frame, nwkSeqNum, txVars>>

(* NWK_DataReq().  The application hands over only a request it owns.      *)
NWK_DataReq(r, p) ==
  /\ req[r].state = "IDLE"
  /\ req' = [req EXCEPT ![r] =
               [state |-> "INITIAL", frame |-> NULL, status |-> "SUCCESS",
                dst |-> p.dst, ackRequest |-> p.ackRequest,
                linkLocal |-> p.linkLocal, broadcastPan |-> p.broadcastPan]]
  /\ queue' = <<r>> \o queue
  /\ lock' = lock + 1
  /\ UNCHANGED <<frame, nwkSeqNum, txVars>>

(* The frame nwkDataReqSendFrame() prepares for a request.                 *)
RequestFrame(q) ==
  [FreeFrame EXCEPT
     !.confirm = "nwkDataReqTxConf",
     !.header = [ZeroHeader EXCEPT !.src = Me, !.dst = q.dst, !.seq = NextSeq,
                                   !.ackRequest = q.ackRequest,
                                   !.linkLocal = q.linkLocal,
                                   !.broadcastPan = q.broadcastPan]]

(* nwkDataReqTaskHandler() walks the list and acts on the first request    *)
(* that is not waiting for the transmitter.                                *)
Turn(i) ==
  /\ i \in DOMAIN queue
  /\ req[queue[i]].state \in {"INITIAL", "CONFIRM"}
  /\ \A j \in DOMAIN queue : j < i => req[queue[j]].state = "WAIT_CONF"

NoTurn == \A i \in DOMAIN queue : req[queue[i]].state = "WAIT_CONF"

ReqSendForgetsFrame(i, g) ==
  /\ Turn(i)
  /\ req[queue[i]].state = "INITIAL"
  /\ nwkFrameAlloc(g)
  /\ req' = [req EXCEPT ![queue[i]].state = "WAIT_CONF"]
  /\ \E hop \in Hops, jitter \in Jitter :
       frame' = [frame EXCEPT
                   ![g] = nwkTxFrame(RequestFrame(req[queue[i]]), hop, jitter)]
  /\ lock' = lock + 1
  /\ nwkSeqNum' = NextSeq
  /\ UNCHANGED <<queue, txVars>>

ReqSend(i, g) ==
  /\ Turn(i)
  /\ req[queue[i]].state = "INITIAL"
  /\ nwkFrameAlloc(g)
  /\ req' = [req EXCEPT ![queue[i]] = [@ EXCEPT !.frame = g,
                                                !.state = "WAIT_CONF"]]
  /\ \E hop \in Hops, jitter \in Jitter :
       frame' = [frame EXCEPT
                   ![g] = nwkTxFrame(RequestFrame(req[queue[i]]), hop, jitter)]
  /\ lock' = lock + 1
  /\ nwkSeqNum' = NextSeq
  /\ UNCHANGED <<queue, txVars>>

ReqOutOfMemoryWaits(i) ==
  /\ Turn(i)
  /\ req[queue[i]].state = "INITIAL"
  /\ nwkFrameAllocFails
  /\ req' = [req EXCEPT ![queue[i]].state = "WAIT_CONF",
                        ![queue[i]].status = "OUT_OF_MEMORY"]
  /\ UNCHANGED <<queue, frameVars, txVars>>

ReqOutOfMemory(i) ==
  /\ Turn(i)
  /\ req[queue[i]].state = "INITIAL"
  /\ nwkFrameAllocFails
  /\ req' = [req EXCEPT ![queue[i]] = [@ EXCEPT !.state = "CONFIRM",
                                                !.status = "OUT_OF_MEMORY"]]
  /\ UNCHANGED <<queue, frameVars, txVars>>

Returned(q) == [IdleReq EXCEPT !.frame = q.frame]

(* nwkDataReqConfirm(): the request leaves the list and its callback runs. *)
(* The application reads the status there and the model forgets it; the    *)
(* pointer to the frame is left in the request as it is.                   *)
ReqConfirm(i) ==
  /\ Turn(i)
  /\ req[queue[i]].state = "CONFIRM"
  /\ queue' = RemoveAt(queue, i)
  /\ req' = [req EXCEPT ![queue[i]] = Returned(@)]
  /\ lock' = lock - 1
  /\ UNCHANGED <<frame, nwkSeqNum, txVars>>

TxConfirmRequestNoStatus(f) ==
  /\ frame[f].state = "CONFIRM"
  /\ frame[f].confirm = "nwkDataReqTxConf"
  /\ \E i \in DOMAIN queue :
       /\ req[queue[i]].frame = f
       /\ \A j \in DOMAIN queue : j < i => req[queue[j]].frame # f
       /\ req' = [req EXCEPT ![queue[i]].state = "CONFIRM"]
  /\ frame' = [frame EXCEPT ![f] = FreeFrame]
  /\ lock' = lock - 1
  /\ UNCHANGED <<queue, nwkSeqNum, txVars>>

(* CONFIRM of a frame of this service (nwkTxTaskHandler, then              *)
(* nwkDataReqTxConf): the first listed request that owns the frame gets    *)
(* its status, and the frame goes back to the pool either way.             *)
TxConfirmRequest(f) ==
  /\ frame[f].state = "CONFIRM"
  /\ frame[f].confirm = "nwkDataReqTxConf"
  /\ \/ \E i \in DOMAIN queue :
          /\ req[queue[i]].frame = f
          /\ \A j \in DOMAIN queue : j < i => req[queue[j]].frame # f
          /\ req' = [req EXCEPT ![queue[i]] =
                       [@ EXCEPT !.state = "CONFIRM", !.status = frame[f].status]]
     \/ /\ \A i \in DOMAIN queue : req[queue[i]].frame # f
        /\ UNCHANGED req
  /\ frame' = [frame EXCEPT ![f] = FreeFrame]
  /\ lock' = lock - 1
  /\ UNCHANGED <<queue, nwkSeqNum, txVars>>
===============================================================================
