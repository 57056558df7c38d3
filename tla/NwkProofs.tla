------------------------------- MODULE NwkProofs -------------------------------
(***************************************************************************)
(* Invariants of the network layer, for every number of buffers, requests, *)
(* addresses, sequence numbers and timer ticks, and whatever is received.  *)
(*                                                                         *)
(* The invariants depend on one another: the lock is counted right because *)
(* the radio owns a frame whenever a transmission ends; the radio's frame  *)
(* survives the node's sleep because the lock says when work is in hand;   *)
(* and a sleeping node stays without work because the list holds every     *)
(* request in service.  So they are proved together, as CoreInv.           *)
(***************************************************************************)
EXTENDS Nwk, FiniteSetTheorems, SequenceTheorems, TLAPS

FrameStates == {"FREE"} \cup TxStates \cup RxStates

(* Updates that put values of the right type into a frame leave a frame.   *)
LEMMA FrameUpdates ==
  /\ \A fr \in Frame, s \in FrameStates : [fr EXCEPT !.state = s] \in Frame
  /\ \A fr \in Frame, s \in FrameStates, t \in Nat :
       [fr EXCEPT !.state = s, !.timeout = t] \in Frame
  /\ \A fr \in Frame, s \in FrameStates, st \in Statuses :
       [fr EXCEPT !.state = s, !.status = st] \in Frame
  /\ \A fr \in Frame, t \in Nat : [fr EXCEPT !.timeout = t] \in Frame
  /\ \A fr \in Frame, s \in FrameStates, st \in Statuses, t \in Nat :
       [fr EXCEPT !.timeout = t, !.state = s, !.status = st] \in Frame
  /\ \A fr \in Frame, s \in FrameStates, t \in Nat :
       [fr EXCEPT !.timeout = t, !.state = s] \in Frame
  /\ \A fr \in Frame, s \in FrameStates, st \in Statuses, t \in Nat, h \in Header :
       [fr EXCEPT !.state = s, !.status = st, !.header = h, !.timeout = t] \in Frame
  /\ \A h \in Header, m \in Addr : [h EXCEPT !.macDst = m] \in Header
<1>1. \A fr \in Frame, s \in FrameStates : [fr EXCEPT !.state = s] \in Frame
  BY DEF Frame, FrameStates
<1>2. \A fr \in Frame, s \in FrameStates, t \in Nat :
       [fr EXCEPT !.state = s, !.timeout = t] \in Frame
  BY DEF Frame, FrameStates
<1>3. \A fr \in Frame, s \in FrameStates, st \in Statuses :
       [fr EXCEPT !.state = s, !.status = st] \in Frame
  BY DEF Frame, FrameStates
<1>4. \A fr \in Frame, t \in Nat : [fr EXCEPT !.timeout = t] \in Frame
  BY DEF Frame, FrameStates
<1>5. \A fr \in Frame, s \in FrameStates, st \in Statuses, t \in Nat :
       [fr EXCEPT !.timeout = t, !.state = s, !.status = st] \in Frame
  BY DEF Frame, FrameStates
<1>6. \A fr \in Frame, s \in FrameStates, t \in Nat :
       [fr EXCEPT !.timeout = t, !.state = s] \in Frame
  BY DEF Frame, FrameStates
<1>7. \A fr \in Frame, s \in FrameStates, st \in Statuses, t \in Nat, h \in Header :
       [fr EXCEPT !.state = s, !.status = st, !.header = h, !.timeout = t] \in Frame
  BY DEF Frame, FrameStates
<1>8. \A h \in Header, m \in Addr : [h EXCEPT !.macDst = m] \in Header
  BY DEF Header
<1> QED BY <1>1, <1>2, <1>3, <1>4, <1>5, <1>6, <1>7, <1>8

(* What the transmitter and the receiver put into a buffer.                *)
LEMMA ZeroHeaderType == ZeroHeader \in Header
BY SeqCountAssumption DEF ZeroHeader, Header, Addr, Seqs, Commands

(* Every buffer the stack fills anew is a frame.                            *)
LEMMA NewFrames ==
  /\ FreeFrame \in Frame
  /\ \A h \in Header : CommandFrame(h) \in Frame
  /\ \A h \in Header :
       [FreeFrame EXCEPT !.state = "RECEIVED", !.header = h] \in Frame
  /\ \A h \in Header, j \in Jitter : nwkTxBroadcastFrame(h, j) \in Frame
<1>2. FreeFrame \in Frame
  BY ZeroHeaderType DEF FreeFrame, Frame, Statuses, Confirms
<1>3. \A h \in Header : CommandFrame(h) \in Frame
  BY <1>2 DEF CommandFrame, FreeFrame, Frame
<1>4. \A h \in Header :
        [FreeFrame EXCEPT !.state = "RECEIVED", !.header = h] \in Frame
  BY DEF FreeFrame, Frame, RxStates, Statuses, Confirms
<1>5. ASSUME NEW h \in Header, NEW j \in Jitter
      PROVE  nwkTxBroadcastFrame(h, j) \in Frame
  <2> DEFINE new == [h EXCEPT !.macDst = Bcast]
  <2>1. new \in Header
    BY FrameUpdates DEF Addr
  <2>2. j \in Nat
    BY TicksAssumption DEF Jitter
  <2> HIDE DEF new
  <2>3. [FreeFrame EXCEPT !.state = "DELAY", !.header = new, !.timeout = j] \in Frame
    BY <2>1, <2>2 DEF FreeFrame, Frame, TxStates, Statuses, Confirms
  <2> QED BY <2>3 DEF nwkTxBroadcastFrame, new
<1> QED BY <1>2, <1>3, <1>4, <1>5

(* nwkTxFrame() leaves a frame that is to be delayed or sent; who is told  *)
(* of it, who sent it and whether it wants an acknowledgement stay as they *)
(* were.                                                                   *)
LEMMA TxFrame ==
  ASSUME NEW fr \in Frame, NEW hop \in Hops, NEW jitter \in Jitter
  PROVE  /\ nwkTxFrame(fr, hop, jitter) \in Frame
         /\ nwkTxFrame(fr, hop, jitter).state = "DELAY"
         /\ nwkTxFrame(fr, hop, jitter).confirm = fr.confirm
         /\ nwkTxFrame(fr, hop, jitter).header.ackRequest = fr.header.ackRequest
         /\ nwkTxFrame(fr, hop, jitter).header.src = fr.header.src
<1> DEFINE mac == IF fr.header.broadcastPan THEN fr.header.dst
                  ELSE nwkRoutePrepareTx(fr.header, hop)
           new == [fr.header EXCEPT !.macDst = mac]
           ticks == IF mac = Bcast THEN jitter ELSE 0
<1>1. fr.header \in Header
  BY DEF Frame
<1>2. mac \in Addr
  BY <1>1, NeighboursAssumption DEF nwkRoutePrepareTx, Hops, Header, Addr
<1>3. ticks \in Nat
  BY TicksAssumption DEF Jitter
<1> HIDE DEF mac, ticks
<1>4. /\ new \in Header /\ new.ackRequest = fr.header.ackRequest
      /\ new.src = fr.header.src
  <2>1. new \in Header
    BY <1>1, <1>2, FrameUpdates
  <2>2. new.ackRequest = fr.header.ackRequest /\ new.src = fr.header.src
    BY <1>1 DEF Header
  <2> QED BY <2>1, <2>2
<1> HIDE DEF new
<1> DEFINE out == [fr EXCEPT !.state = "DELAY", !.status = "SUCCESS",
                             !.header = new, !.timeout = ticks]
<1>5. out \in Frame
  <2>1. "DELAY" \in FrameStates /\ "SUCCESS" \in Statuses
    BY DEF FrameStates, TxStates, Statuses
  <2> QED BY <1>3, <1>4, <2>1, FrameUpdates, Zenon
<1>6. out.state = "DELAY" /\ out.confirm = fr.confirm /\ out.header = new
  BY DEF Frame
<1>7. out = nwkTxFrame(fr, hop, jitter)
  BY DEF nwkTxFrame, mac, new, ticks
<1> QED BY <1>4, <1>5, <1>6, <1>7

(* The headers and frames of what this node sends itself.                  *)
LEMMA NextSeqType == nwkSeqNum \in Seqs => NextSeq \in Seqs
BY SeqCountAssumption DEF NextSeq, Seqs

(* A command to the source of a header is a header, and asks for nothing.   *)
LEMMA CommandHeaders ==
  ASSUME nwkSeqNum \in Seqs, NEW cmd \in Commands, NEW h \in Header
  PROVE  /\ nwkFrameCommandInit(cmd, h.src) \in Header
         /\ ~nwkFrameCommandInit(cmd, h.src).ackRequest
         /\ [nwkFrameCommandInit(cmd, h.src)
                EXCEPT !.secured = h.secured, !.acked = h.seq] \in Header
         /\ ~[nwkFrameCommandInit(cmd, h.src)
                EXCEPT !.secured = h.secured, !.acked = h.seq].ackRequest
<1> DEFINE c == nwkFrameCommandInit(cmd, h.src)
<1>1. h.src \in Addr /\ h.secured \in BOOLEAN /\ h.seq \in Seqs
  BY DEF Header
<1>2. \A x \in Header, u, v \in Addr, n \in Seqs, k \in Commands :
        [x EXCEPT !.src = u, !.seq = n, !.command = k, !.dst = v] \in Header
  BY DEF Header
<1>3. c \in Header
  <2>1. Me \in Addr /\ NextSeq \in Seqs
    BY NextSeqType DEF Addr
  <2> QED BY <1>1, <1>2, <2>1, ZeroHeaderType, Zenon DEF nwkFrameCommandInit
<1>4. c.ackRequest = FALSE
  <2>1. ZeroHeader.ackRequest = FALSE
    BY DEF ZeroHeader
  <2> QED BY <2>1, ZeroHeaderType DEF nwkFrameCommandInit, Header
<1> HIDE DEF c
<1>5. \A x \in Header, b \in BOOLEAN, n \in Seqs :
        [x EXCEPT !.secured = b, !.acked = n] \in Header
  BY DEF Header
<1>6. [c EXCEPT !.secured = h.secured, !.acked = h.seq] \in Header
  BY <1>1, <1>3, <1>5
<1>7. [c EXCEPT !.secured = h.secured, !.acked = h.seq].ackRequest = FALSE
  BY <1>3, <1>4 DEF Header
<1> QED BY <1>3, <1>6, <1>4, <1>7 DEF c

(* (The field sets are parameters because the provers get lost in them.)   *)
LEMMA RequestHeader ==
  ASSUME NEW A, NEW S, NEW B, NEW C,
         NEW x \in [src : A, dst : A, macDst : A, seq : S,
                    ackRequest : B, linkLocal : B, secured : B,
                    multicast : B, broadcastPan : B, command : C, acked : S],
         NEW u \in A, NEW v \in A, NEW n \in S,
         NEW b1 \in B, NEW b2 \in B, NEW b3 \in B
  PROVE  [x EXCEPT !.src = u, !.dst = v, !.seq = n, !.ackRequest = b1,
                   !.linkLocal = b2, !.broadcastPan = b3]
           \in [src : A, dst : A, macDst : A, seq : S,
               ackRequest : B, linkLocal : B, secured : B,
               multicast : B, broadcastPan : B, command : C, acked : S]
OBVIOUS

(* The frame of a request is a frame that confirms to the service.          *)
LEMMA RequestFrames ==
  ASSUME nwkSeqNum \in Seqs, NEW q \in Req
  PROVE  /\ RequestFrame(q) \in Frame
         /\ RequestFrame(q).confirm = "nwkDataReqTxConf"
         /\ RequestFrame(q).header.ackRequest = q.ackRequest
         /\ RequestFrame(q).header.src = Me
<1> DEFINE h == [ZeroHeader EXCEPT !.src = Me, !.dst = q.dst, !.seq = NextSeq,
                                   !.ackRequest = q.ackRequest,
                                   !.linkLocal = q.linkLocal,
                                   !.broadcastPan = q.broadcastPan]
<1>1. /\ q.dst \in Addr /\ q.ackRequest \in BOOLEAN
      /\ q.linkLocal \in BOOLEAN /\ q.broadcastPan \in BOOLEAN
      /\ Me \in Addr /\ NextSeq \in Seqs
  BY NextSeqType DEF Req, Addr
<1>3. h \in Header
  BY <1>1, ZeroHeaderType, RequestHeader DEF Header
<1>4. h.ackRequest = q.ackRequest /\ h.src = Me
  BY <1>1, ZeroHeaderType DEF Header
<1> HIDE DEF h
<1>5. \A x \in Frame, c \in Confirms, y \in Header :
        [x EXCEPT !.confirm = c, !.header = y] \in Frame
  BY DEF Frame
<1> DEFINE new == [FreeFrame EXCEPT !.confirm = "nwkDataReqTxConf", !.header = h]
<1>6. new \in Frame
  <2>1. "nwkDataReqTxConf" \in Confirms
    BY DEF Confirms
  <2> QED BY <1>3, <1>5, <2>1, NewFrames, Zenon
<1>7. new.confirm = "nwkDataReqTxConf" /\ new.header = h
  BY NewFrames DEF Frame
<1>8. RequestFrame(q) = new
  BY DEF RequestFrame, h
<1> QED BY <1>4, <1>6, <1>7, <1>8

-------------------------------------------------------------------------------
(***************************************************************************)
(* Steps on frames.  Most steps are quiet: whatever frame they change does *)
(* not wait for the radio before and waits for nothing afterwards.         *)
(***************************************************************************)
Waits == {"WAIT_DELAY", "WAIT_CONF", "WAIT_ACK"}

Quiet == \A k \in Frames :
           \/ frame'[k] = frame[k]
           \/ frame[k].state # "WAIT_CONF" /\ frame'[k].state \notin Waits

(* Which buffers a step takes from the pool and gives back to it.          *)
Keeps(S) == \A k \in S : frame[k].state = "FREE" <=> frame'[k].state = "FREE"
Takes(g) == frame[g].state = "FREE" /\ frame'[g].state # "FREE"
Frees(f) == frame[f].state # "FREE" /\ frame'[f].state = "FREE"

(* There are finitely many busy buffers.                                    *)
LEMMA BusyFinite == IsFiniteSet(Busy) /\ Cardinality(Busy) \in Nat
<1>1. IsFiniteSet(Frames)
  BY FS_Interval, NBufAssumption DEF Frames
<1>2. IsFiniteSet(Busy)
  BY <1>1, FS_Subset DEF Busy
<1> QED BY <1>2, FS_CardinalityType

(* There are finitely many requests in service.                             *)
LEMMA QueuedFinite == IsFiniteSet(Queued) /\ Cardinality(Queued) \in Nat
<1>1. IsFiniteSet(Queued)
  BY ReqsAssumption, FS_Subset DEF Queued
<1> QED BY <1>1, FS_CardinalityType

(* A step that takes and gives back no buffer keeps the busy ones.          *)
LEMMA BusyKept == Keeps(Frames) => Busy' = Busy
BY DEF Keeps, Busy

(* One buffer more is busy when one is taken,                               *)
LEMMA BusyTaken ==
  ASSUME NEW g \in Frames, Takes(g), Keeps(Frames \ {g})
  PROVE  Cardinality(Busy') = Cardinality(Busy) + 1
<1>1. Busy' = Busy \cup {g} /\ g \notin Busy
  BY DEF Takes, Keeps, Busy
<1> QED BY <1>1, BusyFinite, FS_AddElement

(* one less when one is given back,                                         *)
LEMMA BusyFreed ==
  ASSUME NEW f \in Frames, Frees(f), Keeps(Frames \ {f})
  PROVE  Cardinality(Busy') = Cardinality(Busy) - 1
<1>1. Busy' = Busy \ {f} /\ f \in Busy
  BY DEF Frees, Keeps, Busy
<1> QED BY <1>1, BusyFinite, FS_RemoveElement

(* and as many as before when one is taken and one given back.              *)
LEMMA BusyMoved ==
  ASSUME NEW f \in Frames, NEW g \in Frames, Frees(f), Takes(g),
         Keeps(Frames \ {f, g})
  PROVE  Cardinality(Busy') = Cardinality(Busy)
<1> DEFINE rest == Busy \ {f}
<1>1. Busy' = rest \cup {g} /\ f \in Busy /\ g \notin rest
  BY DEF Frees, Takes, Keeps, Busy
<1>2. /\ IsFiniteSet(rest)
      /\ Cardinality(rest) = Cardinality(Busy) - 1
  BY <1>1, BusyFinite, FS_RemoveElement
<1> HIDE DEF rest
<1>3. Cardinality(rest \cup {g}) = Cardinality(rest) + 1
  BY <1>1, <1>2, FS_AddElement
<1> QED BY <1>1, <1>2, <1>3, BusyFinite
-------------------------------------------------------------------------------
(***************************************************************************)
(* The steps of the receiver and the quiet ones of the transmitter: types  *)
(* are kept, the step is quiet, and the lock moves with the pool.          *)
(***************************************************************************)
FrameStep ==
  /\ frame' \in [Frames -> Frame]
  /\ Quiet
  /\ lock' \in Int
  /\ lock' - lock = Cardinality(Busy') - Cardinality(Busy)
  /\ nwkSeqNum' \in Seqs
  /\ UNCHANGED txVars

(* Which states are free, and which wait.                                   *)
LEMMA StateKinds ==
  /\ \A s \in RxStates \cup TxStates : s # "FREE" /\ s \in FrameStates
  /\ \A s \in RxStates \cup {"FREE", "DELAY", "SEND", "CONFIRM", "SENT"} :
       s \notin Waits /\ s \in FrameStates
BY DEF RxStates, TxStates, FrameStates, Waits

(* One busy frame goes to a state in which it does not wait.               *)
LEMMA MoveStep ==
  ASSUME NwkFrameTypeOK, NEW f \in Frames, NEW s \in FrameStates,
         frame[f].state # "FREE", frame[f].state # "WAIT_CONF",
         s # "FREE", s \notin Waits,
         frame' = [frame EXCEPT ![f].state = s],
         UNCHANGED <<lock, nwkSeqNum, txVars>>
  PROVE  FrameStep
<1> DEFINE new == [frame[f] EXCEPT !.state = s]
<1>1. new \in Frame /\ new.state = s
  BY FrameUpdates DEF NwkFrameTypeOK, Frame
<1>2. frame' = [frame EXCEPT ![f] = new]
  OBVIOUS
<1> HIDE DEF new
<1>3. frame' \in [Frames -> Frame] /\ frame'[f] = new
      /\ \A k \in Frames \ {f} : frame'[k] = frame[k]
  BY <1>1, <1>2 DEF NwkFrameTypeOK
<1>4. Quiet /\ Keeps(Frames)
  BY <1>1, <1>3 DEF Quiet, Keeps
<1>5. Cardinality(Busy') - Cardinality(Busy) = 0
  BY <1>4, BusyKept, BusyFinite
<1> QED BY <1>3, <1>4, <1>5 DEF FrameStep, NwkFrameTypeOK

(* A buffer is taken for a frame that does not wait.                       *)
LEMMA TakeStep ==
  ASSUME NwkFrameTypeOK, NEW g \in Frames, NEW new \in Frame,
         frame[g].state = "FREE", new.state # "FREE", new.state \notin Waits,
         frame' = [frame EXCEPT ![g] = new], lock' = lock + 1,
         nwkSeqNum' \in Seqs, UNCHANGED txVars
  PROVE  FrameStep
<1>1. frame' \in [Frames -> Frame] /\ frame'[g] = new
      /\ \A k \in Frames \ {g} : frame'[k] = frame[k]
  BY DEF NwkFrameTypeOK
<1>2. Quiet /\ Takes(g) /\ Keeps(Frames \ {g})
  BY <1>1 DEF Quiet, Takes, Keeps
<1>3. Cardinality(Busy') = Cardinality(Busy) + 1
  BY <1>2, BusyTaken
<1> QED BY <1>1, <1>2, <1>3, BusyFinite DEF FrameStep, NwkFrameTypeOK

(* A frame that the radio does not own is given back.                      *)
LEMMA FreeStep ==
  ASSUME NwkFrameTypeOK, NEW f \in Frames,
         frame[f].state # "FREE", frame[f].state # "WAIT_CONF",
         frame' = [frame EXCEPT ![f] = FreeFrame], lock' = lock - 1,
         UNCHANGED <<nwkSeqNum, txVars>>
  PROVE  FrameStep
<1>1. FreeFrame.state = "FREE"
  BY DEF FreeFrame
<1>2. frame' \in [Frames -> Frame] /\ frame'[f] = FreeFrame
      /\ \A k \in Frames \ {f} : frame'[k] = frame[k]
  BY NewFrames DEF NwkFrameTypeOK
<1>3. Quiet /\ Frees(f) /\ Keeps(Frames \ {f})
  BY <1>1, <1>2 DEF Quiet, Frees, Keeps, Waits
<1>4. Cardinality(Busy') = Cardinality(Busy) - 1
  BY <1>3, BusyFreed
<1> QED BY <1>2, <1>3, <1>4, BusyFinite DEF FrameStep, NwkFrameTypeOK

(* A step that takes the buffer g and changes other frames quietly.        *)
LEMMA QuietTake ==
  ASSUME NwkFrameTypeOK, NEW g \in Frames, NEW new \in Frame,
         NEW others \in [Frames -> Frame],
         frame[g].state = "FREE", others[g] = frame[g],
         new.state # "FREE", new.state \notin Waits,
         \A k \in Frames : \/ others[k] = frame[k]
                           \/ /\ frame[k].state \notin {"FREE", "WAIT_CONF"}
                              /\ others[k].state \notin Waits \cup {"FREE"},
         frame' = [others EXCEPT ![g] = new], lock' = lock + 1,
         nwkSeqNum' \in Seqs, UNCHANGED txVars
  PROVE  FrameStep
<1>1. frame' \in [Frames -> Frame] /\ frame'[g] = new
      /\ \A k \in Frames \ {g} : frame'[k] = others[k]
  OBVIOUS
<1>2. Quiet /\ Takes(g) /\ Keeps(Frames \ {g})
  BY <1>1 DEF Quiet, Takes, Keeps
<1>3. Cardinality(Busy') = Cardinality(Busy) + 1
  BY <1>2, BusyTaken
<1> QED BY <1>1, <1>2, <1>3, BusyFinite DEF FrameStep, NwkFrameTypeOK

(* A reception takes a buffer that waits for nothing.                       *)
LEMMA PHY_DataIndStep ==
  ASSUME NwkFrameTypeOK, NEW g \in Frames, NEW h \in Incoming, PHY_DataInd(g, h)
  PROVE  FrameStep
<1> DEFINE new == [FreeFrame EXCEPT !.state = "RECEIVED", !.header = h]
<1>1. new \in Frame
  BY NewFrames, IncomingAssumption
<1>2. new.state = "RECEIVED"
  BY DEF FreeFrame
<1>3. /\ frame[g].state = "FREE" /\ frame' = [frame EXCEPT ![g] = new]
      /\ lock' = lock + 1 /\ nwkSeqNum' \in Seqs /\ UNCHANGED txVars
  BY DEF PHY_DataInd, nwkFrameAlloc, NwkFrameTypeOK
<1> HIDE DEF new
<1> QED BY <1>1, <1>2, <1>3, TakeStep DEF Waits

(* A received frame is finished, indicated or routed.                       *)
LEMMA Verdicts ==
  ASSUME NEW h, NEW d
  PROVE  Verdict(h, d) \in {"FINISH", "INDICATE", "ROUTE"}
BY DEF Verdict

(* The filter only moves the frame on.                                      *)
LEMMA RxReceivedStep ==
  ASSUME NwkFrameTypeOK, NEW f \in Frames, RxReceived(f)
  PROVE  FrameStep
<1>1. PICK d \in BOOLEAN :
        frame' = [frame EXCEPT ![f].state = Verdict(frame[f].header, d)]
  BY DEF RxReceived
<1> DEFINE s == Verdict(frame[f].header, d)
<1>2. s \in {"FINISH", "INDICATE", "ROUTE"}
  BY Verdicts
<1>3. /\ frame[f].state = "RECEIVED"
      /\ frame' = [frame EXCEPT ![f].state = s]
      /\ UNCHANGED <<lock, nwkSeqNum, txVars>>
  BY <1>1 DEF RxReceived
<1> HIDE DEF s
<1> QED BY <1>2, <1>3, MoveStep DEF FrameStates, RxStates, Waits

(* A broadcast is moved on and copied into a buffer.                        *)
LEMMA RxReceivedPassOnStep ==
  ASSUME NwkFrameTypeOK, NEW f \in Frames, NEW g \in Frames,
         RxReceivedPassOn(f, g)
  PROVE  FrameStep
<1> DEFINE h == frame[f].header
           s == Verdict(h, FALSE)
           moved == [frame[f] EXCEPT !.state = s]
           others == [frame EXCEPT ![f] = moved]
<1>1. PICK j \in Jitter :
        frame' = [frame EXCEPT ![f].state = s, ![g] = nwkTxBroadcastFrame(h, j)]
  BY DEF RxReceivedPassOn
<1>2. s \in {"FINISH", "INDICATE", "ROUTE"}
  BY Verdicts
<1>3. h \in Header /\ frame[f] \in Frame
  BY DEF NwkFrameTypeOK, Frame
<1>4. moved \in Frame /\ moved.state = s
  BY <1>2, <1>3, FrameUpdates DEF FrameStates, RxStates, Frame
<1>5. /\ nwkTxBroadcastFrame(h, j) \in Frame
      /\ nwkTxBroadcastFrame(h, j).state = "DELAY"
  BY <1>3, NewFrames DEF nwkTxBroadcastFrame, FreeFrame
<1>6. /\ frame[f].state = "RECEIVED" /\ frame[g].state = "FREE"
      /\ lock' = lock + 1 /\ UNCHANGED <<nwkSeqNum, txVars>>
  BY DEF RxReceivedPassOn, nwkFrameAlloc
<1>7. frame' = [others EXCEPT ![g] = nwkTxBroadcastFrame(h, j)]
  BY <1>1
<1> HIDE DEF s, h, moved
<1>8. /\ others \in [Frames -> Frame] /\ others[f] = moved
      /\ \A k \in Frames \ {f} : others[k] = frame[k]
  BY <1>4 DEF NwkFrameTypeOK
<1> HIDE DEF others
<1> QED BY <1>2, <1>4, <1>5, <1>6, <1>7, <1>8, QuietTake DEF Waits, NwkFrameTypeOK

(* The frames after an indication: f is finished, and the frame that       *)
(* waited for the acknowledgement, if there is one, is to be confirmed.    *)
LEMMA Indicated ==
  ASSUME NwkFrameTypeOK, NEW f \in Frames, NEW w \in Frames \cup {NULL},
         frame[f].state = "INDICATE", Waiter(w, frame[f].header)
  PROVE  /\ AfterIndication(f, w) \in [Frames -> Frame]
         /\ AfterIndication(f, w)[f].state = "FINISH"
         /\ w # NULL => /\ frame[w].state = "WAIT_ACK"
                        /\ AfterIndication(f, w)[w].state = "CONFIRM"
         /\ \A k \in Frames \ {f, w} : AfterIndication(f, w)[k] = frame[k]
<1> DEFINE done == [frame[f] EXCEPT !.state = "FINISH"]
           finished == [frame EXCEPT ![f] = done]
<1>1. done \in Frame /\ done.state = "FINISH"
  <2>1. frame[f] \in Frame /\ "FINISH" \in FrameStates
    BY DEF NwkFrameTypeOK, FrameStates, RxStates
  <2>2. done \in Frame
    BY <2>1, FrameUpdates
  <2> QED BY <2>1, <2>2 DEF Frame
<1> HIDE DEF done
<1>2. /\ finished \in [Frames -> Frame] /\ finished[f] = done
      /\ \A k \in Frames \ {f} : finished[k] = frame[k]
  BY <1>1 DEF NwkFrameTypeOK
<1>3. AfterIndication(f, w) =
        IF w = NULL THEN finished ELSE [finished EXCEPT ![w].state = "CONFIRM"]
  BY DEF AfterIndication, done
<1> HIDE DEF finished
<1>4. CASE w = NULL
  BY <1>1, <1>2, <1>3, <1>4
<1>5. CASE w # NULL
  <2> DEFINE confirmed == [finished[w] EXCEPT !.state = "CONFIRM"]
  <2>1. w \in Frames /\ frame[w].state = "WAIT_ACK" /\ w # f
    BY <1>5 DEF Waiter, AckMatches
  <2>2. confirmed \in Frame /\ confirmed.state = "CONFIRM"
    <3>1. finished[w] \in Frame /\ "CONFIRM" \in FrameStates
      BY <1>2, <2>1 DEF FrameStates, TxStates
    <3>2. confirmed \in Frame
      BY <3>1, FrameUpdates
    <3> QED BY <3>1, <3>2 DEF Frame
  <2>3. AfterIndication(f, w) = [finished EXCEPT ![w] = confirmed]
    BY <1>3, <1>5
  <2> HIDE DEF confirmed
  <2> QED BY <1>1, <1>2, <2>1, <2>2, <2>3
<1> QED BY <1>4, <1>5

(* An indication may end the wait of another frame.                         *)
LEMMA RxIndicateStep ==
  ASSUME NwkFrameTypeOK, NEW f \in Frames, NEW w \in Frames \cup {NULL},
         RxIndicate(f, w)
  PROVE  FrameStep
<1> DEFINE after == AfterIndication(f, w)
<1>1. /\ frame[f].state = "INDICATE" /\ Waiter(w, frame[f].header)
      /\ frame' = after /\ UNCHANGED <<lock, nwkSeqNum, txVars>>
  BY DEF RxIndicate
<1>2. /\ after \in [Frames -> Frame] /\ after[f].state = "FINISH"
      /\ w # NULL => frame[w].state = "WAIT_ACK" /\ after[w].state = "CONFIRM"
      /\ \A k \in Frames \ {f, w} : after[k] = frame[k]
  BY <1>1, Indicated
<1> HIDE DEF after
<1>3. ASSUME NEW k \in Frames
      PROVE  \/ after[k] = frame[k]
             \/ /\ frame[k].state \notin {"FREE", "WAIT_CONF"}
                /\ after[k].state \notin Waits \cup {"FREE"}
  <2>1. CASE k = f
    BY <1>1, <1>2, <2>1 DEF Waits
  <2>2. CASE k = w
    BY <1>2, <2>2 DEF Waits, NULL, Frames
  <2> QED BY <1>2, <2>1, <2>2
<1>4. Quiet /\ Keeps(Frames)
  BY <1>1, <1>3 DEF Quiet, Keeps
<1>5. Cardinality(Busy') - Cardinality(Busy) = 0
  BY <1>4, BusyKept, BusyFinite
<1> QED BY <1>1, <1>2, <1>4, <1>5 DEF FrameStep, NwkFrameTypeOK

(* An indication takes a buffer for its acknowledgement.                    *)
LEMMA RxIndicateAckStep ==
  ASSUME NwkFrameTypeOK, NEW f \in Frames, NEW w \in Frames \cup {NULL},
         NEW g \in Frames, RxIndicateAck(f, w, g)
  PROVE  FrameStep
<1> DEFINE after == AfterIndication(f, w)
           h == frame[f].header
           ack == [nwkFrameCommandInit("ACK", h.src)
                     EXCEPT !.secured = h.secured, !.acked = h.seq]
<1>1. /\ frame[f].state = "INDICATE" /\ Waiter(w, h)
      /\ frame[g].state = "FREE"
      /\ lock' = lock + 1 /\ nwkSeqNum' = NextSeq /\ UNCHANGED txVars
  BY DEF RxIndicateAck, nwkFrameAlloc
<1>2. PICK hop \in Hops, jitter \in Jitter :
        frame' = [after EXCEPT ![g] = nwkTxFrame(CommandFrame(ack), hop, jitter)]
  BY DEF RxIndicateAck
<1>3. h \in Header /\ nwkSeqNum \in Seqs /\ "ACK" \in Commands
  BY DEF NwkFrameTypeOK, Frame, Commands
<1>4. ack \in Header
  BY <1>3, CommandHeaders
<1> DEFINE new == nwkTxFrame(CommandFrame(ack), hop, jitter)
<1> HIDE DEF ack
<1>5. new \in Frame /\ new.state = "DELAY"
  BY <1>4, NewFrames, TxFrame
<1> HIDE DEF new
<1>6. /\ after \in [Frames -> Frame] /\ after[f].state = "FINISH"
      /\ w # NULL => frame[w].state = "WAIT_ACK" /\ after[w].state = "CONFIRM"
      /\ \A k \in Frames \ {f, w} : after[k] = frame[k]
  BY <1>1, Indicated
<1>7. frame' = [after EXCEPT ![g] = new]
  BY <1>2 DEF new
<1>8. nwkSeqNum' \in Seqs
  BY <1>1, <1>3, NextSeqType
<1> HIDE DEF after
<1>9. g # f /\ g # w
  BY <1>1, <1>6 DEF NULL, Frames
<1>10. ASSUME NEW k \in Frames
       PROVE  \/ after[k] = frame[k]
              \/ /\ frame[k].state \notin {"FREE", "WAIT_CONF"}
                 /\ after[k].state \notin Waits \cup {"FREE"}
  <2>1. CASE k = f
    BY <1>1, <1>6, <2>1 DEF Waits
  <2>2. CASE k = w
    BY <1>6, <2>2 DEF Waits, NULL, Frames
  <2> QED BY <1>6, <2>1, <2>2
<1>11. after[g] = frame[g]
  BY <1>6, <1>9
<1>12. new.state # "FREE" /\ new.state \notin Waits
  BY <1>5 DEF Waits
<1> QED BY <1>1, <1>5, <1>6, <1>7, <1>8, <1>10, <1>11, <1>12, QuietTake

(* A foreign frame turns into an outgoing one in place.                     *)
LEMMA RxRouteStep ==
  ASSUME NwkFrameTypeOK, NEW f \in Frames, RxRoute(f)
  PROVE  FrameStep
<1> DEFINE fr == [frame[f] EXCEPT !.confirm = "NULL"]
<1>1. PICK hop \in Neighbours, jitter \in Jitter :
        frame' = [frame EXCEPT ![f] = nwkTxFrame(fr, hop, jitter)]
  BY DEF RxRoute
<1>2. fr \in Frame
  <2>1. \A x \in Frame, c \in Confirms : [x EXCEPT !.confirm = c] \in Frame
    BY DEF Frame
  <2> QED BY <2>1 DEF NwkFrameTypeOK, Confirms
<1> DEFINE new == nwkTxFrame(fr, hop, jitter)
<1> HIDE DEF fr
<1>3. new \in Frame /\ new.state = "DELAY"
  BY <1>2, TxFrame DEF Hops
<1> HIDE DEF new
<1>4. /\ frame[f].state = "ROUTE" /\ frame' = [frame EXCEPT ![f] = new]
      /\ UNCHANGED <<lock, nwkSeqNum, txVars>>
  BY <1>1 DEF RxRoute, new
<1>5. frame' \in [Frames -> Frame] /\ frame'[f] = new
      /\ \A k \in Frames \ {f} : frame'[k] = frame[k]
  BY <1>3, <1>4 DEF NwkFrameTypeOK
<1>6. Quiet /\ Keeps(Frames)
  BY <1>3, <1>4, <1>5 DEF Quiet, Keeps, Waits
<1>7. Cardinality(Busy') - Cardinality(Busy) = 0
  BY <1>6, BusyKept, BusyFinite
<1> QED BY <1>4, <1>5, <1>6, <1>7 DEF FrameStep, NwkFrameTypeOK

(* The route error takes a buffer before the frame frees its own.           *)
LEMMA RxRouteErrorStep ==
  ASSUME NwkFrameTypeOK, NEW f \in Frames, NEW g \in Frames, RxRouteError(f, g)
  PROVE  FrameStep
<1> DEFINE h == frame[f].header
           error == nwkFrameCommandInit("ROUTE_ERROR", h.src)
<1>1. /\ frame[f].state = "ROUTE" /\ frame[g].state = "FREE"
      /\ nwkSeqNum' = NextSeq /\ UNCHANGED <<lock, txVars>>
  BY DEF RxRouteError, nwkFrameAlloc
<1>2. PICK hop \in Hops, jitter \in Jitter :
        frame' = [frame EXCEPT
                    ![g] = nwkTxFrame(CommandFrame(error), hop, jitter),
                    ![f] = FreeFrame]
  BY DEF RxRouteError
<1>3. h \in Header /\ nwkSeqNum \in Seqs /\ "ROUTE_ERROR" \in Commands
  BY DEF NwkFrameTypeOK, Frame, Commands
<1>4. error \in Header
  BY <1>3, CommandHeaders
<1> DEFINE new == nwkTxFrame(CommandFrame(error), hop, jitter)
<1> HIDE DEF error
<1>5. new \in Frame /\ new.state = "DELAY"
  BY <1>4, NewFrames, TxFrame
<1> HIDE DEF new
<1>6. frame' = [frame EXCEPT ![g] = new, ![f] = FreeFrame]
  BY <1>2 DEF new
<1>7. FreeFrame \in Frame /\ FreeFrame.state = "FREE"
  BY NewFrames DEF FreeFrame
<1>8. /\ frame' \in [Frames -> Frame] /\ frame'[f] = FreeFrame
      /\ frame'[g] = new /\ \A k \in Frames \ {f, g} : frame'[k] = frame[k]
  BY <1>1, <1>5, <1>6, <1>7 DEF NwkFrameTypeOK
<1>9. Quiet /\ Frees(f) /\ Takes(g) /\ Keeps(Frames \ {f, g})
  BY <1>1, <1>5, <1>7, <1>8 DEF Quiet, Frees, Takes, Keeps, Waits
<1>10. Cardinality(Busy') - Cardinality(Busy) = 0
  BY <1>9, BusyMoved, BusyFinite
<1>11. nwkSeqNum' \in Seqs
  BY <1>1, <1>3, NextSeqType
<1> QED BY <1>1, <1>8, <1>9, <1>10, <1>11 DEF FrameStep, NwkFrameTypeOK

(* Dropped and finished frames give their buffer back.                      *)
LEMMA RxFreeStep ==
  ASSUME NwkFrameTypeOK, NEW f \in Frames, RxRouteUnknown(f) \/ RxFinish(f)
  PROVE  FrameStep
BY FreeStep DEF RxRouteUnknown, RxFinish
-------------------------------------------------------------------------------
(***************************************************************************)
(* The list of requests.                                                   *)
(***************************************************************************)
LEMMA RemoveAtElements ==
  ASSUME NEW S, NEW s \in Seq(S), NEW i \in 1..Len(s)
  PROVE  /\ RemoveAt(s, i) \in Seq(S)
         /\ Len(RemoveAt(s, i)) = Len(s) - 1
         /\ \A k \in 1..(Len(s) - 1) :
              RemoveAt(s, i)[k] = IF k < i THEN s[k] ELSE s[k + 1]
<1> DEFINE a == SubSeq(s, 1, i - 1)
           b == SubSeq(s, i + 1, Len(s))
<1>1. /\ a \in Seq(S) /\ Len(a) = i - 1
      /\ \A k \in 1..(i - 1) : a[k] = s[k]
  OBVIOUS
<1>2. /\ b \in Seq(S) /\ Len(b) = Len(s) - i
      /\ \A k \in 1..(Len(s) - i) : b[k] = s[k + i]
  OBVIOUS
<1>3. RemoveAt(s, i) = a \o b
  BY DEF RemoveAt
<1> HIDE DEF a, b
<1>4. a \o b \in Seq(S) /\ Len(a \o b) = Len(s) - 1
  <2>1. a \o b \in Seq(S)
    BY <1>1, <1>2
  <2>2. Len(a \o b) = Len(a) + Len(b)
    BY <1>1, <1>2, ConcatProperties
  <2>3. Len(s) \in Nat /\ i \in Nat
    OBVIOUS
  <2> QED BY <1>1, <1>2, <2>1, <2>2, <2>3
<1>5. ASSUME NEW k \in 1..(Len(s) - 1)
      PROVE  (a \o b)[k] = IF k < i THEN s[k] ELSE s[k + 1]
  <2>1. CASE k < i
    BY <1>1, <1>2, <2>1
  <2>2. CASE k >= i
    <3>1. k - (i - 1) \in 1..(Len(s) - i) /\ (a \o b)[k] = b[k - (i - 1)]
      BY <1>1, <1>2, <2>2
    <3>2. b[k - (i - 1)] = s[(k - (i - 1)) + i]
      BY <1>2, <3>1
    <3> QED BY <2>2, <3>1, <3>2
  <2>3. k < i \/ k >= i
    OBVIOUS
  <2> QED BY <2>1, <2>2, <2>3
<1> QED BY <1>3, <1>4, <1>5

(* Adding a request that was not in service at the head.                   *)
LEMMA QueueAdd ==
  ASSUME NwkDataReqTypeOK, QueueHoldsRequests, NEW r \in Reqs,
         req[r].state = "IDLE", queue' = <<r>> \o queue,
         req' \in [Reqs -> Req], req'[r].state # "IDLE",
         \A s \in Reqs \ {r} : req'[s] = req[s]
  PROVE  /\ queue' \in Seq(Reqs)
         /\ QueueHoldsRequests'
         /\ Queued' = Queued \cup {r} /\ r \notin Queued
<1>1. queue \in Seq(Reqs)
  BY DEF NwkDataReqTypeOK
<1>2. /\ queue' \in Seq(Reqs) /\ Len(queue') = Len(queue) + 1
      /\ queue'[1] = r /\ \A k \in 1..Len(queue) : queue'[k + 1] = queue[k]
  BY <1>1
<1>3. Queued' = Queued \cup {r} /\ r \notin Queued
  BY DEF Queued
<1>4. \A k \in 1..Len(queue) : queue[k] \in Queued
  BY <1>1 DEF QueueHoldsRequests
<1>5. \A i, j \in DOMAIN queue' : i # j => queue'[i] # queue'[j]
  <2> SUFFICES ASSUME NEW i \in 1..Len(queue'), NEW j \in 1..Len(queue'), i < j
               PROVE  queue'[i] # queue'[j]
    BY <1>2
  <2>1. j - 1 \in 1..Len(queue) /\ queue'[j] = queue[j - 1]
    BY <1>1, <1>2
  <2>2. CASE i = 1
    BY <1>2, <1>3, <1>4, <2>1, <2>2
  <2>3. CASE i # 1
    <3>1. i - 1 \in 1..Len(queue) /\ queue'[i] = queue[i - 1]
      BY <1>1, <1>2, <2>3
    <3> QED BY <1>1, <2>1, <3>1 DEF QueueHoldsRequests
  <2> QED BY <2>2, <2>3
<1>6. {queue'[i] : i \in DOMAIN queue'} = Queued'
  <2>1. ASSUME NEW i \in 1..Len(queue') PROVE queue'[i] \in Queued'
    <3>1. CASE i = 1
      BY <1>2, <1>3, <3>1
    <3>2. CASE i # 1
      <4>1. i - 1 \in 1..Len(queue) /\ queue'[i] = queue[i - 1]
        BY <1>1, <1>2, <3>2
      <4> QED BY <1>3, <1>4, <4>1
    <3> QED BY <3>1, <3>2
  <2>2. ASSUME NEW s \in Queued PROVE \E i \in 1..Len(queue') : queue'[i] = s
    <3>1. PICK k \in 1..Len(queue) : queue[k] = s
      BY <1>1 DEF QueueHoldsRequests
    <3>2. k + 1 \in 1..Len(queue') /\ queue'[k + 1] = s
      BY <1>1, <1>2, <3>1
    <3> QED BY <3>2
  <2>3. 1 \in 1..Len(queue') /\ queue'[1] = r
    BY <1>1, <1>2
  <2>4. DOMAIN queue' = 1..Len(queue')
    BY <1>2
  <2>5. \A s \in Queued' : \E i \in 1..Len(queue') : queue'[i] = s
    BY <1>3, <2>2, <2>3
  <2>6. {queue'[i] : i \in DOMAIN queue'} \subseteq Queued'
    BY <2>1, <2>4
  <2>7. Queued' \subseteq {queue'[i] : i \in DOMAIN queue'}
    BY <2>4, <2>5
  <2> QED BY <2>6, <2>7
<1> QED BY <1>2, <1>3, <1>5, <1>6 DEF QueueHoldsRequests

(* Removing a request that leaves service.                                 *)
LEMMA QueueRemove ==
  ASSUME NwkDataReqTypeOK, QueueHoldsRequests, NEW n \in DOMAIN queue,
         queue' = RemoveAt(queue, n),
         req' \in [Reqs -> Req], req'[queue[n]].state = "IDLE",
         \A s \in Reqs \ {queue[n]} : req'[s] = req[s]
  PROVE  /\ queue' \in Seq(Reqs)
         /\ QueueHoldsRequests'
         /\ Queued' = Queued \ {queue[n]} /\ queue[n] \in Queued
<1>1. queue \in Seq(Reqs) /\ n \in 1..Len(queue) /\ Len(queue) \in Nat
  BY DEF NwkDataReqTypeOK
<1>2. /\ queue' \in Seq(Reqs) /\ Len(queue') = Len(queue) - 1
      /\ \A k \in 1..(Len(queue) - 1) :
           queue'[k] = IF k < n THEN queue[k] ELSE queue[k + 1]
  BY <1>1, RemoveAtElements
<1>3. Queued' = Queued \ {queue[n]} /\ queue[n] \in Queued
  BY <1>1 DEF Queued, QueueHoldsRequests
<1> DEFINE old(k) == IF k < n THEN k ELSE k + 1
<1>4. \A k \in 1..Len(queue') : /\ old(k) \in 1..Len(queue) /\ old(k) # n
                                /\ queue'[k] = queue[old(k)]
  BY <1>1, <1>2
<1>5. \A i, j \in DOMAIN queue' : i # j => queue'[i] # queue'[j]
  <2> SUFFICES ASSUME NEW i \in 1..Len(queue'), NEW j \in 1..Len(queue'), i # j
               PROVE  queue'[i] # queue'[j]
    BY <1>2
  <2>1. old(i) # old(j)
    BY <1>1, <1>2
  <2>2. /\ old(i) \in DOMAIN queue /\ queue'[i] = queue[old(i)]
        /\ old(j) \in DOMAIN queue /\ queue'[j] = queue[old(j)]
    BY <1>1, <1>4
  <2> HIDE DEF old
  <2> QED BY <2>1, <2>2 DEF QueueHoldsRequests
<1>6. {queue'[i] : i \in DOMAIN queue'} = Queued'
  <2>1. ASSUME NEW i \in 1..Len(queue') PROVE queue'[i] \in Queued'
    <3> HIDE DEF old
    <3> QED BY <1>1, <1>3, <1>4 DEF QueueHoldsRequests
  <2>2. ASSUME NEW s \in Queued' PROVE \E i \in 1..Len(queue') : queue'[i] = s
    <3>1. PICK k \in 1..Len(queue) : queue[k] = s
      BY <1>1, <1>3 DEF QueueHoldsRequests
    <3>2. k # n
      BY <1>3, <3>1
    <3>3. CASE k < n
      <4>1. k \in 1..Len(queue') /\ queue'[k] = s
        BY <1>1, <1>2, <3>1, <3>3
      <4> QED BY <4>1
    <3>4. CASE k > n
      <4>1. k - 1 \in 1..Len(queue') /\ queue'[k - 1] = s
        BY <1>1, <1>2, <3>1, <3>4
      <4> QED BY <4>1
    <3> QED BY <1>1, <3>2, <3>3, <3>4
  <2> QED BY <1>2, <2>1, <2>2
<1> QED BY <1>2, <1>3, <1>5, <1>6 DEF QueueHoldsRequests

(* Changing a request in service that stays there.                         *)
LEMMA QueueKeep ==
  ASSUME NwkDataReqTypeOK, QueueHoldsRequests, NEW n \in DOMAIN queue,
         NEW q \in Req, q.state # "IDLE",
         req' = [req EXCEPT ![queue[n]] = q], queue' = queue
  PROVE  NwkDataReqTypeOK' /\ QueueHoldsRequests' /\ Queued' = Queued
<1>1. queue[n] \in Reqs /\ queue[n] \in Queued
  BY DEF NwkDataReqTypeOK, QueueHoldsRequests
<1>2. NwkDataReqTypeOK'
  BY <1>1 DEF NwkDataReqTypeOK
<1>3. Queued' = Queued
  BY <1>1 DEF NwkDataReqTypeOK, Queued
<1> QED BY <1>2, <1>3 DEF QueueHoldsRequests
-------------------------------------------------------------------------------
(***************************************************************************)
(* The core invariant and the steps that keep it.                          *)
(***************************************************************************)
CoreInv ==
  /\ NwkFrameTypeOK
  /\ NwkTxTypeOK
  /\ NwkDataReqTypeOK
  /\ RadioOwnsOneFrame
  /\ TimersArmed
  /\ LockCounts
  /\ QueueHoldsRequests
  /\ SleepsWithoutWork

(* A node with a frame in hand is awake.                                   *)
LEMMA Awake ==
  ASSUME CoreInv, NEW f \in Frames, frame[f].state # "FREE"
  PROVE  phyState # "SLEEP"
BY DEF CoreInv, SleepsWithoutWork, Busy

(* So is a node with a request in service.                                  *)
LEMMA AwakeRequest ==
  ASSUME CoreInv, NEW i \in DOMAIN queue
  PROVE  phyState # "SLEEP"
BY DEF CoreInv, SleepsWithoutWork

(* A quiet step on frames that leaves the set of requests alone.           *)
LEMMA FrameStepInv ==
  ASSUME CoreInv, FrameStep, phyState # "SLEEP",
         NwkDataReqTypeOK', QueueHoldsRequests', Queued' = Queued
  PROVE  CoreInv'
<1> USE DEF CoreInv
<1>1. NwkFrameTypeOK' /\ NwkTxTypeOK'
  BY DEF FrameStep, NwkFrameTypeOK, NwkTxTypeOK, txVars
<1>2. RadioOwnsOneFrame'
  BY DEF FrameStep, Quiet, RadioOwnsOneFrame, Waits, txVars
<1>3. TimersArmed'
  BY DEF FrameStep, Quiet, TimersArmed, Waits, txVars
<1>4. LockCounts'
  <2>1. Cardinality(Busy') \in Nat
    <3>1. Busy' \subseteq Frames /\ IsFiniteSet(Frames)
      BY FS_Interval, NBufAssumption DEF Busy, Frames
    <3> QED BY <3>1, FS_Subset, FS_CardinalityType
  <2> QED BY <2>1, BusyFinite, QueuedFinite
          DEF FrameStep, LockCounts, txVars, NwkFrameTypeOK
<1>5. SleepsWithoutWork'
  BY DEF FrameStep, SleepsWithoutWork, txVars
<1> QED BY <1>1, <1>2, <1>3, <1>4, <1>5

(* A step on frames and requests together leaves types and counts right    *)
(* when the rest is as it was.                                             *)
LEMMA UnchangedRequests ==
  ASSUME CoreInv, UNCHANGED reqVars
  PROVE  NwkDataReqTypeOK' /\ QueueHoldsRequests' /\ Queued' = Queued
BY DEF CoreInv, reqVars, NwkDataReqTypeOK, QueueHoldsRequests, Queued

(* A frame begins to wait for its jitter: the timer is started with it.     *)
LEMMA TxDelayInv ==
  ASSUME CoreInv, NEW f \in Frames, TxDelay(f), UNCHANGED reqVars
  PROVE  CoreInv'
<1> USE DEF CoreInv
<1> DEFINE new == [frame[f] EXCEPT !.state = "WAIT_DELAY"]
<1>1. /\ frame[f].state = "DELAY" /\ frame[f].timeout > 0
      /\ frame' = [frame EXCEPT ![f] = new] /\ delayTimer' = TRUE
      /\ UNCHANGED <<lock, nwkSeqNum, activeFrame, ackTimer, phyState>>
  BY DEF TxDelay
<1>2. frame[f] \in Frame /\ "WAIT_DELAY" \in FrameStates
  BY DEF NwkFrameTypeOK, FrameStates, TxStates
<1>3. new \in Frame
  BY <1>2, FrameUpdates
<1>4. new.state = "WAIT_DELAY" /\ new.timeout = frame[f].timeout
  BY <1>2 DEF Frame
<1> HIDE DEF new
<1>5. /\ frame' \in [Frames -> Frame] /\ frame'[f] = new
      /\ \A k \in Frames \ {f} : frame'[k] = frame[k]
  BY <1>1, <1>3 DEF NwkFrameTypeOK
<1>6. NwkFrameTypeOK' /\ NwkTxTypeOK'
  BY <1>1, <1>5 DEF NwkFrameTypeOK, NwkTxTypeOK
<1>7. RadioOwnsOneFrame'
  BY <1>1, <1>4, <1>5 DEF RadioOwnsOneFrame
<1>8. TimersArmed'
  BY <1>1, <1>4, <1>5 DEF TimersArmed
<1>9. Busy' = Busy
  BY <1>1, <1>4, <1>5, BusyKept DEF Keeps
<1>10. LockCounts'
  BY <1>1, <1>9, UnchangedRequests DEF LockCounts
<1>11. SleepsWithoutWork'
  BY <1>1, Awake DEF SleepsWithoutWork
<1> QED BY <1>6, <1>7, <1>8, <1>10, <1>11, UnchangedRequests

(* The radio is given a frame: it had none.                                 *)
LEMMA TxSendInv ==
  ASSUME CoreInv, NEW f \in Frames, TxSend(f), UNCHANGED reqVars
  PROVE  CoreInv'
<1> USE DEF CoreInv
<1> DEFINE new == [frame[f] EXCEPT !.state = "WAIT_CONF"]
<1>1. /\ frame[f].state = "SEND" /\ activeFrame = NULL /\ activeFrame' = f
      /\ frame' = [frame EXCEPT ![f] = new] /\ phyState' = "TX_WAIT_END"
      /\ lock' = lock + 1 /\ UNCHANGED <<nwkSeqNum, ackTimer, delayTimer>>
  BY DEF TxSend
<1>2. frame[f] \in Frame /\ "WAIT_CONF" \in FrameStates /\ f # NULL
  BY DEF NwkFrameTypeOK, FrameStates, TxStates, Frames, NULL
<1>3. new \in Frame
  BY <1>2, FrameUpdates
<1>4. new.state = "WAIT_CONF"
  BY <1>2 DEF Frame
<1> HIDE DEF new
<1>5. /\ frame' \in [Frames -> Frame] /\ frame'[f] = new
      /\ \A k \in Frames \ {f} : frame'[k] = frame[k]
  BY <1>1, <1>3 DEF NwkFrameTypeOK
<1>6. NwkFrameTypeOK' /\ NwkTxTypeOK'
  BY <1>1, <1>5 DEF NwkFrameTypeOK, NwkTxTypeOK
<1>7. RadioOwnsOneFrame'
  BY <1>1, <1>2, <1>4, <1>5 DEF RadioOwnsOneFrame, Frames, NULL
<1>8. TimersArmed'
  BY <1>1, <1>4, <1>5 DEF TimersArmed
<1>9. Busy' = Busy
  BY <1>1, <1>4, <1>5, BusyKept DEF Keeps
<1>10. LockCounts'
  BY <1>1, <1>2, <1>9, UnchangedRequests, BusyFinite, QueuedFinite
     DEF LockCounts, NwkFrameTypeOK
<1>11. SleepsWithoutWork'
  BY <1>1 DEF SleepsWithoutWork
<1> QED BY <1>6, <1>7, <1>8, <1>10, <1>11, UnchangedRequests

(* A sent frame waits for its acknowledgement with the timer started.       *)
LEMMA TxSentInv ==
  ASSUME CoreInv, NEW f \in Frames, TxSent(f), UNCHANGED reqVars
  PROVE  CoreInv'
<1> USE DEF CoreInv
<1>1. CASE ~AwaitsAck(frame[f])
  <2>1. /\ frame[f].state = "SENT"
        /\ frame' = [frame EXCEPT ![f].state = "CONFIRM"]
        /\ UNCHANGED <<lock, nwkSeqNum, txVars>>
    BY <1>1 DEF TxSent, txVars
  <2>2. FrameStep
    BY <2>1, MoveStep, StateKinds
  <2> QED BY <2>1, <2>2, FrameStepInv, Awake, UnchangedRequests
<1>2. CASE AwaitsAck(frame[f])
  <2> DEFINE new == [frame[f] EXCEPT !.state = "WAIT_ACK", !.timeout = AckTicks]
  <2>1. /\ frame[f].state = "SENT" /\ frame' = [frame EXCEPT ![f] = new]
        /\ ackTimer' = TRUE
        /\ UNCHANGED <<lock, nwkSeqNum, activeFrame, delayTimer, phyState>>
    BY <1>2 DEF TxSent
  <2>2. /\ frame[f] \in Frame /\ "WAIT_ACK" \in FrameStates
        /\ AckTicks \in Nat /\ AckTicks > 0
    BY TicksAssumption DEF NwkFrameTypeOK, FrameStates, TxStates
  <2>3. new \in Frame
    BY <2>2, FrameUpdates
  <2>4. new.state = "WAIT_ACK" /\ new.timeout = AckTicks
    BY <2>2 DEF Frame
  <2> HIDE DEF new
  <2>5. /\ frame' \in [Frames -> Frame] /\ frame'[f] = new
        /\ \A k \in Frames \ {f} : frame'[k] = frame[k]
    BY <2>1, <2>3 DEF NwkFrameTypeOK
  <2>6. NwkFrameTypeOK' /\ NwkTxTypeOK'
    BY <2>1, <2>5 DEF NwkFrameTypeOK, NwkTxTypeOK
  <2>7. RadioOwnsOneFrame'
    BY <2>1, <2>4, <2>5 DEF RadioOwnsOneFrame
  <2>8. TimersArmed'
    BY <2>1, <2>2, <2>4, <2>5 DEF TimersArmed
  <2>9. Busy' = Busy
    BY <2>1, <2>4, <2>5, BusyKept DEF Keeps
  <2>10. LockCounts'
    BY <2>1, <2>9, UnchangedRequests DEF LockCounts
  <2>11. SleepsWithoutWork'
    BY <2>1, Awake DEF SleepsWithoutWork
  <2> QED BY <2>6, <2>7, <2>8, <2>10, <2>11, UnchangedRequests
<1> QED BY <1>1, <1>2

(* The radio ends a transmission: the frame it owns is there to be told.   *)
LEMMA PHY_DataConfInv ==
  ASSUME CoreInv, PHY_DataConf, UNCHANGED reqVars
  PROVE  CoreInv'
<1> USE DEF CoreInv
<1> DEFINE f == activeFrame
<1>1. PICK status \in {"SUCCESS", "PHY_ERROR"} :
        frame' = [frame EXCEPT ![f] = [@ EXCEPT !.state = "SENT",
                                               !.status = status]]
  BY DEF PHY_DataConf
<1> DEFINE new == [frame[f] EXCEPT !.state = "SENT", !.status = status]
<1>2. /\ phyState = "TX_WAIT_END" /\ phyState' = "IDLE" /\ activeFrame' = NULL
      /\ lock' = lock - 1 /\ UNCHANGED <<nwkSeqNum, ackTimer, delayTimer>>
  BY DEF PHY_DataConf
<1>3. f \in Frames /\ f # NULL /\ frame[f].state = "WAIT_CONF"
  BY <1>2 DEF RadioOwnsOneFrame, NwkTxTypeOK
<1>4. frame[f] \in Frame /\ "SENT" \in FrameStates /\ status \in Statuses
  BY <1>3 DEF NwkFrameTypeOK, FrameStates, TxStates, Statuses
<1>5. new \in Frame
  BY <1>4, FrameUpdates
<1>6. new.state = "SENT"
  BY <1>4 DEF Frame
<1>7. frame' = [frame EXCEPT ![f] = new]
  BY <1>1
<1> HIDE DEF new
<1>8. /\ frame' \in [Frames -> Frame] /\ frame'[f] = new
      /\ \A k \in Frames \ {f} : frame'[k] = frame[k]
  BY <1>3, <1>5, <1>7 DEF NwkFrameTypeOK
<1>9. NwkFrameTypeOK' /\ NwkTxTypeOK'
  BY <1>2, <1>8 DEF NwkFrameTypeOK, NwkTxTypeOK
<1>10. RadioOwnsOneFrame'
  BY <1>2, <1>6, <1>8 DEF RadioOwnsOneFrame, Frames, NULL
<1>11. TimersArmed'
  BY <1>2, <1>6, <1>8 DEF TimersArmed
<1>12. Busy' = Busy
  BY <1>3, <1>6, <1>8, BusyKept DEF Keeps
<1>13. LockCounts'
  BY <1>2, <1>3, <1>12, UnchangedRequests, BusyFinite, QueuedFinite
     DEF LockCounts, NwkFrameTypeOK
<1>14. SleepsWithoutWork'
  BY <1>2 DEF SleepsWithoutWork
<1> QED BY <1>9, <1>10, <1>11, <1>13, <1>14, UnchangedRequests

(* The timers: a tick changes waiting frames only, counts each of them     *)
(* down, and takes the last tick to confirm or to send the frame.          *)
Ticks(from, to) ==
  \A k \in Frames :
    \/ frame[k].state # from /\ frame'[k] = frame[k]
    \/ /\ frame[k].state = from /\ frame[k].timeout = 1
       /\ frame'[k].state = to
    \/ /\ frame[k].state = from /\ frame'[k].state = from
       /\ frame[k].timeout # 1
       /\ frame'[k].timeout = frame[k].timeout - 1

TimersStarted ==
  /\ ackTimer' \in BOOLEAN /\ delayTimer' \in BOOLEAN
  /\ \A k \in Frames :
       /\ frame'[k].state = "WAIT_ACK" => ackTimer'
       /\ frame'[k].state = "WAIT_DELAY" => delayTimer'

(* A tick of either timer keeps the core invariant.                         *)
LEMMA TimerInv ==
  ASSUME CoreInv, UNCHANGED reqVars,
         NEW from \in {"WAIT_ACK", "WAIT_DELAY"}, NEW to \in {"CONFIRM", "SEND"},
         frame' \in [Frames -> Frame],
         Ticks(from, to), TimersStarted,
         UNCHANGED <<lock, nwkSeqNum, activeFrame, phyState>>
  PROVE  CoreInv'
<1> USE DEF CoreInv, Ticks, TimersStarted
<1>1. NwkFrameTypeOK' /\ NwkTxTypeOK'
  BY DEF NwkFrameTypeOK, NwkTxTypeOK
<1>2. RadioOwnsOneFrame'
  BY DEF RadioOwnsOneFrame
<1>3. TimersArmed'
  <2>1. ASSUME NEW k \in Frames, frame'[k].state \in {"WAIT_ACK", "WAIT_DELAY"}
        PROVE  frame'[k].timeout > 0
    <3>1. frame[k].timeout \in Nat
      BY DEF NwkFrameTypeOK, Frame
    <3> QED BY <2>1, <3>1 DEF TimersArmed
  <2>2. \A k \in Frames :
          /\ frame'[k].state = "WAIT_ACK" => ackTimer'
          /\ frame'[k].state = "WAIT_DELAY" => delayTimer'
    BY DEF TimersStarted
  <2> HIDE DEF Ticks, TimersStarted, CoreInv
  <2> QED BY <2>1, <2>2 DEF TimersArmed
<1>4. Busy' = Busy
  BY BusyKept DEF Keeps
<1>5. LockCounts'
  BY <1>4, UnchangedRequests DEF LockCounts
<1>6. SleepsWithoutWork'
  BY <1>4, UnchangedRequests DEF SleepsWithoutWork, reqVars
<1> QED BY <1>1, <1>2, <1>3, <1>5, <1>6, UnchangedRequests

(* nwkTxAckWaitTimerHandler() is such a tick,                               *)
LEMMA AckTimerInv ==
  ASSUME CoreInv, nwkTxAckWaitTimerHandler, UNCHANGED reqVars
  PROVE  CoreInv'
<1> DEFINE Tick(fr) == IF fr.timeout = 1
                       THEN [fr EXCEPT !.timeout = 0, !.state = "CONFIRM",
                                       !.status = "NO_ACK"]
                       ELSE [fr EXCEPT !.timeout = @ - 1]
<1>1. /\ frame' = [k \in Frames |-> IF frame[k].state = "WAIT_ACK"
                                    THEN Tick(frame[k]) ELSE frame[k]]
      /\ ackTimer' = (\E k \in Frames : frame[k].state = "WAIT_ACK")
      /\ UNCHANGED <<lock, nwkSeqNum, activeFrame, delayTimer, phyState>>
  BY DEF nwkTxAckWaitTimerHandler
<1>2. ASSUME NEW k \in Frames, frame[k].state = "WAIT_ACK"
      PROVE  /\ Tick(frame[k]) \in Frame
             /\ \/ frame[k].timeout = 1 /\ Tick(frame[k]).state = "CONFIRM"
                \/ /\ frame[k].timeout # 1
                   /\ Tick(frame[k]).state = "WAIT_ACK"
                   /\ Tick(frame[k]).timeout = frame[k].timeout - 1
  <2> DEFINE fr == frame[k]
             t == fr.timeout - 1
             last == [fr EXCEPT !.timeout = 0, !.state = "CONFIRM",
                                !.status = "NO_ACK"]
             next == [fr EXCEPT !.timeout = t]
  <2>1. /\ fr \in Frame /\ fr.timeout \in Nat /\ t \in Nat /\ 0 \in Nat
        /\ "CONFIRM" \in FrameStates /\ "NO_ACK" \in Statuses
    BY <1>2 DEF CoreInv, NwkFrameTypeOK, TimersArmed, Frame, FrameStates,
                TxStates, Statuses
  <2> HIDE DEF t
  <2>2. last \in Frame /\ next \in Frame
    BY <2>1, FrameUpdates, Zenon
  <2>3. last.state = "CONFIRM" /\ next.state = fr.state /\ next.timeout = t
    BY <2>1 DEF Frame
  <2>4. Tick(fr) = IF fr.timeout = 1 THEN last ELSE next
    BY DEF t
  <2> QED BY <1>2, <2>2, <2>3, <2>4 DEF t
<1> HIDE DEF Tick
<1>3. frame' \in [Frames -> Frame]
  BY <1>1, <1>2 DEF CoreInv, NwkFrameTypeOK
<1>4. Ticks("WAIT_ACK", "CONFIRM")
  BY <1>1, <1>2 DEF Ticks
<1>5. TimersStarted
  BY <1>1, <1>4 DEF CoreInv, NwkTxTypeOK, TimersArmed, Ticks, TimersStarted
<1>6. /\ "WAIT_ACK" \in {"WAIT_ACK", "WAIT_DELAY"}
      /\ "CONFIRM" \in {"CONFIRM", "SEND"}
      /\ UNCHANGED <<lock, nwkSeqNum, activeFrame, phyState>>
  BY <1>1
<1> QED BY <1>3, <1>4, <1>5, <1>6, TimerInv

(* and so is nwkTxDelayTimerHandler().                                      *)
LEMMA DelayTimerInv ==
  ASSUME CoreInv, nwkTxDelayTimerHandler, UNCHANGED reqVars
  PROVE  CoreInv'
<1> DEFINE Tick(fr) == IF fr.timeout = 1
                       THEN [fr EXCEPT !.timeout = 0, !.state = "SEND"]
                       ELSE [fr EXCEPT !.timeout = @ - 1]
<1>1. /\ frame' = [k \in Frames |-> IF frame[k].state = "WAIT_DELAY"
                                    THEN Tick(frame[k]) ELSE frame[k]]
      /\ delayTimer' = (\E k \in Frames : frame[k].state = "WAIT_DELAY")
      /\ UNCHANGED <<lock, nwkSeqNum, activeFrame, ackTimer, phyState>>
  BY DEF nwkTxDelayTimerHandler
<1>2. ASSUME NEW k \in Frames, frame[k].state = "WAIT_DELAY"
      PROVE  /\ Tick(frame[k]) \in Frame
             /\ \/ frame[k].timeout = 1 /\ Tick(frame[k]).state = "SEND"
                \/ /\ frame[k].timeout # 1
                   /\ Tick(frame[k]).state = "WAIT_DELAY"
                   /\ Tick(frame[k]).timeout = frame[k].timeout - 1
  <2> DEFINE fr == frame[k]
             t == fr.timeout - 1
             last == [fr EXCEPT !.timeout = 0, !.state = "SEND"]
             next == [fr EXCEPT !.timeout = t]
  <2>1. /\ fr \in Frame /\ fr.timeout \in Nat /\ t \in Nat /\ 0 \in Nat
        /\ "SEND" \in FrameStates
    BY <1>2 DEF CoreInv, NwkFrameTypeOK, TimersArmed, Frame, FrameStates,
                TxStates
  <2> HIDE DEF t
  <2>2. last \in Frame /\ next \in Frame
    BY <2>1, FrameUpdates, Zenon
  <2>3. last.state = "SEND" /\ next.state = fr.state /\ next.timeout = t
    BY <2>1 DEF Frame
  <2>4. Tick(fr) = IF fr.timeout = 1 THEN last ELSE next
    BY DEF t
  <2> QED BY <1>2, <2>2, <2>3, <2>4 DEF t
<1> HIDE DEF Tick
<1>3. frame' \in [Frames -> Frame]
  BY <1>1, <1>2 DEF CoreInv, NwkFrameTypeOK
<1>4. Ticks("WAIT_DELAY", "SEND")
  BY <1>1, <1>2 DEF Ticks
<1>5. TimersStarted
  BY <1>1, <1>4 DEF CoreInv, NwkTxTypeOK, TimersArmed, Ticks, TimersStarted
<1>6. /\ "WAIT_DELAY" \in {"WAIT_ACK", "WAIT_DELAY"}
      /\ "SEND" \in {"CONFIRM", "SEND"}
      /\ UNCHANGED <<lock, nwkSeqNum, activeFrame, phyState>>
  BY <1>1
<1> QED BY <1>3, <1>4, <1>5, <1>6, TimerInv
-------------------------------------------------------------------------------
(* The walks of the receiver and the transmitter.                          *)
LEMMA RxStepInv ==
  ASSUME CoreInv, RxStep
  PROVE  CoreInv'
<1>1. UNCHANGED reqVars
  BY DEF RxStep
<1>2. PICK f \in Frames :
        \/ RxReceived(f)
        \/ \E g \in Frames : RxReceivedPassOn(f, g)
        \/ \E w \in Frames \cup {NULL} : RxIndicate(f, w)
        \/ \E w \in Frames \cup {NULL}, g \in Frames : RxIndicateAck(f, w, g)
        \/ RxRoute(f)
        \/ RxRouteUnknown(f)
        \/ \E g \in Frames : RxRouteError(f, g)
        \/ RxFinish(f)
  BY DEF RxStep
<1>3. NwkFrameTypeOK
  BY DEF CoreInv
<1>4. FrameStep
  BY <1>2, <1>3, RxReceivedStep, RxReceivedPassOnStep, RxIndicateStep,
     RxIndicateAckStep, RxRouteStep, RxFreeStep, RxRouteErrorStep
<1>5. frame[f].state # "FREE"
  BY <1>2 DEF RxReceived, RxReceivedPassOn, RxIndicate, RxIndicateAck, RxRoute,
              RxRouteUnknown, RxRouteError, RxFinish
<1> QED BY <1>1, <1>4, <1>5, Awake, UnchangedRequests, FrameStepInv

(* A confirmed frame leaves, its request stays listed.                      *)
LEMMA TxConfirmRequestInv ==
  ASSUME CoreInv, NEW f \in Frames, TxConfirmRequest(f)
  PROVE  CoreInv'
<1> USE DEF CoreInv
<1>1. /\ frame[f].state = "CONFIRM" /\ frame' = [frame EXCEPT ![f] = FreeFrame]
      /\ lock' = lock - 1 /\ queue' = queue /\ UNCHANGED <<nwkSeqNum, txVars>>
  BY DEF TxConfirmRequest
<1>2. FrameStep
  BY <1>1, FreeStep
<1>3. NwkDataReqTypeOK' /\ QueueHoldsRequests' /\ Queued' = Queued
  <2>1. CASE req' = req
    BY <1>1, <2>1, UnchangedRequests DEF reqVars
  <2>2. CASE req' # req
    <3>1. PICK i \in DOMAIN queue :
            req' = [req EXCEPT ![queue[i]] =
                      [@ EXCEPT !.state = "CONFIRM", !.status = frame[f].status]]
      BY <2>2 DEF TxConfirmRequest
    <3> DEFINE q == [req[queue[i]] EXCEPT !.state = "CONFIRM",
                                          !.status = frame[f].status]
    <3>2. queue[i] \in Reqs /\ req[queue[i]] \in Req /\ frame[f].status \in Statuses
      BY DEF NwkDataReqTypeOK, NwkFrameTypeOK, Frame
    <3>3. q \in Req /\ q.state # "IDLE"
      BY <3>2 DEF Req, ReqStates
    <3>4. req' = [req EXCEPT ![queue[i]] = q]
      BY <3>1
    <3> HIDE DEF q
    <3> QED BY <1>1, <3>3, <3>4, QueueKeep
  <2> QED BY <2>1, <2>2
<1> QED BY <1>1, <1>2, <1>3, Awake, FrameStepInv

(* Every case of the transmitter keeps the core invariant.                  *)
LEMMA TxStepInv ==
  ASSUME CoreInv, TxStep
  PROVE  CoreInv'
<1>1. PICK f \in Frames :
        \/ TxDelay(f) /\ UNCHANGED reqVars
        \/ TxNoDelay(f) /\ UNCHANGED reqVars
        \/ TxSend(f) /\ UNCHANGED reqVars
        \/ TxSendBlocked(f) /\ UNCHANGED reqVars
        \/ TxSent(f) /\ UNCHANGED reqVars
        \/ TxConfirmFree(f) /\ UNCHANGED reqVars
        \/ TxConfirmRequest(f)
  BY DEF TxStep
<1>2. NwkFrameTypeOK
  BY DEF CoreInv
<1>3. CASE TxNoDelay(f) /\ UNCHANGED reqVars
  <2>1. FrameStep /\ frame[f].state # "FREE"
    BY <1>2, <1>3, MoveStep, StateKinds DEF TxNoDelay
  <2> QED BY <1>3, <2>1, Awake, UnchangedRequests, FrameStepInv
<1>4. CASE TxSendBlocked(f) /\ UNCHANGED reqVars
  BY <1>4 DEF TxSendBlocked, CoreInv, frameVars, txVars, reqVars,
     NwkFrameTypeOK, NwkTxTypeOK, NwkDataReqTypeOK, RadioOwnsOneFrame,
     TimersArmed, LockCounts, Busy, Queued, QueueHoldsRequests, SleepsWithoutWork
<1>5. CASE TxConfirmFree(f) /\ UNCHANGED reqVars
  <2>1. FrameStep /\ frame[f].state # "FREE"
    BY <1>2, <1>5, FreeStep DEF TxConfirmFree
  <2> QED BY <1>5, <2>1, Awake, UnchangedRequests, FrameStepInv
<1> QED BY <1>1, <1>3, <1>4, <1>5, TxDelayInv, TxSendInv, TxSentInv,
           TxConfirmRequestInv

(* The data request service.                                               *)
LEMMA ReqSendInv ==
  ASSUME CoreInv, NEW i \in DOMAIN queue, NEW g \in Frames, ReqSend(i, g)
  PROVE  CoreInv'
<1> USE DEF CoreInv
<1> DEFINE old == req[queue[i]]
           q == [old EXCEPT !.frame = g, !.state = "WAIT_CONF"]
<1>1. /\ frame[g].state = "FREE" /\ queue' = queue /\ lock' = lock + 1
      /\ req' = [req EXCEPT ![queue[i]] = q]
      /\ nwkSeqNum' = NextSeq /\ UNCHANGED txVars
  BY DEF ReqSend, nwkFrameAlloc
<1>2. old \in Req /\ nwkSeqNum \in Seqs
  BY DEF NwkDataReqTypeOK, NwkFrameTypeOK
<1>3. q \in Req /\ q.state # "IDLE"
  BY <1>2 DEF Req, ReqStates
<1>4. PICK hop \in Hops, jitter \in Jitter :
        frame' = [frame EXCEPT
                    ![g] = nwkTxFrame(RequestFrame(old), hop, jitter)]
  BY DEF ReqSend
<1> DEFINE new == nwkTxFrame(RequestFrame(old), hop, jitter)
<1> HIDE DEF q, old
<1>5. new \in Frame /\ new.state = "DELAY"
  BY <1>2, RequestFrames, TxFrame
<1>6. nwkSeqNum' \in Seqs
  BY <1>1, <1>2, NextSeqType
<1> HIDE DEF new
<1>7. FrameStep
  BY <1>1, <1>4, <1>5, <1>6, TakeStep, StateKinds DEF new
<1>8. NwkDataReqTypeOK' /\ QueueHoldsRequests' /\ Queued' = Queued
  BY <1>1, <1>3, QueueKeep
<1> QED BY <1>7, <1>8, AwakeRequest, FrameStepInv

(* A request without a buffer stays listed to be confirmed.                 *)
LEMMA ReqOutOfMemoryInv ==
  ASSUME CoreInv, NEW i \in DOMAIN queue, ReqOutOfMemory(i)
  PROVE  CoreInv'
<1> USE DEF CoreInv
<1> DEFINE q == [req[queue[i]] EXCEPT !.state = "CONFIRM",
                                      !.status = "OUT_OF_MEMORY"]
<1>1. /\ queue' = queue /\ req' = [req EXCEPT ![queue[i]] = q]
      /\ UNCHANGED <<frameVars, txVars>>
  BY DEF ReqOutOfMemory
<1>2. req[queue[i]] \in Req
  BY DEF NwkDataReqTypeOK
<1>3. q \in Req /\ q.state # "IDLE"
  BY <1>2 DEF Req, ReqStates, Statuses
<1> HIDE DEF q
<1>4. NwkDataReqTypeOK' /\ QueueHoldsRequests' /\ Queued' = Queued
  BY <1>1, <1>3, QueueKeep
<1>5. UNCHANGED <<frame, lock, nwkSeqNum, activeFrame, ackTimer, delayTimer, phyState>>
  BY <1>1 DEF frameVars, txVars
<1>6. Busy' = Busy
  BY <1>5 DEF Busy
<1>7. NwkFrameTypeOK' /\ NwkTxTypeOK' /\ RadioOwnsOneFrame' /\ TimersArmed'
  BY <1>5 DEF NwkFrameTypeOK, NwkTxTypeOK, RadioOwnsOneFrame, TimersArmed
<1>8. LockCounts' /\ SleepsWithoutWork'
  BY <1>1, <1>4, <1>5, <1>6 DEF LockCounts, SleepsWithoutWork
<1> QED BY <1>4, <1>7, <1>8

(* A confirmed request leaves the list and is no longer counted.            *)
LEMMA ReqConfirmInv ==
  ASSUME CoreInv, NEW i \in DOMAIN queue, ReqConfirm(i)
  PROVE  CoreInv'
<1> USE DEF CoreInv
<1> DEFINE q == Returned(req[queue[i]])
<1>1. /\ queue' = RemoveAt(queue, i) /\ req' = [req EXCEPT ![queue[i]] = q]
      /\ lock' = lock - 1 /\ UNCHANGED <<frame, nwkSeqNum, txVars>>
  BY DEF ReqConfirm
<1>2. queue[i] \in Reqs /\ req[queue[i]] \in Req
  BY DEF NwkDataReqTypeOK
<1>3. q \in Req /\ q.state = "IDLE"
  BY <1>2, AddrAssumption
     DEF Returned, IdleReq, Req, ReqStates, Statuses, Addr
<1> HIDE DEF q
<1>4. /\ req' \in [Reqs -> Req] /\ req'[queue[i]].state = "IDLE"
      /\ \A s \in Reqs \ {queue[i]} : req'[s] = req[s]
  BY <1>1, <1>2, <1>3 DEF NwkDataReqTypeOK
<1>5. /\ queue' \in Seq(Reqs) /\ QueueHoldsRequests'
      /\ Queued' = Queued \ {queue[i]} /\ queue[i] \in Queued
  BY <1>1, <1>4, QueueRemove
<1>6. Cardinality(Queued') = Cardinality(Queued) - 1
  BY <1>5, QueuedFinite, FS_RemoveElement
<1>7. UNCHANGED <<frame, nwkSeqNum, activeFrame, ackTimer, delayTimer, phyState>>
  BY <1>1 DEF txVars
<1>8. Busy' = Busy
  BY <1>7 DEF Busy
<1>9. /\ NwkFrameTypeOK' /\ NwkTxTypeOK' /\ NwkDataReqTypeOK'
      /\ RadioOwnsOneFrame' /\ TimersArmed'
  BY <1>1, <1>4, <1>5, <1>7 DEF NwkFrameTypeOK, NwkTxTypeOK, NwkDataReqTypeOK,
                                RadioOwnsOneFrame, TimersArmed
<1>10. LockCounts'
  BY <1>1, <1>6, <1>7, <1>8, BusyFinite, QueuedFinite
     DEF LockCounts, NwkFrameTypeOK
<1>11. SleepsWithoutWork'
  BY <1>7, AwakeRequest DEF SleepsWithoutWork
<1> QED BY <1>5, <1>9, <1>10, <1>11

(* The application.                                                        *)
LEMMA AppSendsInv ==
  ASSUME CoreInv, AppSends
  PROVE  CoreInv'
<1> USE DEF CoreInv
<1>1. PICK r \in Reqs, p \in ReqParams : NWK_DataReq(r, p)
  BY DEF AppSends
<1> DEFINE q == [state |-> "INITIAL", frame |-> NULL, status |-> "SUCCESS",
                 dst |-> p.dst, ackRequest |-> p.ackRequest,
                 linkLocal |-> p.linkLocal, broadcastPan |-> p.broadcastPan]
<1>2. /\ req[r].state = "IDLE" /\ req' = [req EXCEPT ![r] = q]
      /\ queue' = <<r>> \o queue /\ lock' = lock + 1
      /\ UNCHANGED <<frame, nwkSeqNum, txVars>>
  BY <1>1 DEF NWK_DataReq
<1>3. q \in Req /\ q.state # "IDLE"
  BY ReqParamsAssumption DEF Req, ReqStates, Statuses
<1> HIDE DEF q
<1>4. /\ req' \in [Reqs -> Req] /\ req'[r].state # "IDLE"
      /\ \A s \in Reqs \ {r} : req'[s] = req[s]
  BY <1>2, <1>3 DEF NwkDataReqTypeOK
<1>5. /\ queue' \in Seq(Reqs) /\ QueueHoldsRequests'
      /\ Queued' = Queued \cup {r} /\ r \notin Queued
  BY <1>2, <1>4, QueueAdd
<1>6. Cardinality(Queued') = Cardinality(Queued) + 1
  BY <1>5, QueuedFinite, FS_AddElement
<1>7. UNCHANGED <<frame, nwkSeqNum, activeFrame, ackTimer, delayTimer, phyState>>
  BY <1>2 DEF txVars
<1>8. Busy' = Busy
  BY <1>7 DEF Busy
<1>9. /\ NwkFrameTypeOK' /\ NwkTxTypeOK' /\ NwkDataReqTypeOK'
      /\ RadioOwnsOneFrame' /\ TimersArmed'
  BY <1>2, <1>4, <1>5, <1>7 DEF NwkFrameTypeOK, NwkTxTypeOK, NwkDataReqTypeOK,
                                RadioOwnsOneFrame, TimersArmed
<1>10. LockCounts'
  BY <1>2, <1>6, <1>7, <1>8, BusyFinite, QueuedFinite
     DEF LockCounts, NwkFrameTypeOK
<1>11. SleepsWithoutWork'
  BY <1>7 DEF SleepsWithoutWork, AppSends
<1> QED BY <1>5, <1>9, <1>10, <1>11

(* The lock is zero only when there is nothing in hand.                    *)
LEMMA Unlocked ==
  ASSUME CoreInv, ~(lock > 0)
  PROVE  Busy = {} /\ queue = <<>> /\ activeFrame = NULL
<1> USE DEF CoreInv
<1> DEFINE sending == IF activeFrame = NULL THEN 0 ELSE 1
<1>1. lock = Cardinality(Busy) + Cardinality(Queued) + sending
  BY DEF LockCounts
<1>2. sending \in {0, 1} /\ (sending = 0 => activeFrame = NULL)
  OBVIOUS
<1> HIDE DEF sending
<1>3. Cardinality(Busy) = 0 /\ Cardinality(Queued) = 0 /\ sending = 0
  BY <1>1, <1>2, BusyFinite, QueuedFinite
<1>4. Busy = {} /\ Queued = {}
  BY <1>3, BusyFinite, QueuedFinite, FS_EmptySet
<1>5. queue = <<>>
  <2>1. queue \in Seq(Reqs) /\ DOMAIN queue = {}
    BY <1>4 DEF QueueHoldsRequests, NwkDataReqTypeOK
  <2> QED BY <2>1
<1> QED BY <1>2, <1>3, <1>4, <1>5

(* The node falls asleep and wakes without work in hand.                    *)
LEMMA AppSleepsInv ==
  ASSUME CoreInv, AppSleeps \/ AppWakes
  PROVE  CoreInv'
<1> USE DEF CoreInv
<1>1. /\ UNCHANGED <<frame, lock, nwkSeqNum, activeFrame, ackTimer, delayTimer>>
      /\ UNCHANGED reqVars /\ phyState' \in {"IDLE", "SLEEP"}
  BY DEF AppSleeps, AppWakes, frameVars
<1>2. activeFrame = NULL /\ phyState # "TX_WAIT_END"
  BY Unlocked DEF AppSleeps, AppWakes, RadioOwnsOneFrame
<1>3. Busy' = Busy
  BY <1>1 DEF Busy
<1>4. NwkDataReqTypeOK' /\ QueueHoldsRequests' /\ Queued' = Queued
  BY <1>1, UnchangedRequests
<1>5. NwkFrameTypeOK' /\ NwkTxTypeOK' /\ TimersArmed' /\ LockCounts'
  BY <1>1, <1>3, <1>4 DEF NwkFrameTypeOK, NwkTxTypeOK, TimersArmed, LockCounts
<1>6. RadioOwnsOneFrame'
  BY <1>1, <1>2 DEF RadioOwnsOneFrame
<1>7. SleepsWithoutWork'
  BY <1>1, <1>3, Unlocked DEF SleepsWithoutWork, AppSleeps, AppWakes, reqVars
<1> QED BY <1>4, <1>5, <1>6, <1>7
-------------------------------------------------------------------------------
(* Steps of the loop that only move on to its next part.                   *)
LEMMA UnchangedInv ==
  ASSUME CoreInv, UNCHANGED <<frameVars, txVars, reqVars>>
  PROVE  CoreInv'
BY DEF CoreInv, frameVars, txVars, reqVars, NwkFrameTypeOK, NwkTxTypeOK,
       NwkDataReqTypeOK, RadioOwnsOneFrame, TimersArmed, LockCounts, Busy,
       Queued, QueueHoldsRequests, SleepsWithoutWork

(* The core invariant is inductive.                                         *)
LEMMA CoreStep == CoreInv /\ [Next]_vars => CoreInv'
<1> SUFFICES ASSUME CoreInv, [Next]_vars
             PROVE  CoreInv'
  OBVIOUS
<1>1. CASE RadioReceives
  <2>1. PICK g \in Frames, h \in Incoming : PHY_DataInd(g, h)
    BY <1>1 DEF RadioReceives
  <2>2. FrameStep /\ UNCHANGED reqVars /\ phyState # "SLEEP"
    BY <1>1, <2>1, PHY_DataIndStep DEF CoreInv, RadioReceives, PHY_DataInd
  <2> QED BY <2>2, UnchangedRequests, FrameStepInv
<1>2. CASE RadioSent
  BY <1>2, PHY_DataConfInv DEF RadioSent
<1>3. CASE ReqStep
  BY <1>3, ReqSendInv, ReqOutOfMemoryInv, ReqConfirmInv DEF ReqStep
<1>4. CASE AckTimerFires
  BY <1>4, AckTimerInv DEF AckTimerFires
<1>5. CASE DelayTimerFires
  BY <1>5, DelayTimerInv DEF DelayTimerFires
<1>6. CASE \/ RadioIdle \/ RxDone \/ TxDone \/ ReqDone \/ TimersDone \/ AppDone
           \/ UNCHANGED vars
  <2>1. UNCHANGED <<frameVars, txVars, reqVars>>
    BY <1>6 DEF RadioIdle, RxDone, TxDone, ReqDone, TimersDone, AppDone, vars
  <2> QED BY <2>1, UnchangedInv
<1> QED BY <1>1, <1>2, <1>3, <1>4, <1>5, <1>6, RxStepInv, TxStepInv, AppSendsInv,
           AppSleepsInv DEF Next, Loop

(* It holds when the layer has been initialized.                            *)
LEMMA CoreInit == Init => CoreInv
<1> SUFFICES ASSUME Init PROVE CoreInv
  OBVIOUS
<1> USE DEF Init
<1>1. NwkFrameTypeOK
  <2>1. nwkSeqNum \in Seqs /\ lock \in Int
    BY SeqCountAssumption DEF NwkFrameInit, Seqs
  <2>2. frame \in [Frames -> Frame]
    BY NewFrames DEF NwkFrameInit
  <2> QED BY <2>1, <2>2 DEF NwkFrameTypeOK
<1>2. \A f \in Frames : frame[f].state = "FREE"
  BY DEF NwkFrameInit, FreeFrame
<1>3. NwkTxTypeOK
  BY DEF NwkTxInit, NwkTxTypeOK
<1>4. NwkDataReqTypeOK
  BY AddrAssumption
     DEF NwkDataReqInit, NwkDataReqTypeOK, IdleReq, Req, ReqStates, Statuses, Addr
<1>5. Busy = {} /\ Queued = {} /\ queue = <<>> /\ activeFrame = NULL /\ lock = 0
  BY <1>2 DEF Busy, Queued, NwkDataReqInit, NwkTxInit, NwkFrameInit, IdleReq
<1>6. LockCounts
  BY <1>5, FS_EmptySet DEF LockCounts
<1>7. RadioOwnsOneFrame /\ TimersArmed
  BY <1>2, <1>5 DEF RadioOwnsOneFrame, TimersArmed, NwkTxInit, Frames, NULL
<1>8. QueueHoldsRequests /\ SleepsWithoutWork
  BY <1>5 DEF QueueHoldsRequests, SleepsWithoutWork
<1> QED BY <1>1, <1>3, <1>4, <1>6, <1>7, <1>8 DEF CoreInv

(* The core invariant holds in every reachable state: it is inductive.     *)
THEOREM CoreInvariant == Spec => []CoreInv
BY CoreInit, CoreStep, PTL DEF Spec

(* Where the loop is: in one of its phases, at a frame or past the last.   *)
LoopTypeOK == phase \in Phases /\ cursor \in 1..(NBuf + 1)

(* The loop stays in its phases and the walk within the buffers.            *)
LEMMA LoopStep == LoopTypeOK /\ [Next]_vars => LoopTypeOK'
<1> SUFFICES ASSUME LoopTypeOK, [Next]_vars
             PROVE  LoopTypeOK'
  OBVIOUS
<1> USE NBufAssumption DEF LoopTypeOK, Phases
<1>1. CASE UNCHANGED loopVars
  BY <1>1 DEF loopVars
<1>2. CASE \E p \in Phases : GoTo(p)
  BY <1>2 DEF GoTo
<1>3. CASE \E f \in Frames : WalkPast(f)
  BY <1>3 DEF WalkPast, Frames
<1> QED BY <1>1, <1>2, <1>3
        DEF Next, Loop, RadioIdle, RxStep, RxDone, TxStep, TxDone, ReqStep,
            ReqDone, TimersDone, AppDone, RadioReceives, RadioSent,
            AckTimerFires, DelayTimerFires, AppSends, AppSleeps, AppWakes, vars

(* Every variable of the layer keeps its type; in particular no tick count *)
(* ever wraps below zero, although one handler counts all frames down.     *)
THEOREM TypeCorrect == Spec => []TypeOK
<1>1. Init => LoopTypeOK
  BY NBufAssumption DEF Init, LoopTypeOK, Phases
<1>2. CoreInv /\ LoopTypeOK => TypeOK
  BY DEF CoreInv, LoopTypeOK, TypeOK
<1> QED BY <1>1, <1>2, LoopStep, CoreInvariant, PTL DEF Spec

(* NWK_Busy() tells the truth: the counter nwkIb.lock is the number of     *)
(* buffers, requests and transmissions in hand, on every path of every     *)
(* handler, the ones that run out of buffers included.                     *)
THEOREM LockIsWork == Spec => []LockCounts
<1>1. CoreInv => LockCounts
  BY DEF CoreInv
<1> QED BY <1>1, CoreInvariant, PTL

(* PHY_DataConf() always finds the one frame whose transmission it ends.   *)
THEOREM RadioSafe == Spec => []RadioOwnsOneFrame
<1>1. CoreInv => RadioOwnsOneFrame
  BY DEF CoreInv
<1> QED BY <1>1, CoreInvariant, PTL

(* No frame waits for a timer that is not running (nwkTx.c timers).        *)
THEOREM NoLostWakeup == Spec => []TimersArmed
<1>1. CoreInv => TimersArmed
  BY DEF CoreInv
<1> QED BY <1>1, CoreInvariant, PTL

(* The list of requests holds the requests in service, each of them once.  *)
THEOREM QueueExact == Spec => []QueueHoldsRequests
<1>1. CoreInv => QueueHoldsRequests
  BY DEF CoreInv
<1> QED BY <1>1, CoreInvariant, PTL

(* A node that NWK_SleepReq() put to sleep leaves no work behind.          *)
THEOREM SleepSafe == Spec => []SleepsWithoutWork
<1>1. CoreInv => SleepsWithoutWork
  BY DEF CoreInv
<1> QED BY <1>1, CoreInvariant, PTL
-------------------------------------------------------------------------------
(***************************************************************************)
(* Requests and their frames.  A frame is either plain, or it was sent for *)
(* a request and will confirm it.  Every waiting request has one of the    *)
(* second kind for itself, and the order of the list tells it from those   *)
(* that still point to the same buffer.                                    *)
(***************************************************************************)
Plain(fr) ==
  /\ fr.confirm = "NULL" /\ fr.state # "WAIT_ACK"
  /\ fr.state = "ROUTE" => fr.header.src # Me
  /\ fr.state \in TxStates => fr.header.src # Me \/ ~fr.header.ackRequest

ForRequest(fr) ==
  /\ fr.confirm = "nwkDataReqTxConf" /\ fr.state \in TxStates
  /\ fr.header.src = Me
  /\ fr.state = "WAIT_ACK" => fr.status = "SUCCESS" /\ fr.header.ackRequest

FrameKinds == \A f \in Frames : Plain(frame[f]) \/ ForRequest(frame[f])

WaitersHaveFrames ==
  \A r \in Reqs : req[r].state = "WAIT_CONF" =>
    /\ req[r].frame \in Frames
    /\ SentFor(r).confirm = "nwkDataReqTxConf"
    /\ SentFor(r).header.ackRequest = req[r].ackRequest

FramesHaveOwners ==
  /\ \A f \in Frames : frame[f].confirm = "nwkDataReqTxConf" =>
       \E r \in Reqs : OwnedBy(r, f)
  /\ \A r, s \in Reqs, f \in Frames : OwnedBy(r, f) /\ OwnedBy(s, f) => r = s

(* A request has no frame before its turn; behind one with the same frame  *)
(* in the list there are only confirmed ones.                              *)
LaterStandsBefore ==
  /\ \A r \in Reqs : req[r].state = "INITIAL" => req[r].frame = NULL
  /\ \A i, j \in DOMAIN queue :
       i < j /\ req[queue[i]].frame = req[queue[j]].frame
         => req[queue[j]].state # "WAIT_CONF"

OwnInv == FrameKinds /\ WaitersHaveFrames /\ FramesHaveOwners /\ LaterStandsBefore

(* Frames of the transmitter that it has not sent yet.                     *)
Sending == {"DELAY", "WAIT_DELAY", "SEND", "WAIT_CONF"}

(* What the sender of a frame would be told of it (StageOf, ResultOf).     *)
SentStage(fr) ==
  IF fr.state = "WAIT_ACK" THEN "WAITING"
  ELSE IF fr.state = "CONFIRM" \/ (fr.state = "SENT" /\ ~AwaitsAck(fr)) THEN "DONE"
  ELSE "SENDING"

SentResult(fr) == IF SentStage(fr) = "DONE" THEN fr.status ELSE "SUCCESS"

(* A step is silent for a frame if no request could tell it, ...           *)
Silent(k) ==
  \/ Plain(frame[k]) /\ Plain(frame'[k])
  \/ /\ ForRequest(frame[k]) /\ ForRequest(frame'[k])
     /\ frame'[k].header.ackRequest = frame[k].header.ackRequest
     /\ SentStage(frame'[k]) = SentStage(frame[k])
     /\ SentResult(frame'[k]) = SentResult(frame[k])

(* ... and takes it from one stage to another otherwise.                   *)
Moves(k, from, to, result) ==
  /\ ForRequest(frame[k]) /\ ForRequest(frame'[k])
  /\ frame'[k].header.ackRequest = frame[k].header.ackRequest
  /\ SentStage(frame[k]) = from
  /\ SentStage(frame'[k]) = to /\ SentResult(frame'[k]) = result

(* A frame is of one kind only.                                            *)
LEMMA KindsDiffer ==
  ASSUME NEW fr
  PROVE  /\ Plain(fr) => ~ForRequest(fr) /\ fr.confirm # "nwkDataReqTxConf"
         /\ fr.state \notin TxStates => ~ForRequest(fr)
         /\ Plain(FreeFrame)
BY DEF Plain, ForRequest, FreeFrame, TxStates

(* A frame that does not change, and one that is only moved on towards the *)
(* radio, are silent.                                                      *)
LEMMA SameIsSilent ==
  ASSUME NEW k \in Frames, FrameKinds, frame'[k] = frame[k]
  PROVE  Silent(k)
BY DEF FrameKinds, Silent

LEMMA MoveIsSilent ==
  ASSUME NEW k \in Frames, FrameKinds,
         frame[k].state \in Sending, frame'[k].state \in Sending,
         frame'[k].confirm = frame[k].confirm, frame'[k].header = frame[k].header
  PROVE  Silent(k)
BY DEF FrameKinds, Silent, Plain, ForRequest, Sending, SentStage, SentResult, TxStates

(* In the receiver's states a frame is plain.                              *)
LEMMA ReceivedIsPlain ==
  ASSUME NEW k \in Frames, FrameKinds, frame[k].state \in RxStates \cup {"FREE"}
  PROVE  Plain(frame[k])
BY DEF FrameKinds, ForRequest, RxStates, TxStates

(* Setting the state of a frame changes nothing else.                      *)
LEMMA StateSet ==
  ASSUME NEW fr \in Frame, NEW s
  PROVE  /\ [fr EXCEPT !.state = s].state = s
         /\ [fr EXCEPT !.state = s].confirm = fr.confirm
         /\ [fr EXCEPT !.state = s].header = fr.header
         /\ [fr EXCEPT !.state = s].status = fr.status
BY DEF Frame

-------------------------------------------------------------------------------
(***************************************************************************)
(* What the handlers do to the frames for requests.  The receiver does     *)
(* nothing to them, but for the one frame whose acknowledgement it finds.  *)
(***************************************************************************)
Acked(w) ==
  /\ frame[w].state = "WAIT_ACK"
  /\ frame'[w] = [frame[w] EXCEPT !.state = "CONFIRM"]
  /\ \E k \in Frames : /\ frame[k].state = "INDICATE" /\ frame'[k].state = "FINISH"
                      /\ frame[k].header.command = "ACK"
                      /\ frame[k].header.acked = frame[w].header.seq

AckEffect == \E w \in Frames \cup {NULL} :
               /\ \A k \in Frames \ {w} : Silent(k)
               /\ w # NULL => Acked(w)

(* A step that changes plain frames only.                                  *)
LEMMA PlainEffect ==
  ASSUME FrameKinds,
         \A k \in Frames : \/ frame'[k] = frame[k]
                           \/ Plain(frame[k]) /\ Plain(frame'[k])
  PROVE  \A k \in Frames : Silent(k)
BY SameIsSilent DEF Silent

(* A received frame is plain, and so is what a reception puts in its place.*)
LEMMA DataIndEffect ==
  ASSUME CoreInv, FrameKinds, NEW g \in Frames, NEW h \in Incoming, PHY_DataInd(g, h)
  PROVE  \A k \in Frames : Silent(k)
<1> DEFINE new == [FreeFrame EXCEPT !.state = "RECEIVED", !.header = h]
<1>1. frame[g].state = "FREE" /\ frame' = [frame EXCEPT ![g] = new]
  BY DEF PHY_DataInd, nwkFrameAlloc
<1>2. new.state = "RECEIVED" /\ new.confirm = "NULL"
  BY DEF FreeFrame
<1> HIDE DEF new
<1>3. Plain(new)
  BY <1>2 DEF Plain, TxStates
<1>4. frame'[g] = new /\ \A k \in Frames \ {g} : frame'[k] = frame[k]
  BY <1>1 DEF CoreInv, NwkFrameTypeOK
<1>5. Plain(frame[g])
  BY <1>1, ReceivedIsPlain
<1> QED BY <1>3, <1>4, <1>5, PlainEffect

(* The filter lets nothing through that bears this node's own address.     *)
LEMMA VerdictIsPlain ==
  ASSUME NEW fr \in Frame, NEW d, fr.confirm = "NULL"
  PROVE  Plain([fr EXCEPT !.state = Verdict(fr.header, d)])
<1> DEFINE s == Verdict(fr.header, d)
<1>1. s \in {"FINISH", "INDICATE", "ROUTE"}
  BY Verdicts
<1>2. s = "ROUTE" => fr.header.src # Me
  BY DEF Verdict, Filtered
<1> HIDE DEF s
<1>3. Plain([fr EXCEPT !.state = s])
  BY <1>1, <1>2, StateSet DEF Plain, TxStates
<1> QED BY <1>3 DEF s

LEMMA RxReceivedEffect ==
  ASSUME CoreInv, FrameKinds, NEW f \in Frames, RxReceived(f)
  PROVE  \A k \in Frames : Silent(k)
<1>1. frame \in [Frames -> Frame]
  BY DEF CoreInv, NwkFrameTypeOK
<1>2. PICK d \in BOOLEAN :
        frame' = [frame EXCEPT ![f].state = Verdict(frame[f].header, d)]
  BY DEF RxReceived
<1>3. Plain(frame[f]) /\ frame[f].confirm = "NULL"
  BY ReceivedIsPlain DEF RxReceived, RxStates, Plain
<1> DEFINE new == [frame[f] EXCEPT !.state = Verdict(frame[f].header, d)]
<1>4. Plain(new)
  BY <1>1, <1>3, VerdictIsPlain
<1>5. frame'[f] = new /\ \A k \in Frames \ {f} : frame'[k] = frame[k]
  BY <1>1, <1>2
<1> HIDE DEF new
<1> QED BY <1>3, <1>4, <1>5, PlainEffect

(* Nor is a frame of this node passed on.                                  *)
LEMMA RxReceivedPassOnEffect ==
  ASSUME CoreInv, FrameKinds, NEW f \in Frames, NEW g \in Frames, RxReceivedPassOn(f, g)
  PROVE  \A k \in Frames : Silent(k)
<1> DEFINE h == frame[f].header
           moved == [frame[f] EXCEPT !.state = Verdict(h, FALSE)]
<1>1. frame \in [Frames -> Frame] /\ h \in Header
  BY DEF CoreInv, NwkFrameTypeOK, Frame
<1>2. PICK j \in Jitter :
        frame' = [frame EXCEPT ![f].state = Verdict(h, FALSE),
                               ![g] = nwkTxBroadcastFrame(h, j)]
  BY DEF RxReceivedPassOn
<1>3. /\ frame[f].state = "RECEIVED" /\ frame[g].state = "FREE" /\ h.src # Me
  BY DEF RxReceivedPassOn, nwkFrameAlloc, Filtered
<1>4. Plain(frame[f]) /\ frame[f].confirm = "NULL" /\ Plain(frame[g])
  BY <1>3, ReceivedIsPlain DEF RxStates, Plain
<1>5. Plain(moved)
  BY <1>1, <1>4, VerdictIsPlain
<1> DEFINE new == nwkTxBroadcastFrame(h, j)
<1>6. Plain(new)
  <2> DEFINE out == [h EXCEPT !.macDst = Bcast]
  <2>1. out.src = h.src
    BY <1>1 DEF Header
  <2> HIDE DEF out
  <2>2. /\ [FreeFrame EXCEPT !.state = "DELAY", !.header = out, !.timeout = j].state = "DELAY"
        /\ [FreeFrame EXCEPT !.state = "DELAY", !.header = out, !.timeout = j].header = out
        /\ [FreeFrame EXCEPT !.state = "DELAY", !.header = out, !.timeout = j].confirm = "NULL"
    BY DEF FreeFrame
  <2> QED BY <1>3, <2>1, <2>2 DEF nwkTxBroadcastFrame, Plain, out
<1> HIDE DEF new, moved
<1>7. frame'[g] = new /\ frame'[f] = moved /\ \A k \in Frames \ {f, g} : frame'[k] = frame[k]
  BY <1>1, <1>2, <1>3 DEF new, moved
<1> QED BY <1>4, <1>5, <1>6, <1>7, PlainEffect

(* What an indication leaves of f and of the frame that waited for it.     *)
LEMMA IndicatedFrames ==
  ASSUME CoreInv, FrameKinds, NEW f \in Frames, NEW w \in Frames \cup {NULL},
         frame[f].state = "INDICATE", Waiter(w, frame[f].header)
  PROVE  /\ AfterIndication(f, w) \in [Frames -> Frame]
         /\ Plain(frame[f]) /\ Plain(AfterIndication(f, w)[f])
         /\ AfterIndication(f, w)[f].state = "FINISH"
         /\ w # NULL => /\ frame[w].state = "WAIT_ACK" /\ w # f
                        /\ AfterIndication(f, w)[w] = [frame[w] EXCEPT !.state = "CONFIRM"]
                        /\ frame[f].header.command = "ACK"
                        /\ frame[f].header.acked = frame[w].header.seq
         /\ \A k \in Frames \ {f, w} : AfterIndication(f, w)[k] = frame[k]
<1> DEFINE finished == [frame EXCEPT ![f] = [frame[f] EXCEPT !.state = "FINISH"]]
<1>1. NwkFrameTypeOK
  BY DEF CoreInv
<1>2. /\ AfterIndication(f, w) \in [Frames -> Frame]
      /\ AfterIndication(f, w)[f].state = "FINISH"
      /\ \A k \in Frames \ {f, w} : AfterIndication(f, w)[k] = frame[k]
  BY <1>1, Indicated
<1>3. /\ finished[f] = [frame[f] EXCEPT !.state = "FINISH"]
      /\ DOMAIN finished = Frames
      /\ \A k \in Frames \ {f} : finished[k] = frame[k]
  BY <1>1 DEF NwkFrameTypeOK
<1>4. w # NULL => /\ w \in Frames /\ w # f /\ frame[w].state = "WAIT_ACK"
                  /\ frame[f].header.command = "ACK"
                  /\ frame[f].header.acked = frame[w].header.seq
  BY DEF Waiter, AckMatches
<1>5. AfterIndication(f, w) =
        IF w = NULL THEN finished ELSE [finished EXCEPT ![w].state = "CONFIRM"]
  BY DEF AfterIndication
<1> HIDE DEF finished
<1>6. /\ AfterIndication(f, w)[f] = [frame[f] EXCEPT !.state = "FINISH"]
      /\ w # NULL => AfterIndication(f, w)[w] = [frame[w] EXCEPT !.state = "CONFIRM"]
  BY <1>3, <1>4, <1>5
<1>7. Plain(frame[f])
  BY ReceivedIsPlain DEF RxStates
<1>8. Plain(AfterIndication(f, w)[f])
  BY <1>1, <1>6, <1>7, StateSet DEF NwkFrameTypeOK, Plain, TxStates
<1> QED BY <1>2, <1>4, <1>6, <1>7, <1>8

(* An indication is silent, but for the frame that it acknowledges.        *)
LEMMA RxIndicateEffect ==
  ASSUME CoreInv, FrameKinds, NEW f \in Frames, NEW w \in Frames \cup {NULL},
         RxIndicate(f, w)
  PROVE  AckEffect
<1>1. /\ frame[f].state = "INDICATE" /\ Waiter(w, frame[f].header)
      /\ frame' = AfterIndication(f, w)
  BY DEF RxIndicate
<1>2. /\ Plain(frame[f]) /\ Plain(frame'[f]) /\ frame'[f].state = "FINISH"
      /\ w # NULL => /\ frame[w].state = "WAIT_ACK" /\ w # f
                     /\ frame'[w] = [frame[w] EXCEPT !.state = "CONFIRM"]
                     /\ frame[f].header.command = "ACK"
                     /\ frame[f].header.acked = frame[w].header.seq
      /\ \A k \in Frames \ {f, w} : frame'[k] = frame[k]
  BY <1>1, IndicatedFrames
<1>3. \A k \in Frames \ {w} : Silent(k)
  <2> SUFFICES ASSUME NEW k \in Frames \ {w} PROVE Silent(k)
    OBVIOUS
  <2>1. CASE k = f
    BY <1>2, <2>1 DEF Silent
  <2>2. CASE k # f
    BY <1>2, <2>2, SameIsSilent
  <2> QED BY <2>1, <2>2
<1>4. w # NULL => Acked(w)
  BY <1>1, <1>2 DEF Acked
<1> QED BY <1>3, <1>4 DEF AckEffect

(* A command of this node is plain: nobody waits for its acknowledgement.  *)
LEMMA CommandIsPlain ==
  ASSUME NEW c \in Header, ~c.ackRequest, NEW hop \in Hops, NEW j \in Jitter
  PROVE  Plain(nwkTxFrame(CommandFrame(c), hop, j))
<1>1. /\ CommandFrame(c) \in Frame
      /\ CommandFrame(c).confirm = "NULL" /\ CommandFrame(c).header = c
  BY NewFrames DEF CommandFrame, FreeFrame
<1> DEFINE new == nwkTxFrame(CommandFrame(c), hop, j)
<1>2. /\ new.state = "DELAY" /\ new.confirm = "NULL" /\ new.header.ackRequest = c.ackRequest
  BY <1>1, TxFrame
<1> HIDE DEF new
<1>3. Plain(new)
  BY <1>2 DEF Plain
<1> QED BY <1>3 DEF new

LEMMA RxIndicateAckEffect ==
  ASSUME CoreInv, FrameKinds, NEW f \in Frames, NEW w \in Frames \cup {NULL},
         NEW g \in Frames, RxIndicateAck(f, w, g)
  PROVE  AckEffect
<1> DEFINE after == AfterIndication(f, w)
           h == frame[f].header
           ack == [nwkFrameCommandInit("ACK", h.src)
                     EXCEPT !.secured = h.secured, !.acked = h.seq]
<1>1. /\ frame[f].state = "INDICATE" /\ Waiter(w, h) /\ frame[g].state = "FREE"
  BY DEF RxIndicateAck, nwkFrameAlloc
<1>2. PICK hop \in Hops, j \in Jitter :
        frame' = [after EXCEPT ![g] = nwkTxFrame(CommandFrame(ack), hop, j)]
  BY DEF RxIndicateAck
<1>3. h \in Header /\ nwkSeqNum \in Seqs /\ "ACK" \in Commands
  BY DEF CoreInv, NwkFrameTypeOK, Frame, Commands
<1>4. ack \in Header /\ ~ack.ackRequest
  BY <1>3, CommandHeaders
<1> DEFINE new == nwkTxFrame(CommandFrame(ack), hop, j)
<1> HIDE DEF ack
<1>5. Plain(new)
  BY <1>4, CommandIsPlain
<1>6. frame' = [after EXCEPT ![g] = new]
  BY <1>2
<1> HIDE DEF new
<1>7. /\ after \in [Frames -> Frame]
      /\ Plain(frame[f]) /\ Plain(after[f]) /\ after[f].state = "FINISH"
      /\ w # NULL => /\ frame[w].state = "WAIT_ACK" /\ w # f
                     /\ after[w] = [frame[w] EXCEPT !.state = "CONFIRM"]
                     /\ frame[f].header.command = "ACK"
                     /\ frame[f].header.acked = frame[w].header.seq
      /\ \A k \in Frames \ {f, w} : after[k] = frame[k]
  BY <1>1, IndicatedFrames
<1> HIDE DEF after, h
<1>8. g # f /\ g # w
  BY <1>1, <1>7 DEF NULL, Frames
<1>9. frame'[g] = new /\ \A k \in Frames \ {g} : frame'[k] = after[k]
  BY <1>6, <1>7
<1>10. \A k \in Frames \ {w} : Silent(k)
  <2> SUFFICES ASSUME NEW k \in Frames \ {w} PROVE Silent(k)
    OBVIOUS
  <2>1. CASE k = f
    BY <1>7, <1>8, <1>9, <2>1 DEF Silent
  <2>2. CASE k = g
    <3>1. Plain(frame[g])
      BY <1>1, ReceivedIsPlain
    <3> QED BY <1>5, <1>9, <2>2, <3>1 DEF Silent
  <2>3. CASE k # f /\ k # g
    BY <1>7, <1>9, <2>3, SameIsSilent
  <2> QED BY <2>1, <2>2, <2>3
<1>11. w # NULL => Acked(w)
  BY <1>1, <1>7, <1>8, <1>9 DEF Acked
<1> QED BY <1>10, <1>11 DEF AckEffect

(* What is routed did not come from this node, and confirms to no one.     *)
LEMMA RxRouteEffect ==
  ASSUME CoreInv, FrameKinds, NEW f \in Frames, RxRoute(f)
  PROVE  \A k \in Frames : Silent(k)
<1> DEFINE fr == [frame[f] EXCEPT !.confirm = "NULL"]
<1>1. frame \in [Frames -> Frame]
  BY DEF CoreInv, NwkFrameTypeOK
<1>2. PICK hop \in Neighbours, j \in Jitter :
        frame' = [frame EXCEPT ![f] = nwkTxFrame(fr, hop, j)]
  BY DEF RxRoute
<1>3. fr \in Frame /\ fr.confirm = "NULL" /\ fr.header = frame[f].header
  <2>1. \A x \in Frame, c \in Confirms : [x EXCEPT !.confirm = c] \in Frame
    BY DEF Frame
  <2>2. fr \in Frame
    BY <1>1, <2>1 DEF Confirms
  <2>3. fr.confirm = "NULL" /\ fr.header = frame[f].header
    BY <1>1 DEF Frame
  <2> QED BY <2>2, <2>3
<1> DEFINE new == nwkTxFrame(fr, hop, j)
<1>4. Plain(frame[f]) /\ frame[f].header.src # Me
  BY ReceivedIsPlain DEF RxRoute, RxStates, Plain
<1> HIDE DEF fr
<1>5. /\ new.state = "DELAY" /\ new.confirm = "NULL"
      /\ new.header.src = frame[f].header.src
  BY <1>3, TxFrame DEF Hops
<1> HIDE DEF new
<1>6. Plain(new)
  BY <1>4, <1>5 DEF Plain
<1>7. frame'[f] = new /\ \A k \in Frames \ {f} : frame'[k] = frame[k]
  BY <1>1, <1>2 DEF new
<1> QED BY <1>4, <1>6, <1>7, PlainEffect

LEMMA RxRouteErrorEffect ==
  ASSUME CoreInv, FrameKinds, NEW f \in Frames, NEW g \in Frames, RxRouteError(f, g)
  PROVE  \A k \in Frames : Silent(k)
<1> DEFINE error == nwkFrameCommandInit("ROUTE_ERROR", frame[f].header.src)
<1>1. /\ frame \in [Frames -> Frame] /\ frame[f].header \in Header
      /\ nwkSeqNum \in Seqs /\ "ROUTE_ERROR" \in Commands
  BY DEF CoreInv, NwkFrameTypeOK, Frame, Commands
<1>2. PICK hop \in Hops, j \in Jitter :
        frame' = [frame EXCEPT ![g] = nwkTxFrame(CommandFrame(error), hop, j),
                               ![f] = FreeFrame]
  BY DEF RxRouteError
<1>3. error \in Header /\ ~error.ackRequest
  BY <1>1, CommandHeaders
<1> HIDE DEF error
<1> DEFINE new == nwkTxFrame(CommandFrame(error), hop, j)
<1>4. Plain(new)
  BY <1>3, CommandIsPlain
<1> HIDE DEF new
<1>5. Plain(frame[f]) /\ Plain(frame[g]) /\ Plain(FreeFrame)
  BY ReceivedIsPlain, KindsDiffer DEF RxRouteError, nwkFrameAlloc, RxStates
<1>6. /\ frame'[f] = FreeFrame \/ frame'[f] = new
      /\ frame'[g] = FreeFrame \/ frame'[g] = new
      /\ \A k \in Frames \ {f, g} : frame'[k] = frame[k]
  BY <1>1, <1>2 DEF new
<1> QED BY <1>4, <1>5, <1>6, PlainEffect

(* A plain frame is given back.                                            *)
LEMMA FreeEffect ==
  ASSUME CoreInv, FrameKinds, NEW f \in Frames, Plain(frame[f]),
         frame' = [frame EXCEPT ![f] = FreeFrame]
  PROVE  \A k \in Frames : Silent(k)
<1>1. frame'[f] = FreeFrame /\ \A k \in Frames \ {f} : frame'[k] = frame[k]
  BY DEF CoreInv, NwkFrameTypeOK
<1> QED BY <1>1, KindsDiffer, PlainEffect

(* Every case of the receiver is silent, or acknowledges one frame.        *)
LEMMA RxEffect ==
  ASSUME CoreInv, FrameKinds, RxStep
  PROVE  AckEffect
<1>1. PICK f \in Frames :
        \/ RxReceived(f)
        \/ \E g \in Frames : RxReceivedPassOn(f, g)
        \/ \E w \in Frames \cup {NULL} : RxIndicate(f, w)
        \/ \E w \in Frames \cup {NULL}, g \in Frames : RxIndicateAck(f, w, g)
        \/ RxRoute(f)
        \/ RxRouteUnknown(f)
        \/ \E g \in Frames : RxRouteError(f, g)
        \/ RxFinish(f)
  BY DEF RxStep
<1>2. (\A k \in Frames : Silent(k)) => AckEffect
  BY DEF AckEffect
<1>3. CASE RxRouteUnknown(f) \/ RxFinish(f)
  <2>1. Plain(frame[f]) /\ frame' = [frame EXCEPT ![f] = FreeFrame]
    BY <1>3, ReceivedIsPlain DEF RxRouteUnknown, RxFinish, RxStates
  <2> QED BY <1>2, <2>1, FreeEffect
<1> QED BY <1>1, <1>2, <1>3, RxReceivedEffect, RxReceivedPassOnEffect,
           RxIndicateEffect, RxIndicateAckEffect, RxRouteEffect, RxRouteErrorEffect

-------------------------------------------------------------------------------
(* The transmitter and the timers: frames on their way to the radio are    *)
(* silent, ...                                                             *)
OneMoves(f, from, to, result) ==
  Moves(f, from, to, result) /\ \A k \in Frames \ {f} : Silent(k)

LEMMA SendingEffect ==
  ASSUME CoreInv, FrameKinds, NEW f \in Frames, NEW s \in Sending,
         frame[f].state \in Sending, frame' = [frame EXCEPT ![f].state = s]
  PROVE  \A k \in Frames : Silent(k)
<1> DEFINE new == [frame[f] EXCEPT !.state = s]
<1>1. frame \in [Frames -> Frame]
  BY DEF CoreInv, NwkFrameTypeOK
<1>2. /\ new.state = s /\ new.confirm = frame[f].confirm
      /\ new.header = frame[f].header
  BY <1>1, StateSet
<1>3. frame'[f] = new /\ \A k \in Frames \ {f} : frame'[k] = frame[k]
  BY <1>1
<1> HIDE DEF new
<1>4. Silent(f)
  BY <1>2, <1>3, MoveIsSilent
<1> QED BY <1>3, <1>4, SameIsSilent

(* ... one that has been sent waits, if its sender asked for it, ...       *)
LEMMA TxSentEffect ==
  ASSUME CoreInv, FrameKinds, NEW f \in Frames, TxSent(f)
  PROVE  \/ \A k \in Frames : Silent(k)
         \/ /\ OneMoves(f, "SENDING", "WAITING", "SUCCESS")
            /\ frame[f].header.ackRequest
<1>1. frame \in [Frames -> Frame] /\ frame[f].state = "SENT"
  BY DEF CoreInv, NwkFrameTypeOK, TxSent
<1>2. Plain(frame[f]) \/ ForRequest(frame[f])
  BY DEF FrameKinds
<1>3. CASE ~AwaitsAck(frame[f])
  <2> DEFINE new == [frame[f] EXCEPT !.state = "CONFIRM"]
  <2>1. frame' = [frame EXCEPT ![f] = new]
    BY <1>3 DEF TxSent
  <2>2. /\ new.state = "CONFIRM" /\ new.confirm = frame[f].confirm
        /\ new.header = frame[f].header /\ new.status = frame[f].status
    BY <1>1, StateSet
  <2>3. frame'[f] = new /\ \A k \in Frames \ {f} : frame'[k] = frame[k]
    BY <1>1, <2>1
  <2> HIDE DEF new
  <2>4. Silent(f)
    BY <1>1, <1>2, <1>3, <2>2, <2>3
       DEF Silent, Plain, ForRequest, SentStage, SentResult, TxStates
  <2> QED BY <2>3, <2>4, SameIsSilent
<1>4. CASE AwaitsAck(frame[f])
  <2> DEFINE new == [frame[f] EXCEPT !.state = "WAIT_ACK", !.timeout = AckTicks]
  <2>1. frame' = [frame EXCEPT ![f] = new]
    BY <1>4 DEF TxSent
  <2>2. /\ new.state = "WAIT_ACK" /\ new.confirm = frame[f].confirm
        /\ new.header = frame[f].header /\ new.status = frame[f].status
    BY <1>1 DEF Frame
  <2>3. frame'[f] = new /\ \A k \in Frames \ {f} : frame'[k] = frame[k]
    BY <1>1, <2>1
  <2> HIDE DEF new
  <2>4. ForRequest(frame[f])
    BY <1>1, <1>2, <1>4 DEF Plain, AwaitsAck, TxStates
  <2>5. Moves(f, "SENDING", "WAITING", "SUCCESS")
    BY <1>1, <1>4, <2>2, <2>3, <2>4
       DEF Moves, ForRequest, SentStage, SentResult, AwaitsAck, TxStates
  <2> QED BY <1>4, <2>3, <2>5, SameIsSilent DEF OneMoves, AwaitsAck
<1> QED BY <1>3, <1>4

(* ... the radio's report ends what nobody has to acknowledge, ...         *)
LEMMA DataConfEffect ==
  ASSUME CoreInv, FrameKinds, PHY_DataConf
  PROVE  \/ \A k \in Frames : Silent(k)
         \/ \E f \in Frames : OneMoves(f, "SENDING", "DONE", "PHY_ERROR")
         \/ \E f \in Frames : /\ OneMoves(f, "SENDING", "DONE", "SUCCESS")
                             /\ ~frame[f].header.ackRequest
<1> DEFINE f == activeFrame
<1>1. PICK status \in {"SUCCESS", "PHY_ERROR"} :
        frame' = [frame EXCEPT ![f] = [@ EXCEPT !.state = "SENT", !.status = status]]
  BY DEF PHY_DataConf
<1>2. f \in Frames /\ frame[f].state = "WAIT_CONF" /\ frame \in [Frames -> Frame]
  BY DEF PHY_DataConf, CoreInv, RadioOwnsOneFrame, NwkTxTypeOK, NwkFrameTypeOK
<1> DEFINE new == [frame[f] EXCEPT !.state = "SENT", !.status = status]
<1>3. /\ new.state = "SENT" /\ new.status = status
      /\ new.confirm = frame[f].confirm /\ new.header = frame[f].header
  BY <1>2 DEF Frame
<1>4. frame'[f] = new /\ \A k \in Frames \ {f} : frame'[k] = frame[k]
  BY <1>1, <1>2
<1> HIDE DEF new, f
<1>5. \A k \in Frames \ {f} : Silent(k)
  BY <1>4, SameIsSilent
<1>6. CASE Plain(frame[f])
  <2>1. Silent(f)
    BY <1>2, <1>3, <1>4, <1>6 DEF Silent, Plain, TxStates
  <2> QED BY <1>5, <2>1
<1>7. CASE ForRequest(frame[f])
  <2>1. /\ ForRequest(new) /\ SentStage(frame[f]) = "SENDING"
        /\ SentResult(frame[f]) = "SUCCESS"
    BY <1>2, <1>3, <1>7 DEF ForRequest, SentStage, SentResult, TxStates
  <2>2. CASE AwaitsAck(new)
    <3>1. SentStage(new) = "SENDING" /\ SentResult(new) = "SUCCESS"
      BY <1>3, <2>2 DEF SentStage, SentResult
    <3>2. Silent(f)
      BY <1>3, <1>4, <1>7, <2>1, <3>1 DEF Silent
    <3> QED BY <1>5, <3>2
  <2>3. CASE ~AwaitsAck(new)
    <3>1. SentStage(new) = "DONE" /\ SentResult(new) = status
      BY <1>3, <2>3 DEF SentStage, SentResult
    <3>2. Moves(f, "SENDING", "DONE", status)
      BY <1>3, <1>4, <1>7, <2>1, <3>1 DEF Moves
    <3>3. status = "SUCCESS" => ~frame[f].header.ackRequest
      BY <1>3, <1>7, <2>3 DEF AwaitsAck, ForRequest
    <3> QED BY <1>2, <1>5, <3>2, <3>3 DEF OneMoves
  <2> QED BY <2>2, <2>3
<1> QED BY <1>2, <1>6, <1>7 DEF FrameKinds

(* ... and the last tick of the waiting time ends the wait, of as many     *)
(* frames as began it in the same interval.                                *)
LEMMA AckTimerEffect ==
  ASSUME CoreInv, FrameKinds, nwkTxAckWaitTimerHandler
  PROVE  \A k \in Frames : Silent(k) \/ Moves(k, "WAITING", "DONE", "NO_ACK")
<1> SUFFICES ASSUME NEW k \in Frames
             PROVE  Silent(k) \/ Moves(k, "WAITING", "DONE", "NO_ACK")
  OBVIOUS
<1> DEFINE last == [frame[k] EXCEPT !.timeout = 0, !.state = "CONFIRM",
                                    !.status = "NO_ACK"]
           next == [frame[k] EXCEPT !.timeout = @ - 1]
<1>1. frame[k] \in Frame /\ (Plain(frame[k]) \/ ForRequest(frame[k]))
  BY DEF CoreInv, NwkFrameTypeOK, FrameKinds
<1>2. frame'[k] = IF frame[k].state # "WAIT_ACK" THEN frame[k]
                  ELSE IF frame[k].timeout = 1 THEN last ELSE next
  BY DEF nwkTxAckWaitTimerHandler
<1>3. /\ last.state = "CONFIRM" /\ last.status = "NO_ACK"
      /\ last.header = frame[k].header /\ last.confirm = frame[k].confirm
      /\ next.state = frame[k].state /\ next.status = frame[k].status
      /\ next.header = frame[k].header /\ next.confirm = frame[k].confirm
  BY <1>1 DEF Frame
<1> HIDE DEF last, next
<1>4. CASE frame[k].state # "WAIT_ACK"
  BY <1>2, <1>4, SameIsSilent
<1>5. CASE frame[k].state = "WAIT_ACK"
  <2>1. ForRequest(frame[k])
    BY <1>1, <1>5 DEF Plain
  <2>2. Moves(k, "WAITING", "DONE", "NO_ACK") \/ Silent(k)
    <3>1. CASE frame[k].timeout = 1
      BY <1>2, <1>3, <1>5, <2>1, <3>1
         DEF Moves, ForRequest, SentStage, SentResult, TxStates
    <3>2. CASE frame[k].timeout # 1
      BY <1>2, <1>3, <1>5, <2>1, <3>2
         DEF Silent, ForRequest, SentStage, SentResult, TxStates
    <3> QED BY <3>1, <3>2
  <2> QED BY <2>2
<1> QED BY <1>4, <1>5

LEMMA DelayTimerEffect ==
  ASSUME CoreInv, FrameKinds, nwkTxDelayTimerHandler
  PROVE  \A k \in Frames : Silent(k)
<1> SUFFICES ASSUME NEW k \in Frames PROVE Silent(k)
  OBVIOUS
<1> DEFINE last == [frame[k] EXCEPT !.timeout = 0, !.state = "SEND"]
           next == [frame[k] EXCEPT !.timeout = @ - 1]
<1>1. frame[k] \in Frame
  BY DEF CoreInv, NwkFrameTypeOK
<1>2. frame'[k] = IF frame[k].state # "WAIT_DELAY" THEN frame[k]
                  ELSE IF frame[k].timeout = 1 THEN last ELSE next
  BY DEF nwkTxDelayTimerHandler
<1>3. /\ last.state = "SEND" /\ next.state = frame[k].state
      /\ last.header = frame[k].header /\ last.confirm = frame[k].confirm
      /\ next.header = frame[k].header /\ next.confirm = frame[k].confirm
  BY <1>1 DEF Frame
<1> HIDE DEF last, next
<1>4. CASE frame[k].state # "WAIT_DELAY"
  BY <1>2, <1>4, SameIsSilent
<1>5. CASE frame[k].state = "WAIT_DELAY"
  BY <1>2, <1>3, <1>5, MoveIsSilent DEF Sending
<1> QED BY <1>4, <1>5

-------------------------------------------------------------------------------
(***************************************************************************)
(* OwnInv is inductive.                                                    *)
(***************************************************************************)
KindKept(k) ==
  \/ Plain(frame[k]) /\ Plain(frame'[k])
  \/ /\ ForRequest(frame[k]) /\ ForRequest(frame'[k])
     /\ frame'[k].header.ackRequest = frame[k].header.ackRequest

(* Whatever becomes of a frame in the transmitter, it stays whose it was.  *)
LEMMA KindsKept ==
  ASSUME NEW k
  PROVE  /\ Silent(k) => KindKept(k)
         /\ \A s, t, u : Moves(k, s, t, u) => KindKept(k)
BY DEF Silent, Moves, KindKept

(* An acknowledged frame is one that was waiting, and is done.             *)
LEMMA AckedMoves ==
  ASSUME CoreInv, FrameKinds, NEW w \in Frames, Acked(w)
  PROVE  Moves(w, "WAITING", "DONE", "SUCCESS")
<1> DEFINE new == [frame[w] EXCEPT !.state = "CONFIRM"]
<1>1. frame[w] \in Frame /\ frame[w].state = "WAIT_ACK" /\ frame'[w] = new
  BY DEF CoreInv, NwkFrameTypeOK, Acked
<1>2. /\ new.state = "CONFIRM" /\ new.confirm = frame[w].confirm
      /\ new.header = frame[w].header /\ new.status = frame[w].status
  BY <1>1, StateSet
<1> HIDE DEF new
<1>3. ForRequest(frame[w]) /\ frame[w].status = "SUCCESS"
  BY <1>1 DEF FrameKinds, Plain, ForRequest
<1> QED BY <1>1, <1>2, <1>3 DEF Moves, ForRequest, SentStage, SentResult, TxStates

(* Steps that concern frames alone.                                        *)
LEMMA OwnKept ==
  ASSUME OwnInv, UNCHANGED reqVars, \A k \in Frames : KindKept(k)
  PROVE  OwnInv'
<1>1. req' = req /\ queue' = queue
  BY DEF reqVars
<1>2. FrameKinds'
  BY DEF KindKept, FrameKinds
<1>3. \A k \in Frames :
        /\ frame'[k].confirm = "nwkDataReqTxConf" <=> frame[k].confirm = "nwkDataReqTxConf"
        /\ frame[k].confirm = "nwkDataReqTxConf" =>
             frame'[k].header.ackRequest = frame[k].header.ackRequest
  BY DEF KindKept, Plain, ForRequest
<1>4. WaitersHaveFrames'
  BY <1>1, <1>3 DEF OwnInv, WaitersHaveFrames, SentFor
<1>5. FramesHaveOwners' /\ LaterStandsBefore'
  BY <1>1, <1>3 DEF OwnInv, FramesHaveOwners, LaterStandsBefore, OwnedBy
<1> QED BY <1>2, <1>4, <1>5 DEF OwnInv

(* A request that waits stands in the list, and the first one there with   *)
(* the frame of a confirmation is the one that waits for it.               *)
LEMMA Found ==
  ASSUME CoreInv, OwnInv
  PROVE  ConfirmFindsOwner
<1> SUFFICES ASSUME NEW f \in Frames, frame[f].confirm = "nwkDataReqTxConf"
             PROVE  \E i \in DOMAIN queue :
                      /\ OwnedBy(queue[i], f)
                      /\ \A j \in DOMAIN queue : j < i => req[queue[j]].frame # f
  BY DEF ConfirmFindsOwner
<1>1. PICK r \in Reqs : OwnedBy(r, f)
  BY DEF OwnInv, FramesHaveOwners
<1>2. PICK i \in DOMAIN queue : queue[i] = r
  BY <1>1 DEF CoreInv, QueueHoldsRequests, Queued, OwnedBy
<1>3. ASSUME NEW j \in DOMAIN queue, j < i
      PROVE  req[queue[j]].frame # f
  BY <1>1, <1>2, <1>3 DEF OwnInv, LaterStandsBefore, OwnedBy
<1> QED BY <1>1, <1>2, <1>3

LEMMA Owned ==
  ASSUME CoreInv, OwnInv
  PROVE  RequestsOwnFrames
<1>1. \A f \in Frames : frame[f].confirm = "nwkDataReqTxConf" =>
                          ForRequest(frame[f])
  BY DEF OwnInv, FrameKinds, Plain
<1>2. \A r \in Reqs : req[r].state = "WAIT_CONF" =>
       \E f \in Frames : /\ OwnedBy(r, f)
                        /\ frame[f].confirm = "nwkDataReqTxConf"
                        /\ frame[f].state \in TxStates
  BY <1>1 DEF OwnInv, WaitersHaveFrames, OwnedBy, SentFor, ForRequest
<1>3. \A f \in Frames : frame[f].confirm = "nwkDataReqTxConf" =>
       \E r \in Reqs : /\ OwnedBy(r, f)
                      /\ \A s \in Reqs : OwnedBy(s, f) => s = r
                      /\ frame[f].header.ackRequest = req[r].ackRequest
  BY DEF OwnInv, FramesHaveOwners, WaitersHaveFrames, OwnedBy, SentFor
<1>4. \A f \in Frames : frame[f].state = "WAIT_ACK" =>
       frame[f].confirm = "nwkDataReqTxConf" /\ frame[f].header.ackRequest
  BY DEF OwnInv, FrameKinds, Plain, ForRequest
<1> QED BY <1>2, <1>3, <1>4 DEF RequestsOwnFrames

(* The service gives a request a frame of its own: one that was in the     *)
(* pool, and that no waiting request can point to.                         *)
LEMMA ReqSendFacts ==
  ASSUME CoreInv, FrameKinds, NEW i \in DOMAIN queue, NEW g \in Frames, ReqSend(i, g)
  PROVE  /\ queue[i] \in Reqs /\ req[queue[i]].state = "INITIAL"
         /\ \A a \in DOMAIN queue : a < i => req[queue[a]].state = "WAIT_CONF"
         /\ frame[g].state = "FREE" /\ Plain(frame[g])
         /\ ForRequest(frame'[g]) /\ frame'[g].state = "DELAY"
         /\ frame'[g].header.ackRequest = req[queue[i]].ackRequest
         /\ \A k \in Frames \ {g} : frame'[k] = frame[k]
         /\ queue' = queue
         /\ req'[queue[i]].state = "WAIT_CONF" /\ req'[queue[i]].frame = g
         /\ req'[queue[i]].ackRequest = req[queue[i]].ackRequest
         /\ \A s \in Reqs \ {queue[i]} : req'[s] = req[s]
<1> DEFINE old == req[queue[i]]
           q == [old EXCEPT !.frame = g, !.state = "WAIT_CONF"]
<1>1. /\ frame[g].state = "FREE" /\ queue' = queue /\ req' = [req EXCEPT ![queue[i]] = q]
      /\ old.state = "INITIAL"
      /\ \A a \in DOMAIN queue : a < i => req[queue[a]].state = "WAIT_CONF"
  BY DEF ReqSend, nwkFrameAlloc, Turn
<1>2. /\ old \in Req /\ nwkSeqNum \in Seqs /\ queue[i] \in Reqs
      /\ frame \in [Frames -> Frame] /\ req \in [Reqs -> Req]
  BY DEF CoreInv, NwkDataReqTypeOK, NwkFrameTypeOK
<1>3. PICK hop \in Hops, jitter \in Jitter :
        frame' = [frame EXCEPT ![g] = nwkTxFrame(RequestFrame(old), hop, jitter)]
  BY DEF ReqSend
<1> DEFINE new == nwkTxFrame(RequestFrame(old), hop, jitter)
<1>4. /\ q.state = "WAIT_CONF" /\ q.frame = g /\ q.ackRequest = old.ackRequest
  BY <1>2 DEF Req
<1>5. /\ req'[queue[i]] = q
      /\ \A s \in Reqs \ {queue[i]} : req'[s] = req[s]
  BY <1>1, <1>2
<1> HIDE DEF q, old
<1>6. /\ new.state = "DELAY" /\ new.confirm = "nwkDataReqTxConf"
      /\ new.header.src = Me /\ new.header.ackRequest = old.ackRequest
  BY <1>2, RequestFrames, TxFrame
<1> HIDE DEF new
<1>7. ForRequest(new)
  BY <1>6 DEF ForRequest, TxStates
<1>8. frame'[g] = new /\ \A k \in Frames \ {g} : frame'[k] = frame[k]
  BY <1>2, <1>3 DEF new
<1>9. Plain(frame[g])
  BY <1>1, ReceivedIsPlain
<1> QED BY <1>1, <1>2, <1>4, <1>5, <1>6, <1>7, <1>8, <1>9 DEF old

LEMMA ReqSendOwn ==
  ASSUME CoreInv, OwnInv, NEW i \in DOMAIN queue, NEW g \in Frames, ReqSend(i, g)
  PROVE  OwnInv'
<1> DEFINE r == queue[i]
<1> USE DEF OwnInv
<1>1. /\ r \in Reqs /\ req[r].state = "INITIAL"
      /\ \A a \in DOMAIN queue : a < i => req[queue[a]].state = "WAIT_CONF"
      /\ Plain(frame[g]) /\ ForRequest(frame'[g])
      /\ frame'[g].header.ackRequest = req[r].ackRequest
      /\ \A k \in Frames \ {g} : frame'[k] = frame[k]
      /\ queue' = queue
      /\ req'[r].state = "WAIT_CONF" /\ req'[r].frame = g
      /\ req'[r].ackRequest = req[r].ackRequest
      /\ \A s \in Reqs \ {r} : req'[s] = req[s]
  BY ReqSendFacts
<1>2. \A a \in DOMAIN queue : queue[a] \in Reqs /\ (queue[a] = r => a = i)
  BY DEF CoreInv, NwkDataReqTypeOK, QueueHoldsRequests
<1> HIDE DEF r
<1>3. \A s \in Reqs : req[s].state = "WAIT_CONF" => req[s].frame # g /\ s # r
  BY <1>1 DEF WaitersHaveFrames, SentFor, Plain
<1>4. FrameKinds'
  BY <1>1 DEF FrameKinds
<1>5. WaitersHaveFrames'
  BY <1>1, <1>3 DEF WaitersHaveFrames, SentFor, ForRequest
<1>6. FramesHaveOwners'
  BY <1>1, <1>3 DEF FramesHaveOwners, OwnedBy
<1>7. LaterStandsBefore'
  <2>1. \A s \in Reqs : req'[s].state = "INITIAL" => req'[s].frame = NULL
    BY <1>1 DEF LaterStandsBefore
  <2>2. ASSUME NEW a \in DOMAIN queue, NEW b \in DOMAIN queue, a < b,
               req'[queue[a]].frame = req'[queue[b]].frame
        PROVE  req'[queue[b]].state # "WAIT_CONF"
    <3>1. CASE b = i
      <4>1. a # i /\ req[queue[a]].state = "WAIT_CONF"
        BY <1>1, <2>2, <3>1 DEF CoreInv, NwkDataReqTypeOK
      <4>2. queue[a] # r /\ req'[queue[a]].frame # g
        BY <1>1, <1>2, <1>3, <4>1
      <4> QED BY <1>1, <2>2, <3>1, <4>2 DEF r
    <3>2. CASE b # i
      <4>1. queue[b] \in Reqs \ {r} /\ req'[queue[b]] = req[queue[b]]
        BY <1>1, <1>2, <3>2
      <4>2. CASE a = i
        BY <1>1, <1>3, <2>2, <4>1, <4>2 DEF r
      <4>3. CASE a # i
        BY <1>1, <1>2, <2>2, <4>1, <4>3 DEF LaterStandsBefore
      <4> QED BY <4>2, <4>3
    <3> QED BY <3>1, <3>2
  <2> QED BY <1>1, <2>1, <2>2 DEF LaterStandsBefore
<1> QED BY <1>4, <1>5, <1>6, <1>7

(* A request without a frame is confirmed as it is.                        *)
LEMMA ReqOutOfMemoryFacts ==
  ASSUME CoreInv, NEW i \in DOMAIN queue, ReqOutOfMemory(i)
  PROVE  /\ queue[i] \in Reqs /\ req[queue[i]].state = "INITIAL"
         /\ UNCHANGED <<frame, queue>>
         /\ req'[queue[i]].state = "CONFIRM"
         /\ req'[queue[i]].status = "OUT_OF_MEMORY"
         /\ req'[queue[i]].frame = req[queue[i]].frame
         /\ req'[queue[i]].ackRequest = req[queue[i]].ackRequest
         /\ \A s \in Reqs \ {queue[i]} : req'[s] = req[s]
<1> DEFINE old == req[queue[i]]
           q == [old EXCEPT !.state = "CONFIRM", !.status = "OUT_OF_MEMORY"]
<1>1. /\ UNCHANGED <<frame, queue>> /\ req' = [req EXCEPT ![queue[i]] = q]
      /\ old.state = "INITIAL"
  BY DEF ReqOutOfMemory, frameVars
<1>2. old \in Req /\ queue[i] \in Reqs /\ req \in [Reqs -> Req]
  BY DEF CoreInv, NwkDataReqTypeOK
<1>3. /\ q.state = "CONFIRM" /\ q.status = "OUT_OF_MEMORY"
      /\ q.frame = old.frame /\ q.ackRequest = old.ackRequest
  BY <1>2 DEF Req
<1> HIDE DEF q
<1> QED BY <1>1, <1>2, <1>3

(* A confirmed request goes back to the application; the others keep       *)
(* their order.                                                            *)
LEMMA ReqConfirmFacts ==
  ASSUME CoreInv, NEW i \in DOMAIN queue, ReqConfirm(i)
  PROVE  /\ queue[i] \in Reqs /\ req[queue[i]].state = "CONFIRM"
         /\ UNCHANGED frame
         /\ req'[queue[i]].state = "IDLE" /\ req'[queue[i]].ackRequest = FALSE
         /\ \A s \in Reqs \ {queue[i]} : req'[s] = req[s]
         /\ \A a, b \in DOMAIN queue' : a < b =>
              /\ queue'[b] # queue[i] /\ queue'[b] \in Reqs
              /\ queue'[a] # queue[i] /\ queue'[a] \in Reqs
              /\ \E c, d \in DOMAIN queue : /\ c < d
                                           /\ queue'[a] = queue[c]
                                           /\ queue'[b] = queue[d]
<1> DEFINE old == req[queue[i]]
<1>1. /\ UNCHANGED frame /\ req' = [req EXCEPT ![queue[i]] = Returned(old)]
      /\ old.state = "CONFIRM" /\ queue' = RemoveAt(queue, i)
  BY DEF ReqConfirm
<1>2. /\ old \in Req /\ queue[i] \in Reqs /\ req \in [Reqs -> Req]
      /\ queue \in Seq(Reqs) /\ i \in 1..Len(queue) /\ Len(queue) \in Nat
  BY DEF CoreInv, NwkDataReqTypeOK
<1>3. Returned(old).state = "IDLE" /\ Returned(old).ackRequest = FALSE
  BY DEF Returned, IdleReq
<1>4. /\ queue' \in Seq(Reqs) /\ Len(queue') = Len(queue) - 1
      /\ \A k \in 1..(Len(queue) - 1) :
           queue'[k] = IF k < i THEN queue[k] ELSE queue[k + 1]
  BY <1>1, <1>2, RemoveAtElements
<1> DEFINE was(k) == IF k < i THEN k ELSE k + 1
<1>5. ASSUME NEW a \in DOMAIN queue', NEW b \in DOMAIN queue', a < b
      PROVE  /\ queue'[b] # queue[i] /\ queue'[b] \in Reqs
             /\ queue'[a] # queue[i] /\ queue'[a] \in Reqs
             /\ \E c, d \in DOMAIN queue : /\ c < d
                                          /\ queue'[a] = queue[c]
                                          /\ queue'[b] = queue[d]
  <2>1. a \in 1..(Len(queue) - 1) /\ b \in 1..(Len(queue) - 1)
    BY <1>4
  <2>2. /\ was(a) \in 1..Len(queue) /\ was(b) \in 1..Len(queue)
        /\ was(a) < was(b) /\ was(a) # i /\ was(b) # i
    BY <1>2, <1>5, <2>1
  <2>3. queue'[a] = queue[was(a)] /\ queue'[b] = queue[was(b)]
    BY <1>4, <2>1
  <2>4. /\ was(a) \in DOMAIN queue /\ was(b) \in DOMAIN queue
        /\ was(a) < was(b) /\ was(a) # i /\ was(b) # i
        /\ queue'[a] = queue[was(a)] /\ queue'[b] = queue[was(b)]
    <3> HIDE DEF was
    <3> QED BY <1>2, <2>2, <2>3
  <2> HIDE DEF was
  <2>5. queue[was(a)] # queue[i] /\ queue[was(b)] # queue[i]
    BY <2>4 DEF CoreInv, QueueHoldsRequests
  <2> QED BY <1>2, <2>4, <2>5
<1> HIDE DEF was, old
<1>6. /\ req'[queue[i]] = Returned(old)
      /\ \A s \in Reqs \ {queue[i]} : req'[s] = req[s]
  BY <1>1, <1>2
<1> QED BY <1>1, <1>2, <1>3, <1>5, <1>6 DEF old

(* The request that nwkDataReqTxConf() finds is the owner of the frame.     *)
LEMMA TxConfirmRequestFacts ==
  ASSUME CoreInv, OwnInv, NEW f \in Frames, TxConfirmRequest(f)
  PROVE  /\ frame[f].state = "CONFIRM" /\ frame'[f] = FreeFrame
         /\ ForRequest(frame[f])
         /\ \A k \in Frames \ {f} : frame'[k] = frame[k]
         /\ queue' = queue
         /\ \E r \in Reqs : /\ OwnedBy(r, f)
                           /\ req'[r].state = "CONFIRM"
                           /\ req'[r].status = frame[f].status
                           /\ req'[r].frame = f
                           /\ req'[r].ackRequest = req[r].ackRequest
                           /\ \A s \in Reqs \ {r} : req'[s] = req[s]
<1>1. /\ frame[f].state = "CONFIRM" /\ frame[f].confirm = "nwkDataReqTxConf"
      /\ frame' = [frame EXCEPT ![f] = FreeFrame] /\ queue' = queue
  BY Zenon DEF TxConfirmRequest
<1>2. PICK n \in DOMAIN queue :
        /\ OwnedBy(queue[n], f)
        /\ \A j \in DOMAIN queue : j < n => req[queue[j]].frame # f
  BY <1>1, Found DEF ConfirmFindsOwner
<1>3. PICK i \in DOMAIN queue :
        /\ req[queue[i]].frame = f
        /\ \A j \in DOMAIN queue : j < i => req[queue[j]].frame # f
        /\ req' = [req EXCEPT ![queue[i]] =
                     [@ EXCEPT !.state = "CONFIRM", !.status = frame[f].status]]
  BY <1>2, Zenon DEF TxConfirmRequest, OwnedBy
<1>4. i = n
  <2>1. i \in Int /\ n \in Int
    BY DEF CoreInv, NwkDataReqTypeOK
  <2> QED BY <1>2, <1>3, <2>1 DEF OwnedBy
<1> DEFINE r == queue[n]
           q == [req[r] EXCEPT !.state = "CONFIRM", !.status = frame[f].status]
<1>5. /\ r \in Reqs /\ req[r] \in Req /\ req \in [Reqs -> Req]
      /\ frame \in [Frames -> Frame]
  BY DEF CoreInv, NwkDataReqTypeOK, NwkFrameTypeOK
<1>6. /\ q.state = "CONFIRM" /\ q.status = frame[f].status
      /\ q.frame = req[r].frame /\ q.ackRequest = req[r].ackRequest
  BY <1>5 DEF Req
<1>7. req'[r] = q /\ \A s \in Reqs \ {r} : req'[s] = req[s]
  BY <1>3, <1>4, <1>5
<1> HIDE DEF q, r
<1>8. frame'[f] = FreeFrame /\ \A k \in Frames \ {f} : frame'[k] = frame[k]
  BY <1>1, <1>5
<1>9. ForRequest(frame[f])
  BY <1>1 DEF OwnInv, FrameKinds, Plain
<1>10. OwnedBy(r, f) /\ req[r].frame = f
  BY <1>2 DEF r, OwnedBy
<1> QED BY <1>1, <1>5, <1>6, <1>7, <1>8, <1>9, <1>10

(* The application hands over a request that no frame belongs to.          *)
LEMMA AppSendsFacts ==
  ASSUME CoreInv, AppSends
  PROVE  /\ UNCHANGED frame
         /\ \E r \in Reqs :
              /\ req[r].state = "IDLE"
              /\ req'[r].state = "INITIAL" /\ req'[r].frame = NULL
              /\ req'[r].ackRequest \in BOOLEAN
              /\ \A s \in Reqs \ {r} : req'[s] = req[s]
              /\ queue' = <<r>> \o queue
<1>1. PICK r \in Reqs, p \in ReqParams : NWK_DataReq(r, p)
  BY DEF AppSends
<1> DEFINE q == [state |-> "INITIAL", frame |-> NULL, status |-> "SUCCESS",
                 dst |-> p.dst, ackRequest |-> p.ackRequest,
                 linkLocal |-> p.linkLocal, broadcastPan |-> p.broadcastPan]
<1>2. /\ req[r].state = "IDLE" /\ req' = [req EXCEPT ![r] = q]
      /\ queue' = <<r>> \o queue /\ UNCHANGED frame
  BY <1>1 DEF NWK_DataReq
<1>3. q.state = "INITIAL" /\ q.frame = NULL /\ q.ackRequest \in BOOLEAN
  BY ReqParamsAssumption
<1> HIDE DEF q
<1>4. req'[r] = q /\ \A s \in Reqs \ {r} : req'[s] = req[s]
  BY <1>2 DEF CoreInv, NwkDataReqTypeOK
<1> QED BY <1>2, <1>3, <1>4

LEMMA ReqOutOfMemoryOwn ==
  ASSUME CoreInv, OwnInv, NEW i \in DOMAIN queue, ReqOutOfMemory(i)
  PROVE  OwnInv'
<1> DEFINE r == queue[i]
<1> USE DEF OwnInv
<1>1. /\ r \in Reqs /\ req[r].state = "INITIAL"
      /\ UNCHANGED <<frame, queue>>
      /\ req'[r].state = "CONFIRM" /\ req'[r].frame = req[r].frame
      /\ \A s \in Reqs \ {r} : req'[s] = req[s]
  BY ReqOutOfMemoryFacts
<1>2. \A a \in DOMAIN queue : queue[a] \in Reqs
  BY DEF CoreInv, NwkDataReqTypeOK
<1> HIDE DEF r
<1>3. \A s \in Reqs : /\ req'[s].frame = req[s].frame
                      /\ req'[s].state = "WAIT_CONF" <=> req[s].state = "WAIT_CONF"
                      /\ req'[s].state \in {"WAIT_CONF", "INITIAL"} => req'[s] = req[s]
  BY <1>1
<1>4. FrameKinds' /\ WaitersHaveFrames'
  BY <1>1, <1>3 DEF FrameKinds, WaitersHaveFrames, SentFor
<1>5. FramesHaveOwners'
  BY <1>1, <1>3 DEF FramesHaveOwners, OwnedBy
<1>6. LaterStandsBefore'
  BY <1>1, <1>2, <1>3 DEF LaterStandsBefore
<1> QED BY <1>4, <1>5, <1>6

LEMMA ReqConfirmOwn ==
  ASSUME CoreInv, OwnInv, NEW i \in DOMAIN queue, ReqConfirm(i)
  PROVE  OwnInv'
<1> DEFINE r == queue[i]
<1> USE DEF OwnInv
<1>1. /\ r \in Reqs /\ req[r].state = "CONFIRM"
      /\ UNCHANGED frame
      /\ req'[r].state = "IDLE"
      /\ \A s \in Reqs \ {r} : req'[s] = req[s]
      /\ \A a, b \in DOMAIN queue' : a < b =>
           /\ queue'[b] # r /\ queue'[b] \in Reqs
           /\ queue'[a] # r /\ queue'[a] \in Reqs
           /\ \E c, d \in DOMAIN queue : /\ c < d
                                        /\ queue'[a] = queue[c]
                                        /\ queue'[b] = queue[d]
  BY ReqConfirmFacts
<1> HIDE DEF r
<1>2. \A s \in Reqs : /\ req'[s].state = "WAIT_CONF" <=> req[s].state = "WAIT_CONF"
                      /\ req'[s].state \in {"WAIT_CONF", "INITIAL"} => req'[s] = req[s]
  BY <1>1
<1>3. FrameKinds' /\ WaitersHaveFrames'
  BY <1>1, <1>2 DEF FrameKinds, WaitersHaveFrames, SentFor
<1>4. FramesHaveOwners'
  <2>1. \A s \in Reqs, f \in Frames : OwnedBy(s, f)' <=> OwnedBy(s, f)
    BY <1>2 DEF OwnedBy
  <2> QED BY <1>1, <2>1 DEF FramesHaveOwners
<1>5. LaterStandsBefore'
  <2>1. ASSUME NEW a \in DOMAIN queue', NEW b \in DOMAIN queue', a < b,
               req'[queue'[a]].frame = req'[queue'[b]].frame
        PROVE  req'[queue'[b]].state # "WAIT_CONF"
    <3>1. PICK c \in DOMAIN queue, d \in DOMAIN queue :
            c < d /\ queue'[a] = queue[c] /\ queue'[b] = queue[d]
      BY <1>1, <2>1
    <3>2. req'[queue[c]] = req[queue[c]] /\ req'[queue[d]] = req[queue[d]]
      BY <1>1, <2>1, <3>1
    <3> QED BY <2>1, <3>1, <3>2 DEF LaterStandsBefore
  <2>2. \A s \in Reqs : req'[s].state = "INITIAL" => req'[s].frame = NULL
    BY <1>2 DEF LaterStandsBefore
  <2> QED BY <2>1, <2>2 DEF LaterStandsBefore
<1> QED BY <1>3, <1>4, <1>5

LEMMA TxConfirmRequestOwn ==
  ASSUME CoreInv, OwnInv, NEW f \in Frames, TxConfirmRequest(f)
  PROVE  OwnInv'
<1> USE DEF OwnInv
<1>1. /\ frame'[f] = FreeFrame
      /\ \A k \in Frames \ {f} : frame'[k] = frame[k]
      /\ queue' = queue
  BY TxConfirmRequestFacts
<1>2. PICK r \in Reqs : /\ OwnedBy(r, f)
                        /\ req'[r].state = "CONFIRM" /\ req'[r].frame = f
                        /\ \A s \in Reqs \ {r} : req'[s] = req[s]
  BY TxConfirmRequestFacts
<1>3. \A a \in DOMAIN queue : queue[a] \in Reqs
  BY DEF CoreInv, NwkDataReqTypeOK
<1>4. FrameKinds'
  BY <1>1, KindsDiffer DEF FrameKinds
<1>5. \A s \in Reqs : /\ req'[s].frame = req[s].frame
                      /\ req'[s].state = "WAIT_CONF" =>
                           s # r /\ req'[s] = req[s] /\ req[s].frame # f
                      /\ req'[s].state = "INITIAL" => req'[s] = req[s]
  BY <1>2 DEF OwnedBy, FramesHaveOwners
<1>6. WaitersHaveFrames'
  BY <1>1, <1>5 DEF WaitersHaveFrames, SentFor
<1>7. FramesHaveOwners'
  <2>1. \A k \in Frames : frame'[k].confirm = "nwkDataReqTxConf" =>
          \E s \in Reqs : OwnedBy(s, k)'
    <3> SUFFICES ASSUME NEW k \in Frames, frame'[k].confirm = "nwkDataReqTxConf"
                 PROVE  \E s \in Reqs : OwnedBy(s, k)'
      OBVIOUS
    <3>1. k # f /\ frame'[k] = frame[k]
      BY <1>1 DEF FreeFrame
    <3>2. PICK s \in Reqs : OwnedBy(s, k)
      BY <3>1 DEF FramesHaveOwners
    <3>3. s # r
      BY <1>2, <3>1, <3>2 DEF OwnedBy
    <3> QED BY <1>2, <3>2, <3>3 DEF OwnedBy
  <2>2. \A s \in Reqs, k \in Frames : OwnedBy(s, k)' => OwnedBy(s, k)
    BY <1>5 DEF OwnedBy
  <2> QED BY <2>1, <2>2 DEF FramesHaveOwners
<1>8. LaterStandsBefore'
  BY <1>1, <1>3, <1>5 DEF LaterStandsBefore
<1> QED BY <1>4, <1>6, <1>7, <1>8

LEMMA AppSendsOwn ==
  ASSUME CoreInv, OwnInv, AppSends
  PROVE  OwnInv'
<1> USE DEF OwnInv
<1>1. UNCHANGED frame
  BY AppSendsFacts
<1>2. PICK r \in Reqs : /\ req[r].state = "IDLE"
                        /\ req'[r].state = "INITIAL" /\ req'[r].frame = NULL
                        /\ \A s \in Reqs \ {r} : req'[s] = req[s]
                        /\ queue' = <<r>> \o queue
  BY AppSendsFacts
<1>3. \A s \in Reqs : /\ req'[s].state = "WAIT_CONF" <=> req[s].state = "WAIT_CONF"
                      /\ req'[s].state = "WAIT_CONF" => req'[s] = req[s]
                      /\ req'[s].state = "INITIAL" => req'[s].frame = NULL
  BY <1>2 DEF LaterStandsBefore
<1>4. FrameKinds' /\ WaitersHaveFrames'
  BY <1>1, <1>3 DEF FrameKinds, WaitersHaveFrames, SentFor
<1>5. FramesHaveOwners'
  <2>1. \A s \in Reqs, f \in Frames : OwnedBy(s, f)' <=> OwnedBy(s, f)
    BY <1>3 DEF OwnedBy
  <2> QED BY <1>1, <2>1 DEF FramesHaveOwners
<1>6. LaterStandsBefore'
  <2>1. /\ queue \in Seq(Reqs) /\ Len(queue') = Len(queue) + 1 /\ queue' \in Seq(Reqs)
        /\ queue'[1] = r /\ \A k \in 1..Len(queue) : queue'[k + 1] = queue[k]
    BY <1>2 DEF CoreInv, NwkDataReqTypeOK
  <2>2. \A k \in 1..Len(queue) : queue[k] \in Reqs \ {r}
    BY <1>2, <2>1 DEF CoreInv, QueueHoldsRequests, Queued
  <2>3. ASSUME NEW a \in DOMAIN queue', NEW b \in DOMAIN queue', a < b,
               req'[queue'[a]].frame = req'[queue'[b]].frame
        PROVE  req'[queue'[b]].state # "WAIT_CONF"
    <3>1. b - 1 \in 1..Len(queue) /\ queue'[b] = queue[b - 1]
      BY <2>1, <2>3
    <3>2. req'[queue'[b]] = req[queue[b - 1]] /\ queue[b - 1] \in Reqs
      BY <1>2, <2>2, <3>1
    <3>3. CASE a = 1
      <4>1. req[queue[b - 1]].frame = NULL
        BY <1>2, <2>1, <2>3, <3>2, <3>3
      <4> QED BY <3>2, <4>1 DEF WaitersHaveFrames, Frames, NULL
    <3>4. CASE a # 1
      <4>1. a - 1 \in 1..Len(queue) /\ queue'[a] = queue[a - 1] /\ a - 1 < b - 1
        BY <2>1, <2>3, <3>4
      <4>2. req'[queue'[a]] = req[queue[a - 1]]
        BY <1>2, <2>2, <4>1
      <4> QED BY <2>1, <2>3, <3>1, <3>2, <4>1, <4>2 DEF LaterStandsBefore
    <3> QED BY <3>3, <3>4
  <2> QED BY <1>3, <2>3 DEF LaterStandsBefore
<1> QED BY <1>4, <1>5, <1>6

(* All that a step can mean to the requests.  Six kinds of steps concern   *)
(* frames alone; the others change one request.                            *)
FrameEffect ==
  \/ \A k \in Frames : Silent(k)
  \/ \E f \in Frames : /\ OneMoves(f, "SENDING", "WAITING", "SUCCESS")
                      /\ frame[f].header.ackRequest
  \/ \E f \in Frames : OneMoves(f, "SENDING", "DONE", "PHY_ERROR")
  \/ \E f \in Frames : /\ OneMoves(f, "SENDING", "DONE", "SUCCESS")
                      /\ ~frame[f].header.ackRequest
  \/ \E f \in Frames : OneMoves(f, "WAITING", "DONE", "SUCCESS") /\ Acked(f)
  \/ \A k \in Frames : Silent(k) \/ Moves(k, "WAITING", "DONE", "NO_ACK")

RequestEffect ==
  \/ \E i \in DOMAIN queue : \/ \E g \in Frames : ReqSend(i, g)
                             \/ ReqOutOfMemory(i) \/ ReqConfirm(i)
  \/ \E f \in Frames : TxConfirmRequest(f)
  \/ AppSends

LEMMA TxEffect ==
  ASSUME CoreInv, FrameKinds, TxStep
  PROVE  (UNCHANGED reqVars /\ FrameEffect) \/ RequestEffect
<1>1. PICK f \in Frames :
        \/ TxDelay(f) /\ UNCHANGED reqVars
        \/ TxNoDelay(f) /\ UNCHANGED reqVars
        \/ TxSend(f) /\ UNCHANGED reqVars
        \/ TxSendBlocked(f) /\ UNCHANGED reqVars
        \/ TxSent(f) /\ UNCHANGED reqVars
        \/ TxConfirmFree(f) /\ UNCHANGED reqVars
        \/ TxConfirmRequest(f)
  BY DEF TxStep
<1>2. CASE (TxDelay(f) \/ TxNoDelay(f) \/ TxSend(f)) /\ UNCHANGED reqVars
  <2>1. PICK s \in Sending : /\ frame[f].state \in Sending
                             /\ frame' = [frame EXCEPT ![f].state = s]
    BY <1>2 DEF TxDelay, TxNoDelay, TxSend, Sending
  <2> QED BY <1>2, <2>1, SendingEffect DEF FrameEffect
<1>3. CASE TxSendBlocked(f) /\ UNCHANGED reqVars
  <2>1. \A k \in Frames : Silent(k)
    BY <1>3, SameIsSilent DEF TxSendBlocked, frameVars
  <2> QED BY <1>3, <2>1 DEF FrameEffect
<1>4. CASE TxSent(f) /\ UNCHANGED reqVars
  BY <1>4, TxSentEffect DEF FrameEffect
<1>5. CASE TxConfirmFree(f) /\ UNCHANGED reqVars
  <2>1. frame[f].confirm = "NULL" /\ frame' = [frame EXCEPT ![f] = FreeFrame]
    BY <1>5 DEF TxConfirmFree
  <2>2. Plain(frame[f])
    BY <2>1 DEF FrameKinds, ForRequest
  <2> QED BY <1>5, <2>1, <2>2, FreeEffect DEF FrameEffect
<1>6. CASE TxConfirmRequest(f)
  BY <1>6 DEF RequestEffect
<1> QED BY <1>1, <1>2, <1>3, <1>4, <1>5, <1>6

LEMMA NextEffect ==
  ASSUME CoreInv, FrameKinds, [Next]_vars
  PROVE  (UNCHANGED reqVars /\ FrameEffect) \/ RequestEffect
<1>1. CASE RadioReceives
  BY <1>1, DataIndEffect DEF RadioReceives, FrameEffect
<1>2. CASE RadioSent
  BY <1>2, DataConfEffect DEF RadioSent, FrameEffect
<1>3. CASE RxStep
  <2>1. PICK w \in Frames \cup {NULL} :
          (\A k \in Frames \ {w} : Silent(k)) /\ (w # NULL => Acked(w))
    BY <1>3, RxEffect DEF AckEffect
  <2>2. CASE w = NULL
    <3>1. \A k \in Frames : Silent(k)
      BY <2>1, <2>2 DEF Frames, NULL
    <3> QED BY <1>3, <3>1 DEF RxStep, FrameEffect
  <2>3. CASE w # NULL
    BY <1>3, <2>1, <2>3, AckedMoves DEF RxStep, FrameEffect, OneMoves
  <2> QED BY <2>2, <2>3
<1>4. CASE ReqStep
  BY <1>4 DEF ReqStep, RequestEffect
<1>5. CASE AckTimerFires
  BY <1>5, AckTimerEffect DEF AckTimerFires, FrameEffect
<1>6. CASE DelayTimerFires
  BY <1>6, DelayTimerEffect DEF DelayTimerFires, FrameEffect
<1>7. CASE \/ RadioIdle \/ RxDone \/ TxDone \/ ReqDone \/ TimersDone \/ AppDone
           \/ AppSleeps \/ AppWakes \/ UNCHANGED vars
  <2>1. frame' = frame /\ UNCHANGED reqVars
    BY <1>7 DEF RadioIdle, RxDone, TxDone, ReqDone, TimersDone, AppDone,
                AppSleeps, AppWakes, vars, frameVars
  <2>2. \A k \in Frames : Silent(k)
    BY <2>1, SameIsSilent
  <2> QED BY <2>1, <2>2 DEF FrameEffect
<1>8. CASE TxStep
  BY <1>8, TxEffect
<1>9. CASE AppSends
  BY <1>9 DEF RequestEffect
<1> QED BY <1>1, <1>2, <1>3, <1>4, <1>5, <1>6, <1>7, <1>8, <1>9 DEF Next, Loop

LEMMA OwnStep == CoreInv /\ OwnInv /\ [Next]_vars => OwnInv'
<1> SUFFICES ASSUME CoreInv, OwnInv, [Next]_vars
             PROVE  OwnInv'
  OBVIOUS
<1>1. (UNCHANGED reqVars /\ FrameEffect) \/ RequestEffect
  BY NextEffect DEF OwnInv
<1>2. CASE UNCHANGED reqVars /\ FrameEffect
  <2>1. \A k \in Frames : KindKept(k)
    BY <1>2, KindsKept DEF FrameEffect, OneMoves
  <2> QED BY <1>2, <2>1, OwnKept
<1>3. CASE RequestEffect
  BY <1>3, ReqSendOwn, ReqOutOfMemoryOwn, ReqConfirmOwn, TxConfirmRequestOwn,
     AppSendsOwn DEF RequestEffect
<1> QED BY <1>1, <1>2, <1>3

LEMMA OwnInit == Init => OwnInv
<1> SUFFICES ASSUME Init PROVE OwnInv
  OBVIOUS
<1>1. \A f \in Frames : frame[f] = FreeFrame
  BY DEF Init, NwkFrameInit
<1>2. (\A r \in Reqs : req[r].state = "IDLE") /\ queue = <<>>
  BY DEF Init, NwkDataReqInit, IdleReq
<1>3. FrameKinds
  BY <1>1, KindsDiffer DEF FrameKinds
<1>4. WaitersHaveFrames /\ LaterStandsBefore
  BY <1>2 DEF WaitersHaveFrames, LaterStandsBefore
<1>5. FramesHaveOwners
  BY <1>1, <1>2 DEF FramesHaveOwners, OwnedBy, FreeFrame
<1> QED BY <1>3, <1>4, <1>5 DEF OwnInv

(* Whose frame is whose, in every reachable state: the invariant under the *)
(* properties of requests.                                                 *)
THEOREM OwnershipInvariant == Spec => [](CoreInv /\ OwnInv)
BY CoreInit, CoreStep, OwnInit, OwnStep, PTL DEF Spec

(* A request that waits for the transmitter owns a frame that will confirm *)
(* it, a frame that will confirm a request has exactly one owner, and no   *)
(* other frame waits for an acknowledgement.                               *)
THEOREM OwnershipIsMutual == Spec => []RequestsOwnFrames
<1>1. CoreInv /\ OwnInv => RequestsOwnFrames
  BY Owned
<1> QED BY <1>1, OwnershipInvariant, PTL

(* nwkDataReqTxConf() finds the request that the frame was sent for, even  *)
(* when confirmed requests still point to the same buffer.                 *)
THEOREM ConfirmsItsOwner == Spec => []ConfirmFindsOwner
<1>1. CoreInv /\ OwnInv => ConfirmFindsOwner
  BY Found
<1> QED BY <1>1, OwnershipInvariant, PTL

-------------------------------------------------------------------------------
(***************************************************************************)
(* What becomes of a waiting frame.                                        *)
(***************************************************************************)
SuccessWitnessed(f) ==
  /\ frame[f].state = "WAIT_ACK" /\ frame'[f].state = "CONFIRM"
  /\ frame'[f].status = "SUCCESS"
  => \E k \in Frames :
       /\ frame[k].state = "INDICATE" /\ frame'[k].state = "FINISH"
       /\ frame[k].header.command = "ACK"
       /\ frame[k].header.acked = frame[f].header.seq

(* A step that no request can tell ends no wait, and one that reports      *)
(* something else than success does not report it.                         *)
LEMMA SilenceIsNoSuccess ==
  ASSUME NEW f \in Frames, Silent(f)
  PROVE  SuccessWitnessed(f)
BY DEF Silent, SuccessWitnessed, Plain, SentStage

LEMMA OtherMovesAreNoSuccess ==
  ASSUME NEW f \in Frames, NEW s, NEW t, NEW u, Moves(f, s, t, u),
         s # "WAITING" \/ u = "NO_ACK"
  PROVE  SuccessWitnessed(f)
BY DEF Moves, SuccessWitnessed, SentStage, SentResult

LEMMA SuccessStep ==
  ASSUME CoreInv, OwnInv, [Next]_vars, NEW f \in Frames
  PROVE  SuccessWitnessed(f)
<1>1. (UNCHANGED reqVars /\ FrameEffect) \/ RequestEffect
  BY NextEffect DEF OwnInv
<1>2. frame'[f] = frame[f] \/ frame[f].state # "WAIT_ACK" \/ frame'[f] = FreeFrame
        => SuccessWitnessed(f)
  BY DEF SuccessWitnessed, FreeFrame
<1>3. CASE \E w \in Frames : OneMoves(w, "WAITING", "DONE", "SUCCESS") /\ Acked(w)
  <2>1. PICK w \in Frames : OneMoves(w, "WAITING", "DONE", "SUCCESS") /\ Acked(w)
    BY <1>3
  <2>2. CASE f = w
    BY <2>1, <2>2 DEF Acked, SuccessWitnessed
  <2>3. CASE f # w
    BY <2>1, <2>3, SilenceIsNoSuccess DEF OneMoves
  <2> QED BY <2>2, <2>3
<1>4. CASE FrameEffect
  <2>1. ASSUME NEW w \in Frames, NEW t, NEW u, OneMoves(w, "SENDING", t, u)
        PROVE  SuccessWitnessed(f)
    <3>1. CASE f = w
      BY <2>1, <3>1, OtherMovesAreNoSuccess DEF OneMoves
    <3>2. CASE f # w
      BY <2>1, <3>2, SilenceIsNoSuccess DEF OneMoves
    <3> QED BY <3>1, <3>2
  <2> QED BY <1>3, <1>4, <2>1, SilenceIsNoSuccess, OtherMovesAreNoSuccess
          DEF FrameEffect
<1>5. CASE RequestEffect
  <2>1. ASSUME NEW i \in DOMAIN queue, NEW g \in Frames, ReqSend(i, g)
        PROVE  SuccessWitnessed(f)
    <3>1. frame[g].state = "FREE" /\ \A k \in Frames \ {g} : frame'[k] = frame[k]
      BY <2>1, ReqSendFacts DEF OwnInv
    <3> QED BY <1>2, <3>1
  <2>2. ASSUME NEW i \in DOMAIN queue, ReqOutOfMemory(i) \/ ReqConfirm(i)
        PROVE  SuccessWitnessed(f)
    BY <1>2, <2>2, ReqOutOfMemoryFacts, ReqConfirmFacts
  <2>3. ASSUME NEW g \in Frames, TxConfirmRequest(g)
        PROVE  SuccessWitnessed(f)
    <3>1. frame'[g] = FreeFrame /\ \A k \in Frames \ {g} : frame'[k] = frame[k]
      BY <2>3, TxConfirmRequestFacts
    <3> QED BY <1>2, <3>1
  <2>4. CASE AppSends
    BY <1>2, <2>4, AppSendsFacts
  <2> QED BY <1>5, <2>1, <2>2, <2>3, <2>4 DEF RequestEffect
<1> QED BY <1>1, <1>4, <1>5

(* A frame is confirmed with success out of its wait only by an            *)
(* acknowledgement of its own number, never by the timer or another's.     *)
THEOREM SuccessIsEarned == Spec => SuccessMeansAcknowledged
<1>1. CoreInv /\ OwnInv /\ [Next]_vars => [\A f \in Frames : SuccessWitnessed(f)]_vars
  BY SuccessStep
<1> QED BY <1>1, OwnershipInvariant, PTL
        DEF Spec, SuccessMeansAcknowledged, SuccessWitnessed

-------------------------------------------------------------------------------
(***************************************************************************)
(* The layer implements NwkService: every step is one of the service, or   *)
(* shows the application nothing.                                          *)
(***************************************************************************)
Untouched(s) ==
  /\ StageOf(s)' = StageOf(s) /\ ResultOf(s)' = ResultOf(s)
  /\ req'[s].ackRequest = req[s].ackRequest

Changes(r, from, to, result) ==
  /\ StageOf(r) = from /\ StageOf(r)' = to /\ ResultOf(r)' = result
  /\ req'[r].ackRequest = req[r].ackRequest
  /\ \A s \in Reqs \ {r} : Untouched(s)

(* A request that waits for the transmitter is where its frame is.         *)
LEMMA SentView ==
  ASSUME NEW r \in Reqs
  PROVE  /\ req[r].state = "WAIT_CONF" =>
              /\ StageOf(r) = SentStage(frame[req[r].frame])
              /\ ResultOf(r) = SentResult(frame[req[r].frame])
         /\ req'[r].state = "WAIT_CONF" =>
              /\ StageOf(r)' = SentStage(frame'[req'[r].frame])
              /\ ResultOf(r)' = SentResult(frame'[req'[r].frame])
<1>1. ASSUME req[r].state = "WAIT_CONF"
      PROVE  StageOf(r) = SentStage(frame[req[r].frame])
  BY <1>1 DEF StageOf, SentStage, SentFor
<1>2. ASSUME req'[r].state = "WAIT_CONF"
      PROVE  StageOf(r)' = SentStage(frame'[req'[r].frame])
  BY <1>2 DEF StageOf, SentStage, SentFor
<1>3. ASSUME req[r].state = "WAIT_CONF"
      PROVE  ResultOf(r) = SentResult(frame[req[r].frame])
  BY <1>1, <1>3 DEF ResultOf, SentResult, SentFor
<1>4. ASSUME req'[r].state = "WAIT_CONF"
      PROVE  ResultOf(r)' = SentResult(frame'[req'[r].frame])
  BY <1>2, <1>4 DEF ResultOf, SentResult, SentFor
<1> QED BY <1>1, <1>2, <1>3, <1>4

(* Any other stands where its own state says.                              *)
LEMMA OwnView ==
  ASSUME NEW r \in Reqs
  PROVE  /\ req[r].state = "IDLE" => StageOf(r) = "IDLE" /\ ResultOf(r) = "SUCCESS"
         /\ req'[r].state = "IDLE" => StageOf(r)' = "IDLE" /\ ResultOf(r)' = "SUCCESS"
         /\ req[r].state = "INITIAL" => StageOf(r) = "QUEUED" /\ ResultOf(r) = "SUCCESS"
         /\ req'[r].state = "INITIAL" => StageOf(r)' = "QUEUED" /\ ResultOf(r)' = "SUCCESS"
         /\ req[r].state = "CONFIRM" => StageOf(r) = "DONE" /\ ResultOf(r) = req[r].status
         /\ req'[r].state = "CONFIRM" => StageOf(r)' = "DONE" /\ ResultOf(r)' = req'[r].status
<1>1. /\ req[r].state = "IDLE" => StageOf(r) = "IDLE"
      /\ req[r].state = "INITIAL" => StageOf(r) = "QUEUED"
      /\ req[r].state = "CONFIRM" => StageOf(r) = "DONE"
  BY DEF StageOf
<1>2. /\ req'[r].state = "IDLE" => StageOf(r)' = "IDLE"
      /\ req'[r].state = "INITIAL" => StageOf(r)' = "QUEUED"
      /\ req'[r].state = "CONFIRM" => StageOf(r)' = "DONE"
  BY DEF StageOf
<1> QED BY <1>1, <1>2 DEF ResultOf

LEMMA SameIsUntouched ==
  ASSUME NEW s \in Reqs, req'[s] = req[s],
         req[s].state = "WAIT_CONF" => frame'[req[s].frame] = frame[req[s].frame]
  PROVE  Untouched(s)
<1>1. CASE req[s].state = "WAIT_CONF"
  BY <1>1, SentView DEF Untouched
<1>2. CASE req[s].state # "WAIT_CONF"
  <2>1. StageOf(s)' = StageOf(s)
    BY <1>2 DEF StageOf
  <2>2. ResultOf(s)' = ResultOf(s)
    BY <1>2, <2>1 DEF ResultOf
  <2> QED BY <2>1, <2>2 DEF Untouched
<1> QED BY <1>1, <1>2

(* Steps in terms of the service.                                          *)
LEMMA NothingChanges ==
  ASSUME \A s \in Reqs : Untouched(s)
  PROVE  UNCHANGED Service!svars
BY DEF Untouched, Service!svars

LEMMA ChangeFinishes ==
  ASSUME NEW r \in Reqs, NEW from, NEW result, Changes(r, from, "DONE", result)
  PROVE  Service!Finish(r, from, result)
BY DEF Changes, Untouched, Service!Finish, Service!Advance

LEMMA ChangeAdvances ==
  ASSUME NEW r \in Reqs, NEW from, NEW to, Changes(r, from, to, ResultOf(r))
  PROVE  /\ Service!Advance(r, from, to)
         /\ UNCHANGED <<[s \in Reqs |-> req[s].ackRequest],
                        [s \in Reqs |-> ResultOf(s)]>>
BY DEF Changes, Untouched, Service!Advance

(* A step on frames shows a request what it does to the request's own.     *)
LEMMA SilentIsUntouched ==
  ASSUME CoreInv, OwnInv, UNCHANGED reqVars, NEW s \in Reqs,
         req[s].state = "WAIT_CONF" => Silent(req[s].frame)
  PROVE  Untouched(s)
<1>1. req' = req
  BY DEF reqVars
<1>2. CASE req[s].state = "WAIT_CONF"
  <2> DEFINE f == req[s].frame
  <2>1. f \in Frames /\ ~Plain(frame[f]) /\ Silent(f)
    BY <1>2 DEF OwnInv, WaitersHaveFrames, SentFor, Plain
  <2>2. /\ SentStage(frame'[f]) = SentStage(frame[f])
        /\ SentResult(frame'[f]) = SentResult(frame[f])
    BY <2>1 DEF Silent
  <2> QED BY <1>1, <1>2, <2>2, SentView DEF Untouched
<1>3. CASE req[s].state # "WAIT_CONF"
  BY <1>1, <1>3, SameIsUntouched
<1> QED BY <1>2, <1>3

LEMMA FrameMovesRequest ==
  ASSUME CoreInv, OwnInv, UNCHANGED reqVars, NEW f \in Frames,
         NEW from \in {"SENDING", "WAITING"}, NEW to, NEW result,
         OneMoves(f, from, to, result)
  PROVE  \E r \in Reqs : /\ Changes(r, from, to, result)
                        /\ ResultOf(r) = "SUCCESS"
                        /\ req[r].ackRequest = frame[f].header.ackRequest
<1>1. req' = req /\ ForRequest(frame[f]) /\ Moves(f, from, to, result)
  BY DEF reqVars, OneMoves, Moves
<1>2. PICK r \in Reqs : OwnedBy(r, f)
  BY <1>1 DEF OwnInv, FramesHaveOwners, ForRequest
<1>3. req[r].state = "WAIT_CONF" /\ req[r].frame = f
  BY <1>2 DEF OwnedBy
<1>4. StageOf(r) = from /\ StageOf(r)' = to /\ ResultOf(r)' = result
  BY <1>1, <1>3, SentView DEF Moves
<1>5. ResultOf(r) = "SUCCESS"
  BY <1>4 DEF ResultOf
<1>6. req[r].ackRequest = frame[f].header.ackRequest
  BY <1>3 DEF OwnInv, WaitersHaveFrames, SentFor
<1>7. ASSUME NEW s \in Reqs \ {r} PROVE Untouched(s)
  <2>1. ASSUME req[s].state = "WAIT_CONF" PROVE Silent(req[s].frame)
    <3>1. req[s].frame \in Frames /\ req[s].frame # f
      BY <1>2, <2>1 DEF OwnInv, WaitersHaveFrames, FramesHaveOwners, OwnedBy
    <3> QED BY <3>1 DEF OneMoves
  <2> QED BY <2>1, SilentIsUntouched
<1>8. Changes(r, from, to, result)
  BY <1>1, <1>4, <1>7 DEF Changes
<1> QED BY <1>5, <1>6, <1>8

LEMMA WaitsEnd ==
  ASSUME CoreInv, OwnInv, UNCHANGED reqVars,
         \A k \in Frames : Silent(k) \/ Moves(k, "WAITING", "DONE", "NO_ACK")
  PROVE  \E S \in SUBSET Reqs : Service!Expire(S)
<1> DEFINE S == {r \in Reqs : StageOf(r) = "WAITING" /\ StageOf(r)' = "DONE"}
<1>1. req' = req
  BY DEF reqVars
<1>2. ASSUME NEW r \in Reqs
      PROVE  \/ r \notin S /\ Untouched(r)
             \/ r \in S /\ ResultOf(r)' = "NO_ACK"
  <2>1. CASE req[r].state = "WAIT_CONF" /\ ~Silent(req[r].frame)
    <3>1. req[r].frame \in Frames
      BY <2>1 DEF OwnInv, WaitersHaveFrames
    <3>2. Moves(req[r].frame, "WAITING", "DONE", "NO_ACK")
      BY <2>1, <3>1
    <3>3. StageOf(r) = "WAITING" /\ StageOf(r)' = "DONE" /\ ResultOf(r)' = "NO_ACK"
      BY <1>1, <2>1, <3>2, SentView DEF Moves
    <3> QED BY <3>3
  <2>2. CASE req[r].state = "WAIT_CONF" => Silent(req[r].frame)
    <3>1. Untouched(r)
      BY <2>2, SilentIsUntouched
    <3>2. r \notin S
      BY <3>1 DEF Untouched
    <3> QED BY <3>1, <3>2
  <2> QED BY <2>1, <2>2
<1>3. \A r \in S : StageOf(r) = "WAITING" /\ StageOf(r)' = "DONE"
  OBVIOUS
<1>4. S \in SUBSET Reqs
  OBVIOUS
<1> HIDE DEF S
<1>5. Service!Expire(S)
  <2>1. \A r \in S : [s \in Reqs |-> StageOf(s)][r] = "WAITING"
    BY <1>3, <1>4
  <2>2. [s \in Reqs |-> StageOf(s)']
          = [s \in Reqs |-> IF s \in S THEN "DONE" ELSE [t \in Reqs |-> StageOf(t)][s]]
    BY <1>2, <1>3 DEF Untouched
  <2>3. [s \in Reqs |-> ResultOf(s)']
          = [s \in Reqs |-> IF s \in S THEN "NO_ACK"
                            ELSE [t \in Reqs |-> ResultOf(t)][s]]
    BY <1>2 DEF Untouched
  <2> QED BY <1>1, <2>1, <2>2, <2>3 DEF Service!Expire
<1> QED BY <1>4, <1>5

LEMMA FrameEffectServes ==
  ASSUME CoreInv, OwnInv, UNCHANGED reqVars, FrameEffect
  PROVE  Service!SNext \/ UNCHANGED Service!svars
<1>1. CASE \A k \in Frames : Silent(k)
  <2>1. \A s \in Reqs : Untouched(s)
    BY <1>1, SilentIsUntouched DEF OwnInv, WaitersHaveFrames
  <2> QED BY <2>1, NothingChanges
<1>2. CASE \E f \in Frames : /\ OneMoves(f, "SENDING", "WAITING", "SUCCESS")
                            /\ frame[f].header.ackRequest
  <2>1. PICK r \in Reqs : /\ Changes(r, "SENDING", "WAITING", "SUCCESS")
                          /\ ResultOf(r) = "SUCCESS" /\ req[r].ackRequest
    BY <1>2, FrameMovesRequest
  <2>2. Service!Wait(r)
    BY <2>1, ChangeAdvances DEF Service!Wait
  <2> QED BY <2>2 DEF Service!SNext
<1>3. CASE \E f \in Frames : OneMoves(f, "SENDING", "DONE", "PHY_ERROR")
  <2>1. PICK r \in Reqs : Changes(r, "SENDING", "DONE", "PHY_ERROR")
    BY <1>3, FrameMovesRequest
  <2>2. Service!SendFails(r)
    BY <2>1, ChangeFinishes DEF Service!SendFails
  <2> QED BY <2>2 DEF Service!SNext
<1>4. CASE \E f \in Frames : /\ OneMoves(f, "SENDING", "DONE", "SUCCESS")
                            /\ ~frame[f].header.ackRequest
  <2>1. PICK r \in Reqs : /\ Changes(r, "SENDING", "DONE", "SUCCESS")
                          /\ ~req[r].ackRequest
    BY <1>4, FrameMovesRequest
  <2>2. Service!SendSucceeds(r)
    BY <2>1, ChangeFinishes DEF Service!SendSucceeds
  <2> QED BY <2>2 DEF Service!SNext
<1>5. CASE \E f \in Frames : OneMoves(f, "WAITING", "DONE", "SUCCESS") /\ Acked(f)
  <2>1. PICK r \in Reqs : Changes(r, "WAITING", "DONE", "SUCCESS")
    BY <1>5, FrameMovesRequest
  <2>2. Service!Acknowledge(r)
    BY <2>1, ChangeFinishes DEF Service!Acknowledge
  <2> QED BY <2>2 DEF Service!SNext
<1>6. CASE \A k \in Frames : Silent(k) \/ Moves(k, "WAITING", "DONE", "NO_ACK")
  BY <1>6, WaitsEnd DEF Service!SNext
<1> QED BY <1>1, <1>2, <1>3, <1>4, <1>5, <1>6 DEF FrameEffect

(* The steps of requests.                                                  *)
LEMMA ReqSendServes ==
  ASSUME CoreInv, OwnInv, NEW i \in DOMAIN queue, NEW g \in Frames, ReqSend(i, g)
  PROVE  \E r \in Reqs : Service!Send(r)
<1> PICK r \in Reqs : r = queue[i]
  BY DEF CoreInv, NwkDataReqTypeOK
<1>1. /\ req[r].state = "INITIAL"
      /\ Plain(frame[g]) /\ frame'[g].state = "DELAY"
      /\ \A k \in Frames \ {g} : frame'[k] = frame[k]
      /\ req'[r].state = "WAIT_CONF" /\ req'[r].frame = g
      /\ req'[r].ackRequest = req[r].ackRequest
      /\ \A s \in Reqs \ {r} : req'[s] = req[s]
  BY ReqSendFacts DEF OwnInv
<1>2. StageOf(r) = "QUEUED" /\ ResultOf(r) = "SUCCESS"
  BY <1>1, OwnView
<1>3. StageOf(r)' = "SENDING" /\ ResultOf(r)' = "SUCCESS"
  BY <1>1, SentView DEF SentStage, SentResult
<1>4. ASSUME NEW s \in Reqs \ {r} PROVE Untouched(s)
  <2>1. req[s].state = "WAIT_CONF" => req[s].frame \in Frames \ {g}
    BY <1>1 DEF OwnInv, WaitersHaveFrames, SentFor, Plain
  <2> QED BY <1>1, <2>1, SameIsUntouched
<1>5. Changes(r, "QUEUED", "SENDING", ResultOf(r))
  BY <1>1, <1>2, <1>3, <1>4 DEF Changes
<1>6. Service!Send(r)
  BY <1>1, <1>5, ChangeAdvances DEF Service!Send
<1> QED BY <1>6

LEMMA ReqOutOfMemoryServes ==
  ASSUME CoreInv, OwnInv, NEW i \in DOMAIN queue, ReqOutOfMemory(i)
  PROVE  \E r \in Reqs : Service!Refuse(r)
<1> PICK r \in Reqs : r = queue[i]
  BY DEF CoreInv, NwkDataReqTypeOK
<1>1. /\ req[r].state = "INITIAL" /\ UNCHANGED frame
      /\ req'[r].state = "CONFIRM" /\ req'[r].status = "OUT_OF_MEMORY"
      /\ req'[r].ackRequest = req[r].ackRequest
      /\ \A s \in Reqs \ {r} : req'[s] = req[s]
  BY ReqOutOfMemoryFacts
<1>2. /\ StageOf(r) = "QUEUED"
      /\ StageOf(r)' = "DONE" /\ ResultOf(r)' = "OUT_OF_MEMORY"
  BY <1>1, OwnView
<1>3. \A s \in Reqs \ {r} : Untouched(s)
  BY <1>1, SameIsUntouched
<1>4. Changes(r, "QUEUED", "DONE", "OUT_OF_MEMORY")
  BY <1>1, <1>2, <1>3 DEF Changes
<1>5. Service!Refuse(r)
  BY <1>1, <1>4, ChangeFinishes DEF Service!Refuse
<1> QED BY <1>5

LEMMA ReqConfirmServes ==
  ASSUME CoreInv, OwnInv, NEW i \in DOMAIN queue, ReqConfirm(i)
  PROVE  \E r \in Reqs : Service!Return(r)
<1> PICK r \in Reqs : r = queue[i]
  BY DEF CoreInv, NwkDataReqTypeOK
<1>1. /\ req[r].state = "CONFIRM" /\ UNCHANGED frame
      /\ req'[r].state = "IDLE" /\ req'[r].ackRequest = FALSE
      /\ \A s \in Reqs \ {r} : req'[s] = req[s]
  BY ReqConfirmFacts
<1>2. /\ StageOf(r) = "DONE"
      /\ StageOf(r)' = "IDLE" /\ ResultOf(r)' = "SUCCESS"
  BY <1>1, OwnView
<1>3. \A s \in Reqs \ {r} : Untouched(s)
  BY <1>1, SameIsUntouched
<1>4. Service!Return(r)
  BY <1>1, <1>2, <1>3 DEF Untouched, Service!Return, Service!Advance
<1> QED BY <1>4

(* The end of a frame passes its outcome on to its request: to the         *)
(* application nothing has happened.                                       *)
LEMMA TxConfirmRequestServes ==
  ASSUME CoreInv, OwnInv, NEW f \in Frames, TxConfirmRequest(f)
  PROVE  UNCHANGED Service!svars
<1>1. /\ frame[f].state = "CONFIRM"
      /\ \A k \in Frames \ {f} : frame'[k] = frame[k]
  BY TxConfirmRequestFacts
<1>2. PICK r \in Reqs : /\ OwnedBy(r, f)
                        /\ req'[r].state = "CONFIRM"
                        /\ req'[r].status = frame[f].status
                        /\ req'[r].ackRequest = req[r].ackRequest
                        /\ \A s \in Reqs \ {r} : req'[s] = req[s]
  BY TxConfirmRequestFacts
<1>3. req[r].state = "WAIT_CONF" /\ req[r].frame = f
  BY <1>2 DEF OwnedBy
<1>4. StageOf(r) = "DONE" /\ ResultOf(r) = frame[f].status
  BY <1>1, <1>3, SentView DEF SentStage, SentResult
<1>5. StageOf(r)' = "DONE" /\ ResultOf(r)' = frame[f].status
  BY <1>2, OwnView
<1>6. ASSUME NEW s \in Reqs \ {r} PROVE Untouched(s)
  <2>1. req[s].state = "WAIT_CONF" => req[s].frame \in Frames \ {f}
    BY <1>2 DEF OwnInv, WaitersHaveFrames, FramesHaveOwners, OwnedBy
  <2> QED BY <1>1, <1>2, <2>1, SameIsUntouched
<1>7. Untouched(r)
  BY <1>2, <1>4, <1>5 DEF Untouched
<1> QED BY <1>6, <1>7, NothingChanges

LEMMA AppSendsServes ==
  ASSUME CoreInv, OwnInv, AppSends
  PROVE  \E r \in Reqs : Service!Submit(r)
<1>1. UNCHANGED frame
  BY AppSendsFacts
<1>2. PICK r \in Reqs : /\ req[r].state = "IDLE" /\ req'[r].state = "INITIAL"
                        /\ req'[r].ackRequest \in BOOLEAN
                        /\ \A s \in Reqs \ {r} : req'[s] = req[s]
  BY AppSendsFacts
<1>3. /\ StageOf(r) = "IDLE" /\ ResultOf(r) = "SUCCESS"
      /\ StageOf(r)' = "QUEUED" /\ ResultOf(r)' = "SUCCESS"
  BY <1>2, OwnView
<1>4. \A s \in Reqs \ {r} : Untouched(s)
  BY <1>1, <1>2, SameIsUntouched
<1> DEFINE ack == req'[r].ackRequest
<1>5. Service!Advance(r, "IDLE", "QUEUED")
  BY <1>3, <1>4 DEF Untouched, Service!Advance
<1>6. [s \in Reqs |-> req'[s].ackRequest]
        = [[s \in Reqs |-> req[s].ackRequest] EXCEPT ![r] = ack]
  BY <1>4 DEF Untouched
<1>7. [s \in Reqs |-> ResultOf(s)'] = [s \in Reqs |-> ResultOf(s)]
  BY <1>3, <1>4 DEF Untouched
<1> HIDE DEF ack
<1>8. ack \in BOOLEAN
  BY <1>2 DEF ack
<1> QED BY <1>5, <1>6, <1>7, <1>8 DEF Service!Submit

LEMMA RefinementInit == Init => Service!SInit
<1> SUFFICES ASSUME Init PROVE Service!SInit
  OBVIOUS
<1>1. \A r \in Reqs : req[r].state = "IDLE" /\ req[r].ackRequest = FALSE
  BY DEF Init, NwkDataReqInit, IdleReq
<1>2. \A r \in Reqs : StageOf(r) = "IDLE" /\ ResultOf(r) = "SUCCESS"
  BY <1>1, OwnView
<1> QED BY <1>1, <1>2 DEF Service!SInit

LEMMA RefinementStep ==
  CoreInv /\ OwnInv /\ [Next]_vars => [Service!SNext]_(Service!svars)
<1> SUFFICES ASSUME CoreInv, OwnInv, [Next]_vars
             PROVE  Service!SNext \/ UNCHANGED Service!svars
  OBVIOUS
<1>1. (UNCHANGED reqVars /\ FrameEffect) \/ RequestEffect
  BY NextEffect DEF OwnInv
<1>2. CASE UNCHANGED reqVars /\ FrameEffect
  BY <1>2, FrameEffectServes
<1>3. CASE RequestEffect
  <2>1. ASSUME NEW i \in DOMAIN queue,
               (\E g \in Frames : ReqSend(i, g)) \/ ReqOutOfMemory(i) \/ ReqConfirm(i)
        PROVE  Service!SNext
    BY <2>1, ReqSendServes, ReqOutOfMemoryServes, ReqConfirmServes
       DEF Service!SNext
  <2>2. AppSends => Service!SNext
    BY AppSendsServes DEF Service!SNext
  <2> QED BY <1>3, <2>1, <2>2, TxConfirmRequestServes DEF RequestEffect
<1> QED BY <1>1, <1>2, <1>3

(* The network layer implements the request service: each request is       *)
(* answered once, with a status that tells what became of its frame.       *)
THEOREM LayerServes == Spec => ImplementsService
BY RefinementInit, RefinementStep, OwnershipInvariant, PTL
   DEF Spec, ImplementsService, Service!SSpec
===============================================================================
