------------------------------- MODULE NwkFrame -------------------------------
(***************************************************************************)
(* The frame buffer pool of the network layer (nwkFrame.c) and the lock    *)
(* counter that tells the application whether the layer is busy (nwk.c).   *)
(*                                                                         *)
(* A frame is a buffer with a state.  The state FREE means "in the pool";  *)
(* every other state belongs to the transmitter (DELAY ... CONFIRM) or to  *)
(* the receiver (RECEIVED ... FINISH).  nwkFrameAlloc() takes the first    *)
(* free buffer and counts it in nwkIb.lock, nwkFrameFree() gives it back.  *)
(***************************************************************************)
EXTENDS Integers, FiniteSets

CONSTANTS
  NBuf,    \* NWK_BUFFERS_AMOUNT
  SeqCount,  \* the network sequence number is a uint8_t: 256
  Me,      \* nwkIb.addr
  Peers,   \* the other short addresses
  Bcast    \* NWK_BROADCAST_ADDR, which is also NWK_ROUTE_UNKNOWN (0xffff)

ASSUME NBufAssumption == NBuf \in Nat \ {0}
ASSUME SeqCountAssumption == SeqCount \in Nat \ {0}
ASSUME AddrAssumption == Me \notin Peers /\ Bcast \notin Peers /\ Me # Bcast

VARIABLES
  frame,      \* nwkFrameFrames[]
  lock,       \* nwkIb.lock
  nwkSeqNum   \* nwkIb.nwkSeqNum

frameVars == <<frame, lock, nwkSeqNum>>

Frames == 1..NBuf
NULL == 0                          \* the null frame pointer
Addr == Peers \cup {Me, Bcast}
Seqs == 0..(SeqCount - 1)

TxStates == {"DELAY", "WAIT_DELAY", "SEND", "WAIT_CONF", "SENT", "WAIT_ACK",
             "CONFIRM"}
RxStates == {"RECEIVED", "INDICATE", "ROUTE", "FINISH"}

(***************************************************************************)
(* What the handlers read of a frame's header.  "secured" and "multicast"  *)
(* are the two header flags the build does not support; "command" is the   *)
(* first payload byte of a frame to the service endpoint, or DATA for a    *)
(* frame to an application endpoint, and "acked" the sequence number that  *)
(* an acknowledgement carries.                                             *)
(***************************************************************************)
Commands == {"DATA", "ACK", "ROUTE_ERROR"}

Header ==
  [src : Addr, dst : Addr, macDst : Addr, seq : Seqs,
   ackRequest : BOOLEAN, linkLocal : BOOLEAN, secured : BOOLEAN,
   multicast : BOOLEAN, broadcastPan : BOOLEAN,
   command : Commands, acked : Seqs]

Statuses == {"SUCCESS", "PHY_ERROR", "NO_ACK", "OUT_OF_MEMORY"}
Confirms == {"NULL", "nwkDataReqTxConf"}

ZeroHeader ==
  [src |-> Me, dst |-> Me, macDst |-> Me, seq |-> 0,
   ackRequest |-> FALSE, linkLocal |-> FALSE, secured |-> FALSE,
   multicast |-> FALSE, broadcastPan |-> FALSE,
   command |-> "DATA", acked |-> 0]

Frame ==
  [state : {"FREE"} \cup TxStates \cup RxStates, header : Header,
   status : Statuses, timeout : Nat, confirm : Confirms]

(* A buffer in the pool.  Its old content is never read again (every       *)
(* allocation clears the buffer), so the model forgets it when it is freed.*)
FreeFrame ==
  [state |-> "FREE", header |-> ZeroHeader,
   status |-> "SUCCESS", timeout |-> 0, confirm |-> "NULL"]

Busy == {f \in Frames : frame[f].state # "FREE"}

(* nwkFrameAlloc() returns f, the first free buffer, or NULL.              *)
nwkFrameAlloc(f) ==
  /\ f \in Frames
  /\ frame[f].state = "FREE"
  /\ \A g \in Frames : g < f => frame[g].state # "FREE"

nwkFrameAllocFails == \A f \in Frames : frame[f].state # "FREE"

(* nwkFrameCommandInit(): the header of a command this node originates.    *)
NextSeq == (nwkSeqNum + 1) % SeqCount

nwkFrameCommandInit(cmd, dst) ==
  [ZeroHeader EXCEPT !.src = Me, !.seq = NextSeq, !.command = cmd, !.dst = dst]

NwkFrameInit ==
  /\ frame = [f \in Frames |-> FreeFrame]
  /\ lock = 0
  /\ nwkSeqNum = 0

NwkFrameTypeOK ==
  /\ frame \in [Frames -> Frame]
  /\ lock \in Int
  /\ nwkSeqNum \in Seqs
===============================================================================
