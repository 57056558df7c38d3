--------------------------------- MODULE AtParser ---------------------------------
(***************************************************************************)
(* The AT parser (at.c) over the UART driver, in the main loop: the driver *)
(* sends at most one byte a pass, then hands the received bytes to the     *)
(* parser, which collects them in a buffer until a line ends.  A line that *)
(* begins with a star is a proximity packet for the router, any other is a *)
(* command that is answered at once.                                       *)
(*                                                                         *)
(* The driver reads how many bytes there are once, with newData; while the *)
(* parser reads them, the interrupt may bring more.                        *)
(***************************************************************************)
EXTENDS HalUart

CONSTANTS
  Star,        \* the first byte of a packet
  EndOfLine,   \* '\r' or '\n'
  BufferMax,   \* AT_BUFFER_MAX
  IndexSize,   \* at_index is a uint8_t: 256
  Messages     \* what commands and applications may write in one go

(* AT_BUFFER_MAX is 256, one more than the largest byte: the test of the   *)
(* index against it never succeeds (see ReceiverNeverStuck), and the index *)
(* comes round when the buffer is full (see LineIsWhatCame).               *)
ASSUME IndexAssumption == IndexSize \in Nat \ {0} /\ BufferMax = IndexSize
ASSUME MessagesAssumption == Messages \subseteq Seq(Bytes)
ASSUME CharactersAssumption ==
  /\ {Star, EndOfLine} \subseteq Bytes
  /\ Star # EndOfLine /\ ZERO \notin {Star, EndOfLine}

VARIABLES
  atIndex,    \* at_index
  atBuffer,   \* at_buffer[]
  unread,     \* what is left of the loop in HAL_UartBytesReceived()
  c,          \* the byte it has read last
  line,       \* history: the bytes read since the last line ended
  phase       \* where the pass is

parserVars == <<atIndex, atBuffer, unread, c, line>>
vars == <<uartVars, parserVars, phase>>

Cleared == [i \in 0..(BufferMax - 1) |-> ZERO]

TypeOK ==
  /\ HalUartTypeOK
  /\ atIndex \in 0..(IndexSize - 1)
  /\ atBuffer \in [0..(BufferMax - 1) -> Bytes]
  /\ unread \in 0..RxSize
  /\ c \in Bytes
  /\ line \in Seq(Bytes)
  /\ phase \in {"TX", "RX", "READ", "APP"}

-------------------------------------------------------------------------------
Interrupt ==
  /\ UdreInterrupt \/ RxInterrupt
  /\ UNCHANGED <<parserVars, phase>>

(* HAL_UartTaskHandler(), first half                                       *)
TxTask ==
  /\ phase = "TX"
  /\ Transmit \/ TransmitNothing
  /\ phase' = "RX"
  /\ UNCHANGED <<rxFifo, newData, parserVars>>

(* Second half: news are taken together with the number of bytes.          *)
RxTask ==
  /\ phase = "RX"
  /\ newData' = FALSE
  /\ unread' = IF newData /\ atIndex < BufferMax THEN rxFifo.bytes ELSE 0
  /\ phase' = "READ"
  /\ UNCHANGED <<txVars, rxFifo, atIndex, atBuffer, c, line>>

(* For mutation runs: a wider index.                                       *)
NextIndexWide(i) == i + 1

NextIndex(i) == (i + 1) % IndexSize

(* A line that does not fit is not remembered byte by byte.                *)
TooLong == [k \in 1..(BufferMax + 1) |-> ZERO]

(* A byte of a line: it goes into the buffer, and the loop is left when    *)
(* the buffer is full.                                                     *)
Collect ==
  /\ First(rxFifo) # EndOfLine
  /\ atBuffer' = [atBuffer EXCEPT ![atIndex] = First(rxFifo)]
  /\ atIndex' = NextIndex(atIndex)
  /\ unread' = IF NextIndex(atIndex) >= BufferMax THEN 0 ELSE unread - 1
  /\ line' = IF Len(line) < BufferMax THEN Append(line, First(rxFifo)) ELSE TooLong
  /\ UNCHANGED txVars

(* For mutation runs: the buffer is not cleared.                           *)
EndLineKeepsBuffer ==
  /\ First(rxFifo) = EndOfLine
  /\ \/ atBuffer[0] = Star /\ UNCHANGED txVars
     \/ atBuffer[0] # Star /\ \E m \in Messages : HAL_UartWriteBytes(m)
  /\ atIndex' = 0
  /\ unread' = unread - 1
  /\ line' = <<>>
  /\ UNCHANGED atBuffer

(* The end of a line: AT_handle_le_packet() or handleCommand(), which      *)
(* answers, and a clear buffer for the next line.                          *)
EndLine ==
  /\ First(rxFifo) = EndOfLine
  /\ \/ atBuffer[0] = Star /\ UNCHANGED txVars
     \/ atBuffer[0] # Star /\ \E m \in Messages : HAL_UartWriteBytes(m)
  /\ atBuffer' = Cleared
  /\ atIndex' = 0
  /\ unread' = unread - 1
  /\ line' = <<>>

(* One round of the loop in HAL_UartBytesReceived()                        *)
ReadByte ==
  /\ phase = "READ"
  /\ unread # 0
  /\ c' = First(rxFifo)
  /\ rxFifo' = Get(rxFifo, RxSize)
  /\ Collect \/ EndLine
  /\ UNCHANGED <<newData, phase>>

ReadDone ==
  /\ phase = "READ"
  /\ unread = 0
  /\ phase' = "APP"
  /\ UNCHANGED <<uartVars, parserVars>>

(* The rest of the pass: the application, or an indication in the next     *)
(* NWK_TaskHandler(), may write a message (appSendMessage()).              *)
Application ==
  /\ phase = "APP"
  /\ \/ \E m \in Messages : HAL_UartWriteBytes(m)
     \/ UNCHANGED txVars
  /\ phase' = "TX"
  /\ UNCHANGED <<rxFifo, newData, parserVars>>

Init ==
  /\ HalUartInit
  /\ atIndex = 0
  /\ atBuffer = Cleared
  /\ unread = 0
  /\ c = ZERO
  /\ line = <<>>
  /\ phase = "TX"

Next == Interrupt \/ TxTask \/ RxTask \/ ReadByte \/ ReadDone \/ Application

Spec == Init /\ [][Next]_vars

(* The main loop goes on, and the transmitter empties its data register,   *)
(* upon which an enabled interrupt comes.  Nothing need be received.       *)
FairSpec ==
  /\ Spec
  /\ WF_vars(TxTask) /\ WF_vars(RxTask) /\ WF_vars(ReadByte)
  /\ WF_vars(ReadDone) /\ WF_vars(Application)
  /\ WF_vars(UdreInterrupt /\ UNCHANGED <<parserVars, phase>>)

-------------------------------------------------------------------------------
(* The bytes in a ring buffer, first one first.                            *)
Content(fifo, size) ==
  [k \in 1..fifo.bytes |-> fifo.data[Advance(fifo.head, k - 1, size)]]

TxQueue == INSTANCE ByteQueue WITH
  Size <- TxSize, queue <- Content(txFifo, TxSize), taken <- udr

RxQueue == INSTANCE ByteQueue WITH
  Size <- RxSize, queue <- Content(rxFifo, RxSize), taken <- c

(* Both buffers are queues whatever the interrupts do in between: what the *)
(* data register and the parser get is what was put in, once and in order  *)
(* (halUart.c:140-235).                                                    *)
FifosAreQueues == TxQueue!Spec /\ RxQueue!Spec

(* The main loop looks at received bytes only when newData says so.  What  *)
(* lies in the buffer is being read or has been announced: otherwise a     *)
(* full buffer, which announces nothing more, would stop reception for     *)
(* good.  And the parser reads no more than there is.  (halUart.c:188-196, *)
(* 226-233; at.c:295 and 322 leave without reading.)                       *)
ReceiverNeverStuck ==
  /\ unread <= rxFifo.bytes
  /\ rxFifo.bytes > unread => newData

(* Bytes do not stay in a buffer for ever (halUart.c:173, 188, 206, 232).  *)
EveryByteMoves ==
  /\ \A i \in 0..(TxSize - 1) :
       (txFifo.bytes > 0 /\ txFifo.head = i) ~> (txFifo.head # i)
  /\ \A i \in 0..(RxSize - 1) :
       (rxFifo.bytes > 0 /\ rxFifo.head = i) ~> (rxFifo.head # i)

(* As long as a line fits, the buffer holds the line and zeros behind it,  *)
(* nothing of an earlier one: the parser tells commands apart by what is   *)
(* behind them (at.c:126, 315-321).                                        *)
LineIsWhatCame ==
  Len(line) <= BufferMax =>
    \A i \in 0..(BufferMax - 1) :
      atBuffer[i] = IF i < Len(line) THEN line[i + 1] ELSE ZERO
===============================================================================
