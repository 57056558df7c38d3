----------------------------- MODULE AtParserProofs -----------------------------
(***************************************************************************)
(* Proofs about the UART driver under the AT parser, for buffers of every  *)
(* size and messages of every length.                                      *)
(***************************************************************************)
EXTENDS AtParser, SequenceTheorems, TLAPS

(* A byte has been read only in the loop that reads: between two calls of  *)
(* HAL_UartBytesReceived() nothing is left to be read.                     *)
ReadsInLoop == phase # "READ" => unread = 0

IInv == TypeOK /\ ReceiverNeverStuck /\ ReadsInLoop

-------------------------------------------------------------------------------
(* An index stays inside its buffer.                                       *)
LEMMA AdvanceInRange ==
  ASSUME NEW size \in Nat \ {0}, NEW i \in Int, NEW n \in Int
  PROVE  Advance(i, n, size) \in 0..(size - 1)
BY DEF Advance

(* It comes round at most once when it goes by no more than the size.      *)
LEMMA AdvanceValue ==
  ASSUME NEW size \in Nat \ {0}, NEW i \in 0..(size - 1), NEW n \in 0..size
  PROVE  Advance(i, n, size) = IF i + n < size THEN i + n ELSE i + n - size
BY DEF Advance

(* Writing keeps a buffer well formed, and adds no more than there is room *)
(* for.                                                                    *)
LEMMA PutType ==
  ASSUME NEW size \in Nat \ {0}, NEW fifo \in Fifo(size), NEW s \in Seq(Bytes)
  PROVE  /\ Put(fifo, s, size) \in Fifo(size)
         /\ Put(fifo, s, size).bytes >= fifo.bytes
<1> DEFINE room == size - fifo.bytes
           n == IF Len(s) < room THEN Len(s) ELSE room
           written(i) == \E k \in 1..n : i = Advance(fifo.tail, k - 1, size)
           new(i) == s[CHOOSE k \in 1..n : i = Advance(fifo.tail, k - 1, size)]
           data == [i \in 0..(size - 1) |->
                      IF written(i) THEN new(i) ELSE fifo.data[i]]
           tail == Advance(fifo.tail, n, size)
<1>1. /\ fifo.head \in 0..(size - 1)
      /\ fifo.tail \in 0..(size - 1)
      /\ fifo.bytes \in 0..size
      /\ fifo.data \in [0..(size - 1) -> Bytes]
  BY DEF Fifo
<1>2. n \in 0..room /\ n <= Len(s)
  BY <1>1
<1>3. tail \in 0..(size - 1)
  <2>1. n \in Int /\ fifo.tail \in Int
    BY <1>1, <1>2
  <2> HIDE DEF n
  <2> QED
    BY <2>1, AdvanceInRange
<1>4. data \in [0..(size - 1) -> Bytes]
  <2>1. ASSUME NEW i \in 0..(size - 1), written(i)
        PROVE  new(i) \in Bytes
    <3>1. PICK k \in 1..n : i = Advance(fifo.tail, k - 1, size)
      BY <2>1
    <3> DEFINE m == CHOOSE j \in 1..n : i = Advance(fifo.tail, j - 1, size)
    <3>2. m \in 1..n
      BY <3>1
    <3> HIDE DEF m
    <3>3. s[m] \in Bytes
      BY <1>2, <3>2
    <3> QED
      BY <3>3 DEF m
  <2> HIDE DEF written, new
  <2> QED
    BY <1>1, <2>1
<1>5. fifo.bytes + n \in 0..size /\ fifo.bytes + n >= fifo.bytes
  BY <1>1, <1>2
<1>6. Put(fifo, s, size) =
        [fifo EXCEPT !.tail = tail, !.bytes = fifo.bytes + n, !.data = data]
  BY DEF Put
<1> HIDE DEF room, n, written, new, data, tail
<1>7. /\ Put(fifo, s, size).bytes = fifo.bytes + n
      /\ Put(fifo, s, size) =
           [head |-> fifo.head, tail |-> tail, bytes |-> fifo.bytes + n, data |-> data]
  BY <1>6 DEF Fifo
<1> QED
  BY <1>1, <1>3, <1>4, <1>5, <1>7 DEF Fifo

(* Reading keeps a buffer that is not empty well formed.                   *)
LEMMA GetType ==
  ASSUME NEW size \in Nat \ {0}, NEW fifo \in Fifo(size), fifo.bytes # 0
  PROVE  /\ Get(fifo, size) \in Fifo(size)
         /\ Get(fifo, size).bytes = fifo.bytes - 1
         /\ First(fifo) \in Bytes
<1>1. /\ fifo.head \in 0..(size - 1)
      /\ fifo.tail \in 0..(size - 1)
      /\ fifo.bytes \in 0..size
      /\ fifo.data \in [0..(size - 1) -> Bytes]
  BY DEF Fifo
<1> DEFINE head == Advance(fifo.head, 1, size)
<1>2. head \in 0..(size - 1)
  <2>1. fifo.head \in Int
    BY <1>1
  <2> QED
    BY <2>1, AdvanceInRange
<1>3. Get(fifo, size) = [fifo EXCEPT !.head = head, !.bytes = fifo.bytes - 1]
  BY DEF Get
<1> HIDE DEF head
<1>4. /\ Get(fifo, size).bytes = fifo.bytes - 1
      /\ Get(fifo, size) = [head |-> head, tail |-> fifo.tail,
                            bytes |-> fifo.bytes - 1, data |-> fifo.data]
  BY <1>3 DEF Fifo
<1>5. fifo.bytes - 1 \in 0..size
  BY <1>1
<1> QED
  BY <1>1, <1>2, <1>4, <1>5 DEF First, Fifo

(* The transmit side, whose variables the main loop alone writes, keeps    *)
(* its types when bytes are written.                                       *)
LEMMA WriteType ==
  ASSUME HalUartTypeOK, NEW m \in Messages, HAL_UartWriteBytes(m)
  PROVE  /\ txFifo' \in Fifo(TxSize)
         /\ udrEmpty' \in BOOLEAN /\ udrie' \in BOOLEAN /\ udr' \in Bytes
<1>1. m \in Seq(Bytes)
  BY MessagesAssumption
<1> QED
  BY <1>1, SizeAssumption, PutType DEF HalUartTypeOK, HAL_UartWriteBytes

(* The interrupts keep the invariant: a byte that comes is announced.      *)
LEMMA InterruptStep == IInv /\ Interrupt => IInv'
<1> SUFFICES ASSUME IInv, Interrupt
             PROVE  IInv'
  OBVIOUS
<1> USE DEF IInv
<1>1. CASE UdreInterrupt
  BY <1>1
  DEF Interrupt, UdreInterrupt, parserVars, TypeOK, HalUartTypeOK,
      ReceiverNeverStuck, ReadsInLoop
<1>2. CASE RxInterrupt
  <2>1. PICK b \in Bytes : rxFifo' = Put(rxFifo, <<b>>, RxSize)
    BY <1>2 DEF RxInterrupt
  <2>2. <<b>> \in Seq(Bytes)
    OBVIOUS
  <2>3. rxFifo' \in Fifo(RxSize) /\ rxFifo'.bytes >= rxFifo.bytes
    BY <2>1, <2>2, SizeAssumption, PutType DEF TypeOK, HalUartTypeOK
  <2>4. rxFifo.bytes \in Nat /\ rxFifo'.bytes \in Nat /\ unread \in Nat
    BY <2>3, SizeAssumption DEF TypeOK, HalUartTypeOK, Fifo
  <2>5. TypeOK'
    BY <1>2, <2>3
    DEF Interrupt, RxInterrupt, txVars, parserVars, TypeOK, HalUartTypeOK
  <2>6. ReceiverNeverStuck' /\ ReadsInLoop'
    BY <1>2, <2>3, <2>4
    DEF Interrupt, RxInterrupt, parserVars, ReceiverNeverStuck, ReadsInLoop
  <2> QED
    BY <2>5, <2>6
<1> QED
  BY <1>1, <1>2 DEF Interrupt

(* Handing a byte to the data register keeps it.                           *)
LEMMA TxTaskStep == IInv /\ TxTask => IInv'
<1> SUFFICES ASSUME IInv, TxTask
             PROVE  IInv'
  OBVIOUS
<1>1. /\ txFifo' \in Fifo(TxSize)
      /\ udrEmpty' \in BOOLEAN /\ udrie' \in BOOLEAN /\ udr' \in Bytes
  <2>1. CASE Transmit
    BY <2>1, SizeAssumption, GetType DEF Transmit, IInv, TypeOK, HalUartTypeOK
  <2>2. CASE TransmitNothing
    BY <2>2 DEF TransmitNothing, txVars, IInv, TypeOK, HalUartTypeOK
  <2> QED
    BY <2>1, <2>2 DEF TxTask
<1> QED
  BY <1>1
  DEF TxTask, parserVars, IInv, TypeOK, HalUartTypeOK, ReceiverNeverStuck,
      ReadsInLoop

(* Taking the news: when there are none, the buffer is empty.              *)
LEMMA RxTaskStep == IInv /\ RxTask => IInv'
<1> SUFFICES ASSUME IInv, RxTask
             PROVE  IInv'
  OBVIOUS
<1>1. rxFifo.bytes \in 0..RxSize
  BY DEF IInv, TypeOK, HalUartTypeOK, Fifo
<1>2. atIndex < BufferMax
  BY IndexAssumption DEF IInv, TypeOK
<1>3. unread' = IF newData THEN rxFifo.bytes ELSE 0
  BY <1>2 DEF RxTask
<1>4. ~newData => rxFifo.bytes = 0
  BY <1>1, SizeAssumption DEF RxTask, IInv, TypeOK, ReceiverNeverStuck, ReadsInLoop
<1>5. TypeOK'
  <2>1. unread' \in 0..RxSize
    BY <1>1, <1>3, SizeAssumption
  <2> QED
    BY <2>1 DEF RxTask, txVars, IInv, TypeOK, HalUartTypeOK
<1>6. ReceiverNeverStuck' /\ ReadsInLoop'
  BY <1>1, <1>3, <1>4, SizeAssumption DEF RxTask, ReceiverNeverStuck, ReadsInLoop
<1> QED
  BY <1>5, <1>6 DEF IInv

(* A round of the reading loop takes exactly one byte that is there.       *)
LEMMA ReadByteStep == IInv /\ ReadByte => IInv'
<1> SUFFICES ASSUME IInv, ReadByte
             PROVE  IInv'
  OBVIOUS
<1> DEFINE b == First(rxFifo)
<1>1. /\ unread \in 1..RxSize
      /\ rxFifo \in Fifo(RxSize)
      /\ rxFifo.bytes \in Nat
      /\ unread <= rxFifo.bytes
  BY SizeAssumption
  DEF ReadByte, IInv, TypeOK, HalUartTypeOK, ReceiverNeverStuck, Fifo
<1>2. /\ rxFifo' \in Fifo(RxSize)
      /\ rxFifo'.bytes = rxFifo.bytes - 1
      /\ b \in Bytes
  BY <1>1, SizeAssumption, GetType DEF ReadByte
<1> HIDE DEF b
<1>3. /\ unread' = unread - 1
      /\ txFifo' \in Fifo(TxSize)
      /\ udrEmpty' \in BOOLEAN /\ udrie' \in BOOLEAN /\ udr' \in Bytes
      /\ atIndex' \in 0..(IndexSize - 1)
      /\ atBuffer' \in [0..(BufferMax - 1) -> Bytes]
      /\ line' \in Seq(Bytes)
  <2>1. CASE Collect
    <3>1. NextIndex(atIndex) \in 0..(IndexSize - 1)
      BY IndexAssumption DEF NextIndex, IInv, TypeOK
    <3>2. unread' = unread - 1
      BY <2>1, <3>1, IndexAssumption DEF Collect
    <3>3. TooLong \in Seq(Bytes)
      BY BytesAssumption, IndexAssumption DEF TooLong
    <3>4. line' \in Seq(Bytes)
      BY <1>2, <2>1, <3>3 DEF Collect, IInv, TypeOK, b
    <3>5. atBuffer' \in [0..(BufferMax - 1) -> Bytes]
      BY <1>2, <2>1 DEF Collect, IInv, TypeOK, b
    <3> QED
      BY <2>1, <3>1, <3>2, <3>4, <3>5
      DEF Collect, txVars, IInv, TypeOK, HalUartTypeOK
  <2>2. CASE EndLine
    <3>1. Cleared \in [0..(BufferMax - 1) -> Bytes]
      BY BytesAssumption DEF Cleared
    <3>2. /\ txFifo' \in Fifo(TxSize)
          /\ udrEmpty' \in BOOLEAN /\ udrie' \in BOOLEAN /\ udr' \in Bytes
      <4>1. CASE \E m \in Messages : HAL_UartWriteBytes(m)
        BY <4>1, WriteType DEF IInv, TypeOK
      <4>2. CASE UNCHANGED txVars
        BY <4>2 DEF txVars, IInv, TypeOK, HalUartTypeOK
      <4> QED
        BY <2>2, <4>1, <4>2 DEF EndLine
    <3> QED
      BY <2>2, <3>1, <3>2, IndexAssumption DEF EndLine
  <2> QED
    BY <2>1, <2>2 DEF ReadByte
<1>4. TypeOK'
  BY <1>1, <1>2, <1>3, SizeAssumption DEF ReadByte, b, IInv, TypeOK, HalUartTypeOK
<1>5. ReceiverNeverStuck' /\ ReadsInLoop'
  BY <1>1, <1>2, <1>3 DEF ReadByte, IInv, ReceiverNeverStuck, ReadsInLoop
<1> QED
  BY <1>4, <1>5 DEF IInv

(* Writing messages concerns the transmit buffer only.                     *)
LEMMA ApplicationStep == IInv /\ Application => IInv'
<1> SUFFICES ASSUME IInv, Application
             PROVE  IInv'
  OBVIOUS
<1>1. /\ txFifo' \in Fifo(TxSize)
      /\ udrEmpty' \in BOOLEAN /\ udrie' \in BOOLEAN /\ udr' \in Bytes
  <2>1. CASE \E m \in Messages : HAL_UartWriteBytes(m)
    BY <2>1, WriteType DEF IInv, TypeOK
  <2>2. CASE UNCHANGED txVars
    BY <2>2 DEF txVars, IInv, TypeOK, HalUartTypeOK
  <2> QED
    BY <2>1, <2>2 DEF Application
<1> QED
  BY <1>1
  DEF Application, parserVars, IInv, TypeOK, HalUartTypeOK, ReceiverNeverStuck,
      ReadsInLoop

(* Every step of the loop and of the interrupts keeps the invariant.       *)
LEMMA ParserStep == IInv /\ [Next]_vars => IInv'
<1> SUFFICES ASSUME IInv, [Next]_vars
             PROVE  IInv'
  OBVIOUS
<1>1. CASE ReadDone
  BY <1>1
  DEF ReadDone, uartVars, txVars, parserVars, IInv, TypeOK, HalUartTypeOK,
      ReceiverNeverStuck, ReadsInLoop
<1>2. CASE UNCHANGED vars
  BY <1>2
  DEF vars, uartVars, txVars, parserVars, IInv, TypeOK, HalUartTypeOK,
      ReceiverNeverStuck, ReadsInLoop
<1> QED
  BY <1>1, <1>2, InterruptStep, TxTaskStep, RxTaskStep, ReadByteStep, ApplicationStep
  DEF Next

(* The invariant holds after HAL_UartInit() and AT_init().                 *)
LEMMA ParserInit == Init => IInv
<1> SUFFICES ASSUME Init
             PROVE  IInv
  OBVIOUS
<1>1. /\ EmptyFifo(TxSize) \in Fifo(TxSize)
      /\ EmptyFifo(RxSize) \in Fifo(RxSize)
      /\ EmptyFifo(RxSize).bytes = 0
  BY SizeAssumption, BytesAssumption DEF EmptyFifo, Fifo
<1>2. Cleared \in [0..(BufferMax - 1) -> Bytes]
  BY BytesAssumption DEF Cleared
<1> QED
  BY <1>1, <1>2, SizeAssumption, BytesAssumption, IndexAssumption
  DEF Init, HalUartInit, IInv, TypeOK, HalUartTypeOK, ReceiverNeverStuck, ReadsInLoop

(* Indexes and counts of the buffers stay in range (halUart.c, at.c).      *)
THEOREM TypeCorrect == Spec => []TypeOK
<1>1. IInv => TypeOK
  BY DEF IInv
<1> QED
  BY <1>1, ParserInit, ParserStep, PTL DEF Spec

(* Reception never stops: what is in the receive buffer is being read or   *)
(* announced (halUart.c:188-196, 226-233; at.c:291-326).                   *)
THEOREM ReceptionGoesOn == Spec => []ReceiverNeverStuck
<1>1. IInv => ReceiverNeverStuck
  BY DEF IInv
<1> QED
  BY <1>1, ParserInit, ParserStep, PTL DEF Spec

-------------------------------------------------------------------------------
(***************************************************************************)
(* The line in the buffer.  While a line fits, the index stands behind it; *)
(* it comes round to 0 when the line fills the buffer.                     *)
(***************************************************************************)
LineInv ==
  /\ LineIsWhatCame
  /\ Len(line) <= BufferMax =>
       atIndex = IF Len(line) = BufferMax THEN 0 ELSE Len(line)

(* A byte of a line goes to its place behind the others, ...               *)
LEMMA CollectLine ==
  ASSUME IInv, LineInv, ReadByte, Collect
  PROVE  LineInv'
<1> DEFINE b == First(rxFifo)
<1>1. /\ line \in Seq(Bytes) /\ Len(line) \in Nat
      /\ BufferMax \in Nat \ {0} /\ IndexSize = BufferMax
      /\ atBuffer \in [0..(BufferMax - 1) -> Bytes]
      /\ atIndex \in 0..(BufferMax - 1)
  BY IndexAssumption DEF IInv, TypeOK
<1>2. /\ atBuffer' = [atBuffer EXCEPT ![atIndex] = b]
      /\ atIndex' = (atIndex + 1) % IndexSize
      /\ line' = IF Len(line) < BufferMax THEN Append(line, b) ELSE TooLong
  BY DEF Collect, NextIndex
<1>3. b \in Bytes
  BY SizeAssumption, GetType
     DEF ReadByte, IInv, TypeOK, HalUartTypeOK, ReceiverNeverStuck, Fifo
<1> HIDE DEF b
<1>4. CASE Len(line) < BufferMax
  <2>1. /\ Len(line') = Len(line) + 1
        /\ line'[Len(line) + 1] = b
        /\ \A i \in 1..Len(line) : line'[i] = line[i]
    <3>1. line' = Append(line, b)
      BY <1>2, <1>4
    <3> QED BY <1>1, <1>3, <3>1, AppendProperties
  <2>2. atIndex = Len(line)
    BY <1>1, <1>4 DEF LineInv
  <2>3. atIndex' = IF Len(line') = BufferMax THEN 0 ELSE Len(line')
    <3>1. atIndex' = Advance(atIndex, 1, IndexSize)
      BY <1>2 DEF Advance
    <3>2. 1 \in 0..IndexSize /\ IndexSize \in Nat \ {0}
      BY <1>1
    <3>3. atIndex' = IF atIndex + 1 < IndexSize THEN atIndex + 1
                     ELSE atIndex + 1 - IndexSize
      BY <1>1, <3>1, <3>2, AdvanceValue
    <3> QED BY <1>1, <1>4, <2>1, <2>2, <3>3
  <2>4. \A i \in 0..(BufferMax - 1) :
          atBuffer[i] = IF i < Len(line) THEN line[i + 1] ELSE ZERO
    BY <1>1, <1>4 DEF LineInv, LineIsWhatCame
  <2>5. ASSUME NEW i \in 0..(BufferMax - 1)
        PROVE  atBuffer'[i] = IF i < Len(line') THEN line'[i + 1] ELSE ZERO
    <3>1. CASE i = Len(line)
      BY <1>1, <1>2, <2>1, <2>2, <3>1
    <3>2. CASE i # Len(line)
      <4>1. atBuffer'[i] = atBuffer[i]
        BY <1>1, <1>2, <2>2, <3>2
      <4>2. i < Len(line') <=> i < Len(line)
        BY <1>1, <2>1, <3>2
      <4>3. i < Len(line) => line'[i + 1] = line[i + 1]
        BY <1>1, <2>1
      <4> QED BY <2>4, <4>1, <4>2, <4>3
    <3> QED BY <3>1, <3>2
  <2> QED BY <2>3, <2>5 DEF LineInv, LineIsWhatCame
<1>5. CASE ~(Len(line) < BufferMax)
  <2>1. Len(line') = BufferMax + 1
    BY <1>1, <1>2, <1>5 DEF TooLong
  <2> QED BY <1>1, <2>1 DEF LineInv, LineIsWhatCame
<1> QED BY <1>4, <1>5

(* ... and the end of a line leaves a clear buffer.                        *)
LEMMA LineStep == IInv /\ LineInv /\ [Next]_vars => LineInv'
<1> SUFFICES ASSUME IInv, LineInv, [Next]_vars
             PROVE  LineInv'
  OBVIOUS
<1>1. CASE ReadByte /\ EndLine
  <2>1. atBuffer' = Cleared /\ atIndex' = 0 /\ line' = <<>>
    BY <1>1 DEF EndLine
  <2>2. Len(line') = 0 /\ BufferMax \in Nat \ {0}
    BY <2>1, IndexAssumption
  <2> QED BY <2>1, <2>2 DEF LineInv, LineIsWhatCame, Cleared
<1>2. CASE UNCHANGED <<atBuffer, atIndex, line>>
  BY <1>2 DEF LineInv, LineIsWhatCame
<1>3. CASE ReadByte /\ Collect
  BY <1>3, CollectLine
<1> QED BY <1>1, <1>2, <1>3
        DEF Next, Interrupt, TxTask, RxTask, ReadByte, ReadDone, Application,
            parserVars, vars

LEMMA LineInit == Init => LineInv
BY IndexAssumption DEF Init, LineInv, LineIsWhatCame, Cleared

(* What a command is told by is the line that came, and zeros behind it:   *)
(* nothing of an earlier line (at.c:126, 315-321).                         *)
THEOREM LinesAreTold == Spec => []LineIsWhatCame
<1>1. LineInv => LineIsWhatCame
  BY DEF LineInv
<1> QED BY <1>1, ParserInit, ParserStep, LineInit, LineStep, PTL DEF Spec

-------------------------------------------------------------------------------
(***************************************************************************)
(* A ring buffer is a queue.  Its tail is where the bytes end that begin   *)
(* at its head.                                                            *)
(***************************************************************************)
Ring(fifo, size) == fifo.tail = Advance(fifo.head, fifo.bytes, size)

(* Going n and then m further is going n + m further, as long as nothing   *)
(* comes round more than once; and different distances lead to different   *)
(* places.                                                                 *)
LEMMA AdvanceTwice ==
  ASSUME NEW size \in Nat \ {0}, NEW i \in 0..(size - 1),
         NEW n \in 0..size, NEW m \in 0..size, n + m <= size
  PROVE  Advance(Advance(i, n, size), m, size) = Advance(i, n + m, size)
<1>1. Advance(i, n, size) = IF i + n < size THEN i + n ELSE i + n - size
  BY AdvanceValue
<1>2. Advance(i, n + m, size) = IF i + (n + m) < size THEN i + (n + m)
                                ELSE i + (n + m) - size
  <2>1. n + m \in 0..size
    OBVIOUS
  <2> QED BY <2>1, AdvanceValue
<1> DEFINE j == Advance(i, n, size)
<1>3. j \in 0..(size - 1)
  BY <1>1
<1>4. Advance(j, m, size) = IF j + m < size THEN j + m ELSE j + m - size
  BY <1>3, AdvanceValue
<1> QED BY <1>1, <1>2, <1>4

LEMMA AdvanceDiffers ==
  ASSUME NEW size \in Nat \ {0}, NEW i \in 0..(size - 1),
         NEW n \in 0..(size - 1), NEW m \in 0..(size - 1),
         Advance(i, n, size) = Advance(i, m, size)
  PROVE  n = m
<1>1. /\ Advance(i, n, size) = IF i + n < size THEN i + n ELSE i + n - size
      /\ Advance(i, m, size) = IF i + m < size THEN i + m ELSE i + m - size
  <2>1. n \in 0..size /\ m \in 0..size
    OBVIOUS
  <2> QED BY <2>1, AdvanceValue
<1>2. (IF i + n < size THEN i + n ELSE i + n - size)
        = (IF i + m < size THEN i + m ELSE i + m - size)
  BY <1>1
<1> QED BY <1>2

(* The bytes of a buffer are as many as it counts.                         *)
LEMMA ContentType ==
  ASSUME NEW size \in Nat \ {0}, NEW fifo \in Fifo(size)
  PROVE  /\ Content(fifo, size) \in Seq(Bytes)
         /\ Len(Content(fifo, size)) = fifo.bytes
         /\ \A k \in 1..fifo.bytes :
              Content(fifo, size)[k] = fifo.data[Advance(fifo.head, k - 1, size)]
<1>1. /\ fifo.head \in 0..(size - 1) /\ fifo.bytes \in 0..size
      /\ fifo.data \in [0..(size - 1) -> Bytes]
  BY DEF Fifo
<1>2. \A k \in 1..fifo.bytes : fifo.data[Advance(fifo.head, k - 1, size)] \in Bytes
  <2> SUFFICES ASSUME NEW k \in 1..fifo.bytes
               PROVE  fifo.data[Advance(fifo.head, k - 1, size)] \in Bytes
    OBVIOUS
  <2>1. Advance(fifo.head, k - 1, size) \in 0..(size - 1)
    <3>1. fifo.head \in Int /\ k - 1 \in Int
      BY <1>1
    <3> QED BY <3>1, AdvanceInRange
  <2> QED BY <1>1, <2>1
<1> DEFINE at(k) == fifo.data[Advance(fifo.head, k - 1, size)]
<1>3. Content(fifo, size) = [k \in 1..fifo.bytes |-> at(k)]
  BY DEF Content
<1> HIDE DEF at
<1>4. fifo.bytes \in Nat /\ \A k \in 1..fifo.bytes : at(k) \in Bytes
  BY <1>1, <1>2 DEF at
<1> QED BY <1>3, <1>4 DEF at

(* Reading takes the first byte.                                           *)
LEMMA GetContent ==
  ASSUME NEW size \in Nat \ {0}, NEW fifo \in Fifo(size), fifo.bytes # 0,
         Ring(fifo, size)
  PROVE  /\ Content(fifo, size) # <<>>
         /\ First(fifo) = Head(Content(fifo, size))
         /\ Content(Get(fifo, size), size) = Tail(Content(fifo, size))
         /\ Ring(Get(fifo, size), size)
<1> DEFINE new == Get(fifo, size)
           old == Content(fifo, size)
<1>1. /\ fifo.head \in 0..(size - 1) /\ fifo.bytes \in 1..size
      /\ fifo.tail = Advance(fifo.head, fifo.bytes, size)
  BY DEF Fifo, Ring
<1>2. /\ new \in Fifo(size)
      /\ new.head = Advance(fifo.head, 1, size) /\ new.bytes = fifo.bytes - 1
      /\ new.tail = fifo.tail /\ new.data = fifo.data
  <2>1. new \in Fifo(size) /\ new.bytes = fifo.bytes - 1
    BY GetType
  <2>2. new = [fifo EXCEPT !.head = Advance(@, 1, size), !.bytes = @ - 1]
    BY DEF Get
  <2> HIDE DEF new
  <2> QED BY <2>1, <2>2 DEF Fifo
<1> HIDE DEF new
<1>3. /\ old \in Seq(Bytes) /\ Len(old) = fifo.bytes
      /\ \A k \in 1..fifo.bytes :
           old[k] = fifo.data[Advance(fifo.head, k - 1, size)]
  BY ContentType
<1> HIDE DEF old
<1>4. old # <<>> /\ Head(old) = old[1]
  BY <1>1, <1>3
<1>5. First(fifo) = old[1]
  <2>1. Advance(fifo.head, 0, size) = fifo.head
    BY <1>1, AdvanceValue
  <2>2. old[1] = fifo.data[Advance(fifo.head, 1 - 1, size)]
    BY <1>1, <1>3
  <2> QED BY <2>1, <2>2 DEF First
<1>6. \A k \in 0..(fifo.bytes - 1) :
        Advance(new.head, k, size) = Advance(fifo.head, 1 + k, size)
  BY <1>1, <1>2, AdvanceTwice
<1>7. Content(new, size) = Tail(old)
  <2> DEFINE c1 == Content(new, size)
             c2 == Tail(old)
  <2>1. /\ c1 \in Seq(Bytes) /\ Len(c1) = fifo.bytes - 1
        /\ \A k \in 1..(fifo.bytes - 1) :
             c1[k] = fifo.data[Advance(new.head, k - 1, size)]
    BY <1>2, ContentType
  <2>2. /\ c2 \in Seq(Bytes) /\ Len(c2) = fifo.bytes - 1
        /\ \A k \in 1..(fifo.bytes - 1) : c2[k] = old[k + 1]
    BY <1>1, <1>3, <1>4
  <2> HIDE DEF c1, c2
  <2>3. ASSUME NEW k \in 1..(fifo.bytes - 1) PROVE c1[k] = c2[k]
    <3>1. k - 1 \in 0..(fifo.bytes - 1) /\ k + 1 \in 1..fifo.bytes
      BY <1>1
    <3>2. Advance(new.head, k - 1, size) = Advance(fifo.head, (k + 1) - 1, size)
      <4>1. 1 + (k - 1) = (k + 1) - 1
        OBVIOUS
      <4> QED BY <1>6, <3>1, <4>1
    <3> QED BY <1>3, <2>1, <2>2, <3>1, <3>2
  <2>4. c1 = c2
    BY <2>1, <2>2, <2>3, SeqEqual
  <2> QED BY <2>4 DEF c1, c2
<1>8. Ring(new, size)
  <2>1. fifo.bytes - 1 \in 0..(fifo.bytes - 1) /\ 1 + (fifo.bytes - 1) = fifo.bytes
    BY <1>1
  <2> QED BY <1>1, <1>2, <1>6, <2>1 DEF Ring
<1> QED BY <1>4, <1>5, <1>7, <1>8 DEF new, old

(* Writing adds bytes at the end, as many as there are and fit.            *)
LEMMA PutContent ==
  ASSUME NEW size \in Nat \ {0}, NEW fifo \in Fifo(size), Ring(fifo, size),
         NEW s \in Seq(Bytes)
  PROVE  /\ Ring(Put(fifo, s, size), size)
         /\ \E n \in 0..(size - fifo.bytes) :
              /\ n <= Len(s)
              /\ Content(Put(fifo, s, size), size)
                   = Content(fifo, size) \o [k \in 1..n |-> s[k]]
<1> DEFINE room == size - fifo.bytes
           n == IF Len(s) < room THEN Len(s) ELSE room
           at(k) == Advance(fifo.tail, k - 1, size)
           data == [i \in 0..(size - 1) |->
                      IF \E k \in 1..n : i = at(k)
                      THEN s[CHOOSE k \in 1..n : i = at(k)]
                      ELSE fifo.data[i]]
           new == Put(fifo, s, size)
           old == Content(fifo, size)
           far(k) == Advance(fifo.head, k, size)
<1>1. /\ fifo.head \in 0..(size - 1) /\ fifo.bytes \in 0..size
      /\ fifo.tail = far(fifo.bytes)
  BY DEF Fifo, Ring
<1>2. n \in 0..(size - fifo.bytes) /\ n <= Len(s)
  BY <1>1
<1>3. /\ new \in Fifo(size)
      /\ new.head = fifo.head /\ new.bytes = fifo.bytes + n
      /\ new.tail = Advance(fifo.tail, n, size) /\ new.data = data
  <2>1. new \in Fifo(size)
    BY PutType
  <2>2. new = [fifo EXCEPT !.tail = Advance(@, n, size), !.bytes = @ + n,
                           !.data = data]
    BY DEF Put
  <2> HIDE DEF new, n, data
  <2> QED BY <2>1, <2>2 DEF Fifo
<1> HIDE DEF new, n
<1>4. \A k \in 1..n : /\ fifo.bytes + (k - 1) \in 0..(size - 1)
                      /\ at(k) = far(fifo.bytes + (k - 1))
  <2> SUFFICES ASSUME NEW k \in 1..n
               PROVE  /\ fifo.bytes + (k - 1) \in 0..(size - 1)
                      /\ at(k) = far(fifo.bytes + (k - 1))
    OBVIOUS
  <2>1. k - 1 \in 0..size /\ fifo.bytes + (k - 1) \in 0..(size - 1)
    BY <1>1, <1>2
  <2> QED BY <1>1, <2>1, AdvanceTwice
<1>5. \A j, k \in 0..(size - 1) : far(j) = far(k) => j = k
  BY <1>1, AdvanceDiffers
<1>6. \A k \in 0..(size - 1) : far(k) \in 0..(size - 1)
  <2> SUFFICES ASSUME NEW k \in 0..(size - 1) PROVE far(k) \in 0..(size - 1)
    OBVIOUS
  <2>1. fifo.head \in Int /\ k \in Int
    BY <1>1
  <2> QED BY <2>1, AdvanceInRange
<1> HIDE DEF at, far
<1>7. ASSUME NEW k \in 1..n
      PROVE  data[far(fifo.bytes + (k - 1))] = s[k]
  <2> DEFINE i == far(fifo.bytes + (k - 1))
             m == CHOOSE j \in 1..n : i = at(j)
  <2>1. i \in 0..(size - 1) /\ i = at(k)
    BY <1>4, <1>6
  <2>2. m \in 1..n /\ i = at(m)
    BY <2>1
  <2>3. data[i] = s[m]
    BY <2>1
  <2> HIDE DEF m
  <2>4. fifo.bytes + (m - 1) = fifo.bytes + (k - 1)
    BY <1>4, <1>5, <2>2
  <2>5. m = k
    BY <1>1, <1>2, <2>2, <2>4
  <2> QED BY <2>3, <2>5
<1>8. ASSUME NEW k \in 1..fifo.bytes
      PROVE  data[far(k - 1)] = fifo.data[far(k - 1)]
  <2>1. k - 1 \in 0..(size - 1) /\ far(k - 1) \in 0..(size - 1)
    BY <1>1, <1>6
  <2>2. ASSUME NEW j \in 1..n PROVE far(k - 1) # at(j)
    <3>1. k - 1 # fifo.bytes + (j - 1)
      BY <1>1, <1>2
    <3> QED BY <1>4, <1>5, <2>1, <3>1
  <2> QED BY <2>1, <2>2
<1> HIDE DEF data
<1>9. Ring(new, size)
  BY <1>1, <1>2, <1>3, AdvanceTwice DEF Ring, far
<1> DEFINE added == [k \in 1..n |-> s[k]]
           c1 == Content(new, size)
           c2 == old \o added
<1>10. /\ old \in Seq(Bytes) /\ Len(old) = fifo.bytes
       /\ \A k \in 1..fifo.bytes : old[k] = fifo.data[far(k - 1)]
  BY ContentType DEF far
<1>11. /\ c1 \in Seq(Bytes) /\ Len(c1) = fifo.bytes + n
       /\ \A k \in 1..(fifo.bytes + n) : c1[k] = data[far(k - 1)]
  BY <1>3, ContentType DEF far
<1>12. added \in Seq(Bytes) /\ Len(added) = n /\ \A k \in 1..n : added[k] = s[k]
  <2>1. n \in Nat /\ \A k \in 1..n : s[k] \in Bytes
    BY <1>2
  <2> QED BY <2>1
<1> HIDE DEF old, added, c1
<1>13. c1 = c2
  <2>1. /\ c2 \in Seq(Bytes) /\ Len(c2) = fifo.bytes + n
        /\ \A k \in 1..fifo.bytes : c2[k] = old[k]
        /\ \A k \in 1..n : c2[fifo.bytes + k] = added[k]
    <3>1. c2 \in Seq(Bytes)
      BY <1>10, <1>12
    <3>2. Len(c2) = fifo.bytes + n
      <4>1. Len(c2) = Len(old) + Len(added)
        BY <1>10, <1>12, ConcatProperties
      <4> QED BY <1>10, <1>12, <4>1
    <3>3. ASSUME NEW k \in 1..fifo.bytes PROVE c2[k] = old[k]
      BY <1>10, <1>12
    <3>4. ASSUME NEW k \in 1..n PROVE c2[fifo.bytes + k] = added[k]
      BY <1>1, <1>2, <1>10, <1>12
    <3> QED BY <3>1, <3>2, <3>3, <3>4
  <2> HIDE DEF c2
  <2>2. ASSUME NEW k \in 1..(fifo.bytes + n) PROVE c1[k] = c2[k]
    <3>1. CASE k <= fifo.bytes
      <4>1. k \in 1..fifo.bytes
        BY <1>1, <1>2, <3>1
      <4> QED BY <1>8, <1>10, <1>11, <2>1, <4>1
    <3>2. CASE k > fifo.bytes
      <4> DEFINE j == k - fifo.bytes
      <4>1. j \in 1..n /\ fifo.bytes + j = k /\ fifo.bytes + (j - 1) = k - 1
        BY <1>1, <1>2, <3>2
      <4> HIDE DEF j
      <4>2. c1[k] = data[far(k - 1)]
        BY <1>11
      <4>3. data[far(fifo.bytes + (j - 1))] = s[j]
        BY <1>7, <4>1
      <4>4. c2[fifo.bytes + j] = s[j]
        BY <1>12, <2>1, <4>1
      <4> QED BY <4>1, <4>2, <4>3, <4>4
    <3> QED BY <1>1, <1>2, <3>1, <3>2
  <2> QED BY <1>11, <2>1, <2>2, SeqEqual
<1> QED BY <1>2, <1>9, <1>13 DEF new, old, added, c1

Rings == Ring(txFifo, TxSize) /\ Ring(rxFifo, RxSize)

(* In terms of queues, a write is a Put, or nothing when there is no room, *)
(* and a read is a Get.                                                    *)
PutOf(old, new, size) ==
  \/ \E s \in UNION {[1..n -> Bytes] : n \in 1..(size - Len(old))} : new = old \o s
  \/ new = old

LEMMA PutIsPut ==
  ASSUME NEW size \in Nat \ {0}, NEW fifo \in Fifo(size), Ring(fifo, size),
         NEW s \in Seq(Bytes)
  PROVE  /\ Ring(Put(fifo, s, size), size)
         /\ PutOf(Content(fifo, size), Content(Put(fifo, s, size), size), size)
<1> DEFINE old == Content(fifo, size)
           new == Content(Put(fifo, s, size), size)
<1>1. Ring(Put(fifo, s, size), size)
  BY PutContent
<1>2. PICK n \in 0..(size - fifo.bytes) :
        n <= Len(s) /\ new = old \o [k \in 1..n |-> s[k]]
  BY PutContent
<1>3. old \in Seq(Bytes) /\ Len(old) = fifo.bytes /\ fifo.bytes \in 0..size
  BY ContentType DEF Fifo
<1> DEFINE added == [k \in 1..n |-> s[k]]
<1>4. added \in [1..n -> Bytes]
  BY <1>2
<1>5. new = old \o added
  BY <1>2
<1> HIDE DEF old, new
<1>6. PutOf(old, new, size)
  <2>1. CASE n = 0
    <3>1. added = <<>>
      BY <2>1
    <3>2. old \o <<>> = old
      BY <1>3
    <3> QED BY <1>5, <3>1, <3>2 DEF PutOf
  <2>2. CASE n # 0
    <3>1. n \in 1..(size - Len(old))
      BY <1>3, <2>2
    <3> HIDE DEF added
    <3>2. added \in UNION {[1..j -> Bytes] : j \in 1..(size - Len(old))}
      BY <1>4, <3>1
    <3> QED BY <1>5, <3>2 DEF PutOf
  <2> QED BY <2>1, <2>2
<1> QED BY <1>1, <1>6 DEF old, new

LEMMA TxWriteQueue ==
  ASSUME IInv, Rings, NEW m \in Messages, HAL_UartWriteBytes(m)
  PROVE  /\ Ring(txFifo', TxSize) /\ udr' = udr
         /\ PutOf(Content(txFifo, TxSize), Content(txFifo', TxSize), TxSize)
<1>1. txFifo' = Put(txFifo, m, TxSize) /\ m \in Seq(Bytes) /\ udr' = udr
  BY MessagesAssumption DEF HAL_UartWriteBytes
<1> QED BY <1>1, SizeAssumption, PutIsPut DEF IInv, TypeOK, HalUartTypeOK, Rings

(* The transmit buffer, between the writers and the data register.         *)
LEMMA TxQueueStep ==
  ASSUME IInv, Rings, [Next]_vars
  PROVE  /\ Ring(txFifo', TxSize)
         /\ \/ /\ PutOf(Content(txFifo, TxSize), Content(txFifo', TxSize), TxSize)
               /\ udr' = udr
            \/ /\ Content(txFifo, TxSize) # <<>>
               /\ udr' = Head(Content(txFifo, TxSize))
               /\ Content(txFifo', TxSize) = Tail(Content(txFifo, TxSize))
<1>1. CASE UNCHANGED <<txFifo, udr>>
  BY <1>1 DEF PutOf, Rings
<1>2. CASE \E m \in Messages : HAL_UartWriteBytes(m)
  BY <1>2, TxWriteQueue
<1>3. CASE Transmit
  BY <1>3, SizeAssumption, GetContent
     DEF Transmit, IInv, TypeOK, HalUartTypeOK, Rings
<1> QED BY <1>1, <1>2, <1>3
        DEF Next, Interrupt, UdreInterrupt, RxInterrupt, TxTask, TransmitNothing,
            RxTask, ReadByte, Collect, EndLine, ReadDone, Application,
            vars, uartVars, txVars

(* The receive buffer, between the interrupt and the parser.               *)
LEMMA RxQueueStep ==
  ASSUME IInv, Rings, [Next]_vars
  PROVE  /\ Ring(rxFifo', RxSize)
         /\ \/ /\ PutOf(Content(rxFifo, RxSize), Content(rxFifo', RxSize), RxSize)
               /\ c' = c
            \/ /\ Content(rxFifo, RxSize) # <<>>
               /\ c' = Head(Content(rxFifo, RxSize))
               /\ Content(rxFifo', RxSize) = Tail(Content(rxFifo, RxSize))
<1>1. CASE UNCHANGED <<rxFifo, c>>
  BY <1>1 DEF PutOf, Rings
<1>2. CASE RxInterrupt /\ UNCHANGED parserVars
  <2>1. PICK b \in Bytes : rxFifo' = Put(rxFifo, <<b>>, RxSize)
    BY <1>2 DEF RxInterrupt
  <2>2. <<b>> \in Seq(Bytes) /\ c' = c
    BY <1>2 DEF parserVars
  <2> QED BY <2>1, <2>2, SizeAssumption, PutIsPut
          DEF IInv, TypeOK, HalUartTypeOK, Rings
<1>3. CASE ReadByte
  <2>1. rxFifo.bytes # 0
    BY <1>3, SizeAssumption
       DEF ReadByte, IInv, TypeOK, HalUartTypeOK, ReceiverNeverStuck, Fifo
  <2> QED BY <1>3, <2>1, SizeAssumption, GetContent
          DEF ReadByte, IInv, TypeOK, HalUartTypeOK, Rings
<1> QED BY <1>1, <1>2, <1>3
        DEF Next, Interrupt, UdreInterrupt, TxTask, RxTask, ReadDone, Application,
            vars, uartVars, parserVars

LEMMA RingsInit == Init => Rings /\ TxQueue!Init /\ RxQueue!Init
<1> SUFFICES ASSUME Init PROVE Rings /\ TxQueue!Init /\ RxQueue!Init
  OBVIOUS
<1>1. ASSUME NEW size \in Nat \ {0}
      PROVE  Ring(EmptyFifo(size), size) /\ Content(EmptyFifo(size), size) = <<>>
  <2>1. EmptyFifo(size).bytes = 0 /\ EmptyFifo(size).head = 0 /\ EmptyFifo(size).tail = 0
    BY DEF EmptyFifo
  <2>2. Advance(0, 0, size) = 0
    BY AdvanceValue
  <2> QED BY <2>1, <2>2 DEF Ring, Content
<1>2. txFifo = EmptyFifo(TxSize) /\ rxFifo = EmptyFifo(RxSize)
  BY DEF Init, HalUartInit
<1> QED BY <1>1, <1>2, SizeAssumption DEF Rings, TxQueue!Init, RxQueue!Init

LEMMA QueueSteps ==
  IInv /\ Rings /\ [Next]_vars =>
    /\ Rings'
    /\ [TxQueue!Next]_<<Content(txFifo, TxSize), udr>>
    /\ [RxQueue!Next]_<<Content(rxFifo, RxSize), c>>
<1> SUFFICES ASSUME IInv, Rings, [Next]_vars
             PROVE  /\ Rings'
                    /\ [TxQueue!Next]_<<Content(txFifo, TxSize), udr>>
                    /\ [RxQueue!Next]_<<Content(rxFifo, RxSize), c>>
  OBVIOUS
<1>1. Rings'
  BY TxQueueStep, RxQueueStep DEF Rings
<1>2. [TxQueue!Next]_<<Content(txFifo, TxSize), udr>>
  BY TxQueueStep DEF PutOf, TxQueue!Next, TxQueue!Put, TxQueue!Get
<1>3. [RxQueue!Next]_<<Content(rxFifo, RxSize), c>>
  BY RxQueueStep DEF PutOf, RxQueue!Next, RxQueue!Put, RxQueue!Get
<1> QED BY <1>1, <1>2, <1>3

(* Both buffers are queues, for every size: what goes to the line and to   *)
(* the parser is what was put in, once and in order (halUart.c:140-235).   *)
THEOREM BuffersAreQueues == Spec => FifosAreQueues
BY ParserInit, ParserStep, RingsInit, QueueSteps, PTL
   DEF Spec, FifosAreQueues, TxQueue!Spec, RxQueue!Spec
===============================================================================
