--------------------------------- MODULE HalUart ---------------------------------
(***************************************************************************)
(* The UART driver (halUart.c): two ring buffers between the main loop and *)
(* the interrupts.  The transmit buffer belongs to the main loop; the data *)
(* register is handed to and fro by udrEmpty and the enable bit of the     *)
(* "register empty" interrupt.  The receive buffer is filled by an         *)
(* interrupt, which leaves newData for the main loop.  Interrupts come     *)
(* between any two steps of the main loop, and the driver's atomic         *)
(* sections are one step here.                                             *)
(***************************************************************************)
EXTENDS Integers, Sequences

CONSTANTS
  Bytes,    \* the values of a byte that are told apart
  ZERO,     \* the byte 0
  TxSize,   \* HAL_UART_TX_FIFO_SIZE
  RxSize    \* HAL_UART_RX_FIFO_SIZE

ASSUME SizeAssumption == TxSize \in Nat \ {0} /\ RxSize \in Nat \ {0}
ASSUME BytesAssumption == ZERO \in Bytes

VARIABLES
  txFifo, rxFifo,
  udrEmpty,   \* the data register may be written
  udrie,      \* UDRIE1: the "register empty" interrupt is enabled
  udr,        \* the byte written to the data register last
  newData     \* a byte has come since the main loop last looked

txVars == <<txFifo, udrEmpty, udrie, udr>>
uartVars == <<txVars, rxFifo, newData>>

(* FifoBuffer_t: head, tail and bytes over an array; its size field is the *)
(* constant "size" of the operators below.                                 *)
Fifo(size) ==
  [head : 0..(size - 1), tail : 0..(size - 1), bytes : 0..size,
   data : [0..(size - 1) -> Bytes]]

HalUartTypeOK ==
  /\ txFifo \in Fifo(TxSize)
  /\ rxFifo \in Fifo(RxSize)
  /\ udrEmpty \in BOOLEAN
  /\ udrie \in BOOLEAN
  /\ udr \in Bytes
  /\ newData \in BOOLEAN

EmptyFifo(size) ==
  [head |-> 0, tail |-> 0, bytes |-> 0, data |-> [i \in 0..(size - 1) |-> ZERO]]

(* An index that has been incremented n times; it never stays at size.     *)
Advance(i, n, size) == (i + n) % size

(* For mutation runs: bytes are written whether or not there is room.      *)
PutAnyway(fifo, s, size) ==
  [fifo EXCEPT
     !.tail = Advance(@, Len(s), size),
     !.bytes = @ + Len(s),
     !.data = [i \in 0..(size - 1) |->
                 IF \E k \in DOMAIN s : i = Advance(fifo.tail, k - 1, size)
                 THEN s[CHOOSE k \in DOMAIN s : i = Advance(fifo.tail, k - 1, size)]
                 ELSE @[i]]]

(* The bytes of s written one after the other; those that find the buffer  *)
(* full are dropped.                                                       *)
Put(fifo, s, size) ==
  LET room == size - fifo.bytes
      n == IF Len(s) < room THEN Len(s) ELSE room
  IN  [fifo EXCEPT
         !.tail = Advance(@, n, size),
         !.bytes = @ + n,
         !.data = [i \in 0..(size - 1) |->
                     IF \E k \in 1..n : i = Advance(fifo.tail, k - 1, size)
                     THEN s[CHOOSE k \in 1..n : i = Advance(fifo.tail, k - 1, size)]
                     ELSE @[i]]]

First(fifo) == fifo.data[fifo.head]

Get(fifo, size) ==
  [fifo EXCEPT !.head = Advance(@, 1, size), !.bytes = @ - 1]

-------------------------------------------------------------------------------
(* Interrupts                                                              *)

(* ISR(USARTx_UDRE_vect)                                                   *)
UdreInterrupt ==
  /\ udrie
  /\ udrEmpty' = TRUE
  /\ udrie' = FALSE
  /\ UNCHANGED <<txFifo, udr, rxFifo, newData>>

(* ISR(USARTx_RX_vect).  A byte with an error, and one that finds the      *)
(* buffer full, leaves no trace.                                           *)
RxInterrupt ==
  /\ rxFifo.bytes # RxSize
  /\ \E b \in Bytes : rxFifo' = Put(rxFifo, <<b>>, RxSize)
  /\ newData' = TRUE
  /\ UNCHANGED txVars

-------------------------------------------------------------------------------
(* The main loop's side                                                    *)

(* HAL_UartWriteByte() for each byte of s                                  *)
HAL_UartWriteBytes(s) ==
  /\ txFifo' = Put(txFifo, s, TxSize)
  /\ UNCHANGED <<udrEmpty, udrie, udr>>

(* For mutation runs: not atomic, and the interrupt comes before udrEmpty  *)
(* is cleared.                                                             *)
TransmitInterrupted ==
  /\ txFifo.bytes # 0 /\ udrEmpty
  /\ udr' = First(txFifo)
  /\ txFifo' = Get(txFifo, TxSize)
  /\ udrie' = FALSE
  /\ udrEmpty' = FALSE

(* HAL_UartTaskHandler(), first half                                       *)
Transmit ==
  /\ txFifo.bytes # 0 /\ udrEmpty
  /\ udr' = First(txFifo)
  /\ txFifo' = Get(txFifo, TxSize)
  /\ udrie' = TRUE
  /\ udrEmpty' = FALSE

TransmitNothing ==
  /\ txFifo.bytes = 0 \/ ~udrEmpty
  /\ UNCHANGED txVars

HalUartInit ==
  /\ txFifo = EmptyFifo(TxSize)
  /\ rxFifo = EmptyFifo(RxSize)
  /\ udr = ZERO
  /\ udrEmpty = TRUE
  /\ udrie = FALSE
  /\ newData = FALSE
===============================================================================
