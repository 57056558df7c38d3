-------------------------------- MODULE CobsFrames --------------------------------
(***************************************************************************)
(* The messages the coordinator writes to the UART (Coordinator.c): a      *)
(* checksum, then the bytes stuffed so that none of them is zero (COBS),   *)
(* then a zero.  The longest block follows from the width of a byte: 254   *)
(* bytes for 8 bits.                                                       *)
(***************************************************************************)
EXTENDS Bytes, Sequences, SequencesExt

CONSTANT MessageSize  \* sizeof(AppMessage_t): 37

CodeMax == Number(Bits)

(* The encoded message is one byte longer and is counted in a byte         *)
(* (cobs_size); a message of 254 bytes could already take 256.             *)
ASSUME MessageAssumption == MessageSize \in 1..(CodeMax - 2)

(* The length of cobs_buffer.                                              *)
BufferSize == MessageSize + 8

(* The exclusive or of the bytes of a message.                             *)
Checksum(message) ==
  LET cs[i \in 0..Len(message)] ==
        IF i = 0 THEN {} ELSE Xor(cs[i - 1], message[i])
  IN  cs[Len(message)]

(* Where AppMessage_t has its checksum, that of the bytes before it is put *)
(* into whatever data came.                                                *)
Checksummed(data) ==
  [data EXCEPT ![MessageSize] = Checksum(SubSeq(data, 1, MessageSize - 1))]

(* A block: its code, which is one more than its length, and its bytes.    *)
Block(bytes) == <<ByteOf(Len(bytes) + 1)>> \o bytes

IsLongest(bytes) == Len(bytes) + 1 = CodeMax

(* For mutation runs: a zero behind another one has no block of its own.   *)
EncodingMergesZeros(done, b) ==
  LET longer == Append(done.block, b) IN
    IF b = {} THEN [output |-> IF done.block = <<>> THEN done.output
                               ELSE done.output \o Block(done.block),
                    block |-> <<>>]
    ELSE IF IsLongest(longer)
         THEN [output |-> done.output \o Block(longer), block |-> <<>>]
         ELSE [output |-> done.output, block |-> longer]

(* The loop of cobsEncode(): output up to code_index, and the block whose  *)
(* code is yet to be filled in.                                            *)
Encoding(done, b) ==
  LET longer == Append(done.block, b) IN
    IF b = {} THEN [output |-> done.output \o Block(done.block), block |-> <<>>]
    ELSE IF IsLongest(longer)
         THEN [output |-> done.output \o Block(longer), block |-> <<>>]
         ELSE [output |-> done.output, block |-> longer]

Encoded(input) ==
  LET done[i \in 0..Len(input)] ==
        IF i = 0 THEN [output |-> <<>>, block |-> <<>>]
        ELSE Encoding(done[i - 1], input[i])
  IN  done

cobsEncode(input) ==
  LET end == Encoded(input)[Len(input)] IN end.output \o Block(end.block)

(* What goes to the UART for a message: as many of the encoded bytes as    *)
(* cobs_size, a byte, says.                                                *)
appSendMessage(data) ==
  LET cobs == cobsEncode(Checksummed(data)) IN
    Append(SubSeq(cobs, 1, Len(cobs) % (CodeMax + 1)), {})

(* The reference: how a receiver takes a frame apart.  A block ends in a   *)
(* zero unless it is the longest or the last.                              *)
DecodedFrom(frame) ==
  LET from[i \in 1..(Len(frame) + 1)] ==
        LET next == i + Number(frame[i]) IN
          IF i > Len(frame) \/ next = i THEN <<>>
          ELSE IF next > Len(frame) THEN SubSeq(frame, i + 1, Len(frame))
          ELSE SubSeq(frame, i + 1, next - 1)
                 \o (IF Number(frame[i]) = CodeMax THEN <<>> ELSE <<{}>>) \o from[next]
  IN  from

Decoded(frame) == DecodedFrom(frame)[1]
===============================================================================
