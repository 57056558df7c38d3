------------------------------- MODULE ByteQueue -------------------------------
(***************************************************************************)
(* What a buffer of the UART driver promises: a bounded queue of bytes.    *)
(* What is put in when it is full is dropped, from the first byte that     *)
(* does not fit.                                                           *)
(***************************************************************************)
EXTENDS Integers, Sequences

CONSTANTS Bytes, Size

VARIABLES
  queue,   \* the bytes in the buffer
  taken    \* the byte taken out last

Init == queue = <<>>

(* Some bytes at the end, as many as the writer has and there is room for. *)
Put ==
  /\ \E s \in UNION {[1..n -> Bytes] : n \in 1..(Size - Len(queue))} :
       queue' = queue \o s
  /\ UNCHANGED taken

Get ==
  /\ queue # <<>>
  /\ taken' = Head(queue)
  /\ queue' = Tail(queue)

Next == Put \/ Get

Spec == Init /\ [][Next]_<<queue, taken>>
===============================================================================
