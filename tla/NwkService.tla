------------------------------ MODULE NwkService ------------------------------
(***************************************************************************)
(* What the data request service promises the application, without frames, *)
(* buffers, timers or the order of the main loop.  Every request goes its  *)
(* own way from the hand-over to the callback, and the status it comes     *)
(* back with says what happened to it:                                     *)
(*                                                                         *)
(*   OUT_OF_MEMORY  it was never sent;                                     *)
(*   PHY_ERROR      the radio could not send it;                           *)
(*   NO_ACK         it was sent, asked for an acknowledgement, and none    *)
(*                  came while it waited;                                  *)
(*   SUCCESS        it was sent and, if it asked for one, an               *)
(*                  acknowledgement came while it waited.                  *)
(***************************************************************************)
CONSTANT Reqs

VARIABLES
  stage,    \* where the request is
  asked,    \* whether it asks for an acknowledgement
  result    \* the status it will come back with, once it is DONE

svars == <<stage, asked, result>>

SInit ==
  /\ stage = [r \in Reqs |-> "IDLE"]
  /\ asked = [r \in Reqs |-> FALSE]
  /\ result = [r \in Reqs |-> "SUCCESS"]

Advance(r, from, to) ==
  stage[r] = from /\ stage' = [stage EXCEPT ![r] = to]

Finish(r, from, status) ==
  /\ Advance(r, from, "DONE")
  /\ result' = [result EXCEPT ![r] = status]
  /\ UNCHANGED asked

Submit(r) ==
  /\ Advance(r, "IDLE", "QUEUED")
  /\ \E ack \in BOOLEAN : asked' = [asked EXCEPT ![r] = ack]
  /\ UNCHANGED result

Refuse(r) == Finish(r, "QUEUED", "OUT_OF_MEMORY")

Send(r) == Advance(r, "QUEUED", "SENDING") /\ UNCHANGED <<asked, result>>

SendFails(r) == Finish(r, "SENDING", "PHY_ERROR")

SendSucceeds(r) == ~asked[r] /\ Finish(r, "SENDING", "SUCCESS")

Wait(r) ==
  asked[r] /\ Advance(r, "SENDING", "WAITING") /\ UNCHANGED <<asked, result>>

Acknowledge(r) == Finish(r, "WAITING", "SUCCESS")

(* One timer serves all waiting requests: several may expire at once.      *)
Expire(S) ==
  /\ \A r \in S : stage[r] = "WAITING"
  /\ stage' = [r \in Reqs |-> IF r \in S THEN "DONE" ELSE stage[r]]
  /\ result' = [r \in Reqs |-> IF r \in S THEN "NO_ACK" ELSE result[r]]
  /\ UNCHANGED asked

Return(r) ==
  /\ Advance(r, "DONE", "IDLE")
  /\ asked' = [asked EXCEPT ![r] = FALSE]
  /\ result' = [result EXCEPT ![r] = "SUCCESS"]

SNext ==
  \/ \E r \in Reqs :
       \/ Submit(r) \/ Refuse(r) \/ Send(r) \/ SendFails(r) \/ SendSucceeds(r)
       \/ Wait(r) \/ Acknowledge(r) \/ Return(r)
  \/ \E S \in SUBSET Reqs : Expire(S)

SSpec == SInit /\ [][SNext]_svars
===============================================================================
