----------------------------- MODULE NwkDuplicates -----------------------------
(***************************************************************************)
(* Duplicate rejection (nwkRx.c).  A node remembers, for every source it   *)
(* has recently heard, the newest sequence number and which of the numbers *)
(* just before it have been seen.  An entry dies when its source has sent  *)
(* nothing newer for a while; one timer counts the time of all entries and *)
(* stops itself when none is left.                                         *)
(*                                                                         *)
(* Sequence numbers are unsigned bytes and wrap; the mask of the numbers   *)
(* seen is a set of distances from the newest.                             *)
(***************************************************************************)
EXTENDS Integers, FiniteSets

CONSTANTS
  NSlots,     \* NWK_DUPLICATE_REJECTION_TABLE_SIZE
  Sources,    \* network addresses that frames may come from
  SeqCount,   \* a sequence number is a uint8_t: 256
  Window,     \* the mask is a uint8_t: 8 distances
  IntBits,    \* the mask is shifted as an int: 16 bits on this machine
  TTL,        \* DUPLICATE_REJECTION_TTL, in timer intervals
  Reach,      \* how late a frame may be: less than Reach numbers
  Leap,       \* how far ahead a frame may be: at most Leap numbers
  MaxNumber   \* bound of the model: a source sends the frames 0..MaxNumber

Slots == 1..NSlots
Seqs == 0..(SeqCount - 1)
Distances == 0..(Window - 1)

ASSUME SlotsAssumption == NSlots \in Nat \ {0}
ASSUME WindowAssumption ==
  /\ SeqCount \in Nat /\ Window \in Nat \ {0} /\ IntBits \in Nat
  /\ 2 * Window <= SeqCount /\ Window <= IntBits
ASSUME TTLAssumption == TTL \in Nat \ {0}
ASSUME NetworkAssumption ==
  /\ Reach \in 1..Window
  /\ Leap \in Nat /\ Leap < IntBits /\ Leap <= SeqCount - Window
ASSUME BoundAssumption == MaxNumber \in Nat

VARIABLES
  slot,       \* nwkRxDuplicateRejectionTable[]
  running,    \* nwkRxDuplicateRejectionTimer is started
  newest,     \* history: the newest frame accepted from each source, and
  accepted    \* the frames accepted, since the source has an entry

tableVars == <<slot, running, newest, accepted>>

(***************************************************************************)
(* A source numbers its frames 0, 1, 2, ... and puts the number modulo     *)
(* SeqCount into the frame.  The network may lose frames, repeat them and  *)
(* reorder them, but it delivers nothing that is Reach or more behind the  *)
(* newest frame, and nothing more than Leap ahead: this node does not miss *)
(* as many frames of a source in a row as would make a byte look late or   *)
(* the shift of the mask undefined.                                        *)
(***************************************************************************)
Numbers == 0..MaxNumber
SeqByte(n) == n % SeqCount

Slot == [src : Sources, seq : Seqs, mask : SUBSET Distances, ttl : 0..TTL]

Live(i) == slot[i].ttl > 0

(* How far seq is behind the newest number: an unsigned byte.              *)
Behind(last, seq) == (last - seq) % SeqCount

(* mask << shift, cut to a byte.  A shift by the width of an int or more   *)
(* is undefined in C; the compiler's loop clears the mask or, for counts   *)
(* that look negative to it, leaves it alone.                              *)
ShiftedOneShort(mask, shift) ==
  IF shift < IntBits
  THEN {{d \in Distances : d + 1 >= shift /\ d + 1 - shift \in mask}}
  ELSE {{}, mask}

Shifted(mask, shift) ==
  IF shift < IntBits
  THEN {{d \in Distances : d >= shift /\ d - shift \in mask}}
  ELSE {{}, mask}

(* The walk over the table stops at the first live entry of the source.    *)
EntryOf(i, src) ==
  /\ i \in Slots
  /\ Live(i) /\ slot[i].src = src
  /\ \A k \in Slots : k < i => ~(Live(k) /\ slot[k].src = src)

NoEntry(src) == \A i \in Slots : ~(Live(i) /\ slot[i].src = src)

(* A walk to the end has remembered the last free entry.                   *)
LastFree(i) == i \in Slots /\ ~Live(i) /\ \A k \in Slots : k > i => Live(k)

Deliverable(src, n) ==
  \/ NoEntry(src)
  \/ /\ newest[src] - n < Reach
     /\ n - newest[src] <= Leap

TableInit ==
  /\ \E s \in Sources :
       slot = [i \in Slots |-> [src |-> s, seq |-> 0, mask |-> {}, ttl |-> 0]]
  /\ running = FALSE
  /\ newest = [s \in Sources |-> 0]
  /\ accepted = [s \in Sources |-> {}]

TableTypeOK ==
  /\ slot \in [Slots -> Slot]
  /\ running \in BOOLEAN
  /\ newest \in [Sources -> Numbers]
  /\ accepted \in [Sources -> SUBSET Numbers]

-------------------------------------------------------------------------------
(* nwkRxRejectDuplicate() for the frame n of src, by outcome.  The history *)
(* keeps of the accepted frames those the network may still repeat.        *)

Remember(src, n, top, before) ==
  /\ newest' = [newest EXCEPT ![src] = top]
  /\ accepted' = [accepted EXCEPT ![src] =
                    {m \in before \cup {n} : top - m < Window}]

(* One of the numbers seen: a duplicate.                                   *)
RejectsSeen(src, n) ==
  \E i \in Slots :
    EntryOf(i, src) /\ Behind(slot[i].seq, SeqByte(n)) \in slot[i].mask

(* No entry and no room for one: the frame is dropped like a duplicate.    *)
RejectsForRoom(src) == NoEntry(src) /\ \A i \in Slots : Live(i)

Reject(src, n) ==
  /\ RejectsSeen(src, n) \/ RejectsForRoom(src)
  /\ UNCHANGED tableVars

(* Bug for mutation runs: the bit of a late frame is not set.              *)
AcceptLateUnmarked(src, n) ==
  \E i \in Slots :
    /\ EntryOf(i, src)
    /\ Behind(slot[i].seq, SeqByte(n)) \in Distances \ slot[i].mask
    /\ Remember(src, n, newest[src], accepted[src])
    /\ UNCHANGED <<slot, running>>

AcceptLate(src, n) ==
  \E i \in Slots :
    LET behind == Behind(slot[i].seq, SeqByte(n))
    IN  /\ EntryOf(i, src)
        /\ behind \in Distances \ slot[i].mask
        /\ slot' = [slot EXCEPT ![i].mask = @ \cup {behind}]
        /\ Remember(src, n, newest[src], accepted[src])
        /\ UNCHANGED running

AcceptNewer(src, n) ==
  \E i \in Slots :
    LET behind == Behind(slot[i].seq, SeqByte(n))
    IN  /\ EntryOf(i, src)
        /\ behind \notin Distances
        /\ \E mask \in Shifted(slot[i].mask, SeqCount - behind) :
             slot' = [slot EXCEPT ![i].seq = SeqByte(n),
                                  ![i].mask = mask \cup {0}, ![i].ttl = TTL]
        /\ Remember(src, n, n, accepted[src])
        /\ UNCHANGED running

AcceptFirst(src, n) ==
  /\ NoEntry(src)
  /\ \E i \in Slots :
       /\ LastFree(i)
       /\ slot' = [slot EXCEPT ![i] =
                     [src |-> src, seq |-> SeqByte(n), mask |-> {0}, ttl |-> TTL]]
  /\ running' = TRUE                       \* SYS_TimerStart()
  /\ Remember(src, n, n, {})

Accept(src, n) == AcceptLate(src, n) \/ AcceptNewer(src, n) \/ AcceptFirst(src, n)

TimerRestartMisplaced ==
  /\ running
  /\ slot' = [i \in Slots |->
                IF Live(i) THEN [slot[i] EXCEPT !.ttl = @ - 1] ELSE slot[i]]
  /\ running' = (\E i \in Slots : slot[i].ttl = 1)
  /\ UNCHANGED <<newest, accepted>>

(* nwkRxDuplicateRejectionTimerHandler() *)
TimerFires ==
  /\ running
  /\ slot' = [i \in Slots |->
                IF Live(i) THEN [slot[i] EXCEPT !.ttl = @ - 1] ELSE slot[i]]
  /\ running' = (\E i \in Slots : Live(i))
  /\ UNCHANGED <<newest, accepted>>

Receive ==
  \E src \in Sources, n \in Numbers :
    Deliverable(src, n) /\ (Accept(src, n) \/ Reject(src, n))

TableNext == Receive \/ TimerFires

TableSpec == TableInit /\ [][TableNext]_tableVars

(* While an entry lives, its byte and mask say exactly which of the frames *)
(* the network may still deliver have been accepted: none of them is       *)
(* accepted twice and none is taken for a duplicate that is not one,       *)
(* although numbers wrap, are skipped, and arrive late.  (After a leap of  *)
(* IntBits or more it fails: the mask may stand for numbers never seen.)   *)
MaskIsHistory ==
  \A i \in Slots : Live(i) =>
    LET s == slot[i].src
    IN  /\ slot[i].seq = SeqByte(newest[s])
        /\ slot[i].mask = {newest[s] - n : n \in accepted[s]}

(* The same as a promise about deliveries: of the frames the network may   *)
(* deliver, exactly those are rejected as seen that have been accepted.    *)
AcceptedOnce ==
  \A s \in Sources, n \in Numbers :
    ~NoEntry(s) /\ Deliverable(s, n) => (RejectsSeen(s, n) <=> n \in accepted[s])

(* Sources that fall silent make room again, and the timer stops.          *)
TableFairSpec == TableSpec /\ WF_tableVars(TimerFires)

SilentSourcesForgotten ==
  <>[][~Receive]_tableVars => <>[](~running /\ \A i \in Slots : ~Live(i))
===============================================================================
