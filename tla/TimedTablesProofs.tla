--------------------------- MODULE TimedTablesProofs ---------------------------
(***************************************************************************)
(* Proofs about the two tables that lose their time tick by tick: the      *)
(* entries of the duplicate rejection table (NwkDuplicates), and the list  *)
(* of the software timers (SysTimer).                                      *)
(*                                                                         *)
(* Of the first, that byte and mask of an entry are the history of its     *)
(* source, for every width of the sequence number and of the mask, every   *)
(* size of the table and every number of frames.  All that the proof needs *)
(* of the arithmetic of unsigned bytes is in BehindWhenLate and            *)
(* BehindWhenNewer: the network may deliver a frame so late or so far      *)
(* ahead, and no more, that the difference of two bytes tells which.       *)
(*                                                                         *)
(* Of the second, for every set of timers and all intervals, that no timer *)
(* is in the list twice, and that the list implements the deadlines: the   *)
(* sum of the timeouts up to a timer is the time it has left (LeftOf), and *)
(* what has not been taken off the list yet is the lag of the deadlines.   *)
(* Each way the code changes the list has a lemma that says what it does   *)
(* to these sums: PlaceLeft, StopLeft, TailLeft and FinishLeft.  A fact    *)
(* about the sums at all places of a list is proved by way of the first    *)
(* place at which it would fail.  That no timeout is negative or longer    *)
(* than an interval (TimeoutsInRange) comes last and from the same sums.   *)
(***************************************************************************)
EXTENDS NwkDuplicates, SysTimer, SequenceTheorems, WellFoundedInduction, TLAPS

-------------------------------------------------------------------------------
(* Remainders.                                                             *)
LEMMA RemainderIsUnique ==
  ASSUME NEW d \in Nat \ {0}, NEW a \in Int, NEW q \in Int, NEW r \in 0..(d - 1),
         a = d * q + r
  PROVE  a % d = r
<1> DEFINE p == a \div d
           s == a % d
<1>1. p \in Int /\ s \in 0..(d - 1) /\ a = d * p + s
  OBVIOUS
<1> HIDE DEF p, s
<1>2. d * (q - p) = s - r
  BY <1>1
<1>3. ASSUME q - p >= 1 PROVE FALSE
  <2>1. d * (q - p) >= d
    BY <1>1, <1>3
  <2> QED
    BY <1>1, <1>2, <2>1
<1>4. ASSUME q - p <= -1 PROVE FALSE
  <2>1. d * (q - p) <= -d
    BY <1>1, <1>4
  <2> QED
    BY <1>1, <1>2, <2>1
<1>5. q = p
  BY <1>1, <1>3, <1>4
<1> QED
  BY <1>1, <1>5 DEF s

(* The difference of two remainders, of a larger and of a smaller number.  *)
LEMMA RemainderOfDifference ==
  ASSUME NEW d \in Nat \ {0}, NEW m \in Int, NEW n \in Int
  PROVE  /\ m - n \in 0..(d - 1) => ((m % d) - (n % d)) % d = m - n
         /\ d - (n - m) \in 0..(d - 1) => ((m % d) - (n % d)) % d = d - (n - m)
<1> DEFINE p == m \div d  s == m % d
           q == n \div d  t == n % d
<1>1. /\ p \in Int /\ s \in 0..(d - 1) /\ m = d * p + s
      /\ q \in Int /\ t \in 0..(d - 1) /\ n = d * q + t
  OBVIOUS
<1> HIDE DEF p, q, s, t
<1>2. s - t \in Int /\ q - p \in Int /\ q - p - 1 \in Int
  BY <1>1
<1>3. ASSUME m - n \in 0..(d - 1) PROVE (s - t) % d = m - n
  <2>1. d * (q - p) = d * q - d * p
    BY <1>1
  <2>2. s - t = d * (q - p) + (m - n)
    BY <1>1, <2>1
  <2> QED
    BY <1>2, <1>3, <2>2, RemainderIsUnique
<1>4. ASSUME d - (n - m) \in 0..(d - 1) PROVE (s - t) % d = d - (n - m)
  <2>1. d * (q - p - 1) = d * q - d * p - d
    BY <1>1
  <2>2. s - t = d * (q - p - 1) + (d - (n - m))
    BY <1>1, <2>1
  <2> QED
    BY <1>2, <1>4, <2>2, RemainderIsUnique
<1> QED
  BY <1>3, <1>4 DEF s, t

-------------------------------------------------------------------------------
(* The duplicate rejection table.  A frame that is late by no more than a  *)
(* byte can tell is exactly so far behind.                                 *)
LEMMA BehindWhenLate ==
  ASSUME NEW top \in Nat, NEW n \in Nat, n <= top, top - n < SeqCount
  PROVE  Behind(SeqByte(top), SeqByte(n)) = top - n
<1>1. SeqCount \in Nat \ {0} /\ top - n \in 0..(SeqCount - 1)
  BY WindowAssumption
<1>2. top \in Int /\ n \in Int
  OBVIOUS
<1>3. ((top % SeqCount) - (n % SeqCount)) % SeqCount = top - n
  BY <1>1, <1>2, RemainderOfDifference, Zenon
<1> QED
  BY <1>3, Zenon DEF Behind, SeqByte

(* A newer frame is so far behind that it cannot be late.                  *)
LEMMA BehindWhenNewer ==
  ASSUME NEW top \in Nat, NEW n \in Nat, top < n, n - top <= Leap
  PROVE  /\ Behind(SeqByte(top), SeqByte(n)) = SeqCount - (n - top)
         /\ SeqCount - (n - top) \in Nat
         /\ SeqCount - (n - top) >= Window
<1>1. /\ SeqCount \in Nat \ {0}
      /\ SeqCount - (n - top) \in 0..(SeqCount - 1)
      /\ SeqCount - (n - top) >= Window
  BY WindowAssumption, NetworkAssumption
<1>2. top \in Int /\ n \in Int
  OBVIOUS
<1>3. ((top % SeqCount) - (n % SeqCount)) % SeqCount = SeqCount - (n - top)
  BY <1>1, <1>2, RemainderOfDifference, Zenon
<1>4. Behind(SeqByte(top), SeqByte(n)) = SeqCount - (n - top)
  BY <1>3, Zenon DEF Behind, SeqByte
<1>5. SeqCount - (n - top) \in Nat
  BY <1>1
<1> QED
  BY <1>1, <1>4, <1>5

(* A live entry, its byte and its mask, against the history of its source; *)
(* the frames of the history are the newest one and those within the mask. *)
History(s) ==
  \A m \in accepted[s] : m <= newest[s] /\ newest[s] - m < Window

MaskOf(top, frames) == {top - m : m \in frames}

OneEntryEach ==
  \A i, j \in Slots : Live(i) /\ Live(j) /\ slot[i].src = slot[j].src => i = j

DInv ==
  /\ TableTypeOK
  /\ OneEntryEach
  /\ \A s \in Sources : History(s)
  /\ MaskIsHistory

(* The entry that a walk over the table finds.                             *)
LEMMA TheEntry ==
  ASSUME DInv, NEW src \in Sources
  PROVE  /\ \A i : EntryOf(i, src) => i \in Slots /\ Live(i) /\ slot[i].src = src
         /\ \A i \in Slots : Live(i) /\ slot[i].src = src => EntryOf(i, src)
<1>1. \A k \in Slots : k \in Int
  BY SlotsAssumption DEF Slots
<1> QED
  BY <1>1 DEF EntryOf, DInv, OneEntryEach

(* What it says.                                                           *)
LEMMA EntryTells ==
  ASSUME DInv, NEW i \in Slots, Live(i)
  PROVE  /\ slot[i] \in Slot
         /\ slot[i].seq = SeqByte(newest[slot[i].src])
         /\ slot[i].mask = MaskOf(newest[slot[i].src], accepted[slot[i].src])
BY DEF DInv, TableTypeOK, MaskIsHistory, MaskOf

(* Where a frame that may be delivered stands to the newest one.           *)
LEMMA LateOrNewer ==
  ASSUME DInv, NEW src \in Sources, NEW n \in Numbers, NEW i, EntryOf(i, src),
         Deliverable(src, n)
  PROVE  LET top == newest[src]
             behind == Behind(slot[i].seq, SeqByte(n))
         IN  /\ top \in Nat /\ n \in Nat
             /\ \/ n <= top /\ top - n < Window /\ behind = top - n
                   /\ behind \in Distances
                \/ n > top /\ n - top <= Leap /\ behind = SeqCount - (n - top)
                   /\ behind \notin Distances
<1> DEFINE top == newest[src]
           behind == Behind(slot[i].seq, SeqByte(n))
<1>1. top \in Nat /\ n \in Nat
  BY BoundAssumption DEF DInv, TableTypeOK, Numbers
<1>2. i \in Slots /\ Live(i) /\ slot[i].src = src
  BY DEF EntryOf
<1>3. behind = Behind(SeqByte(top), SeqByte(n))
  BY <1>2 DEF DInv, MaskIsHistory
<1>4. top - n < Reach /\ n - top <= Leap
  BY <1>2 DEF Deliverable, NoEntry
<1>5. /\ Reach <= Window /\ Window <= SeqCount
      /\ Reach \in Int /\ Window \in Nat /\ SeqCount \in Nat
  BY NetworkAssumption, WindowAssumption
<1> HIDE DEF top, behind
<1>6. CASE n <= top
  <2>1. top - n < Window /\ top - n < SeqCount
    BY <1>1, <1>4, <1>5
  <2>2. behind = top - n
    BY <1>1, <1>3, <1>6, <2>1, BehindWhenLate
  <2> QED
    BY <1>1, <1>5, <1>6, <2>1, <2>2 DEF top, behind, Distances
<1>7. CASE n > top
  <2>1. behind = SeqCount - (n - top) /\ SeqCount - (n - top) >= Window
        /\ SeqCount - (n - top) \in Nat
    BY <1>1, <1>3, <1>4, <1>7, BehindWhenNewer
  <2> QED
    BY <1>1, <1>4, <1>5, <1>7, <2>1 DEF top, behind, Distances
<1> QED
  BY <1>1, <1>6, <1>7

(* What Remember() leaves of the history.                                  *)
LEMMA Remembers ==
  ASSUME TableTypeOK, NEW src \in Sources, NEW n \in Numbers, NEW top \in Numbers,
         NEW before \in SUBSET Numbers, Remember(src, n, top, before)
  PROVE  /\ newest' \in [Sources -> Numbers]
         /\ accepted' \in [Sources -> SUBSET Numbers]
         /\ newest'[src] = top
         /\ accepted'[src] = {m \in before \cup {n} : top - m < Window}
         /\ \A s \in Sources \ {src} :
              newest'[s] = newest[s] /\ accepted'[s] = accepted[s]
BY DEF TableTypeOK, Remember

(* Changing one entry, and the history of its source with it, is all there *)
(* is to show of an accepted frame.                                        *)
LEMMA OneEntryChanges ==
  ASSUME DInv, NEW src \in Sources, NEW i \in Slots,
         NEW entry \in Slot, slot' = [slot EXCEPT ![i] = entry],
         entry.ttl > 0, entry.src = src,
         \A j \in Slots \ {i} : Live(j) => slot[j].src # src,
         running' \in BOOLEAN,
         newest' \in [Sources -> Numbers], accepted' \in [Sources -> SUBSET Numbers],
         \A s \in Sources \ {src} :
           newest'[s] = newest[s] /\ accepted'[s] = accepted[s],
         entry.seq = SeqByte(newest'[src]),
         entry.mask = MaskOf(newest'[src], accepted'[src]),
         History(src)'
  PROVE  DInv'
<1>1. slot \in [Slots -> Slot]
  BY DEF DInv, TableTypeOK
<1>2. slot' \in [Slots -> Slot] /\ slot'[i] = entry
      /\ \A j \in Slots \ {i} : slot'[j] = slot[j]
  BY <1>1
<1>3. TableTypeOK'
  BY <1>2 DEF TableTypeOK
<1>4. OneEntryEach'
  BY <1>2 DEF DInv, OneEntryEach, Live
<1>5. \A s \in Sources : History(s)'
  BY DEF DInv, History
<1>6. MaskIsHistory'
  <2> SUFFICES ASSUME NEW j \in Slots, Live(j)'
               PROVE  LET s == slot'[j].src
                      IN  /\ slot'[j].seq = SeqByte(newest'[s])
                          /\ slot'[j].mask = MaskOf(newest'[s], accepted'[s])
    BY DEF MaskIsHistory, SeqByte, MaskOf
  <2>1. CASE j = i
    <3>1. slot'[j] = entry
      BY <1>2, <2>1
    <3> QED
      BY <3>1
  <2>2. CASE j # i
    <3>1. slot'[j] = slot[j] /\ Live(j) /\ slot[j].src \in Sources \ {src}
      BY <1>1, <1>2, <2>2 DEF Live, Slot
    <3> QED
      BY <3>1, EntryTells
  <2> QED
    BY <2>1, <2>2
<1> QED
  BY <1>3, <1>4, <1>5, <1>6 DEF DInv

-------------------------------------------------------------------------------
(* The steps of the duplicate rejection.                                   *)
LEMMA AcceptLateStep ==
  ASSUME DInv, NEW src \in Sources, NEW n \in Numbers, Deliverable(src, n),
         AcceptLate(src, n)
  PROVE  DInv'
<1> DEFINE top == newest[src]
<1>1. PICK i \in Slots :
        LET behind == Behind(slot[i].seq, SeqByte(n))
        IN  /\ EntryOf(i, src)
            /\ behind \in Distances \ slot[i].mask
            /\ slot' = [slot EXCEPT ![i].mask = @ \cup {behind}]
            /\ Remember(src, n, newest[src], accepted[src])
            /\ UNCHANGED running
  BY DEF AcceptLate
<1>2. /\ top \in Nat /\ n \in Nat /\ n <= top /\ top - n < Window
      /\ Behind(slot[i].seq, SeqByte(n)) = top - n
  BY <1>1, LateOrNewer
<1>3. /\ Live(i) /\ slot[i].src = src /\ slot[i] \in Slot
      /\ slot[i].seq = SeqByte(top)
      /\ slot[i].mask = MaskOf(top, accepted[src])
  BY <1>1, TheEntry, EntryTells
<1> DEFINE entry == [slot[i] EXCEPT !.mask = @ \cup {top - n}]
<1>4. slot' = [slot EXCEPT ![i] = entry]
  BY <1>1, <1>2
<1>5. /\ entry \in Slot /\ entry.ttl > 0 /\ entry.src = src
      /\ entry.seq = SeqByte(top)
      /\ entry.mask = MaskOf(top, accepted[src]) \cup {top - n}
  BY <1>1, <1>2, <1>3 DEF Slot, Live
<1>6. /\ top \in Numbers /\ accepted[src] \in SUBSET Numbers
      /\ running' \in BOOLEAN /\ TableTypeOK
  BY <1>1 DEF DInv, TableTypeOK
<1>7. /\ newest' \in [Sources -> Numbers]
      /\ accepted' \in [Sources -> SUBSET Numbers]
      /\ newest'[src] = top
      /\ accepted'[src] = {m \in accepted[src] \cup {n} : top - m < Window}
      /\ \A s \in Sources \ {src} :
           newest'[s] = newest[s] /\ accepted'[s] = accepted[s]
  BY <1>1, <1>6, Remembers
<1>8. accepted'[src] = accepted[src] \cup {n}
  BY <1>2, <1>7 DEF DInv, History
<1>9. History(src)'
  BY <1>2, <1>7, <1>8 DEF DInv, History
<1>10. entry.mask = MaskOf(newest'[src], accepted'[src])
  BY <1>5, <1>7, <1>8 DEF MaskOf
<1>11. \A j \in Slots \ {i} : Live(j) => slot[j].src # src
  BY <1>3 DEF DInv, OneEntryEach
<1>12. entry.seq = SeqByte(newest'[src])
  BY <1>5, <1>7
<1> HIDE DEF entry, top
<1> QED
  BY <1>4, <1>5, <1>6, <1>7, <1>9, <1>10, <1>11, <1>12, OneEntryChanges, Zenon

(* The mask is shifted by the distance to the newer number, which is less  *)
(* than the width of an int.                                               *)
LEMMA AcceptNewerStep ==
  ASSUME DInv, NEW src \in Sources, NEW n \in Numbers, Deliverable(src, n),
         AcceptNewer(src, n)
  PROVE  DInv'
<1> DEFINE top == newest[src]
           gap == n - top
<1>1. PICK i \in Slots :
        LET behind == Behind(slot[i].seq, SeqByte(n))
        IN  /\ EntryOf(i, src)
            /\ behind \notin Distances
            /\ \E mask \in Shifted(slot[i].mask, SeqCount - behind) :
                 slot' = [slot EXCEPT ![i].seq = SeqByte(n),
                                      ![i].mask = mask \cup {0}, ![i].ttl = TTL]
            /\ Remember(src, n, n, accepted[src])
            /\ UNCHANGED running
  BY DEF AcceptNewer
<1>2. /\ top \in Nat /\ n \in Nat /\ n > top /\ gap <= Leap
      /\ Behind(slot[i].seq, SeqByte(n)) = SeqCount - gap
  BY <1>1, LateOrNewer
<1>3. /\ Live(i) /\ slot[i].src = src /\ slot[i] \in Slot
      /\ slot[i].mask = MaskOf(top, accepted[src])
  BY <1>1, TheEntry, EntryTells
<1>4. gap \in Nat /\ gap < IntBits /\ SeqCount - (SeqCount - gap) = gap
  BY <1>2, NetworkAssumption, WindowAssumption
<1> DEFINE mask == {d \in Distances : d >= gap /\ d - gap \in slot[i].mask}
           entry == [slot[i] EXCEPT !.seq = SeqByte(n), !.mask = mask \cup {0}, !.ttl = TTL]
<1>5. slot' = [slot EXCEPT ![i] = entry]
  <2>1. Shifted(slot[i].mask, SeqCount - Behind(slot[i].seq, SeqByte(n))) = {mask}
    BY <1>2, <1>4 DEF Shifted
  <2> HIDE DEF mask
  <2> QED
    BY <1>1, <2>1
<1>6. /\ entry \in Slot /\ entry.ttl > 0 /\ entry.src = src
      /\ entry.seq = SeqByte(n) /\ entry.mask = mask \cup {0}
  <2>1. SeqByte(n) \in Seqs /\ TTL \in 0..TTL /\ TTL > 0 /\ 0 \in Distances
    BY <1>2, WindowAssumption, TTLAssumption DEF SeqByte, Seqs, Distances
  <2>2. mask \cup {0} \in SUBSET Distances
    BY <2>1
  <2> HIDE DEF mask
  <2> QED
    BY <1>3, <2>1, <2>2 DEF Slot
<1>7. accepted[src] \in SUBSET Numbers /\ running' \in BOOLEAN /\ TableTypeOK
  BY <1>1 DEF DInv, TableTypeOK
<1>8. /\ newest' \in [Sources -> Numbers]
      /\ accepted' \in [Sources -> SUBSET Numbers]
      /\ newest'[src] = n
      /\ accepted'[src] = {m \in accepted[src] \cup {n} : n - m < Window}
      /\ \A s \in Sources \ {src} :
           newest'[s] = newest[s] /\ accepted'[s] = accepted[s]
  BY <1>1, <1>7, Remembers
<1>9. \A m \in accepted[src] : m \in Nat /\ m <= top /\ top - m < Window
  BY <1>7, BoundAssumption DEF DInv, History, Numbers
<1>10. History(src)'
  BY <1>2, <1>8, <1>9, WindowAssumption DEF History
<1>11. mask \cup {0} = {n - m : m \in accepted'[src]}
  <2>1. ASSUME NEW d \in mask PROVE \E m \in accepted'[src] : d = n - m
    <3>1. d \in Nat /\ d < Window /\ d - gap \in slot[i].mask
      BY WindowAssumption DEF Distances
    <3>2. PICK m \in accepted[src] : d - gap = top - m
      BY <1>3, <3>1 DEF MaskOf
    <3> QED
      BY <1>2, <1>8, <1>9, <3>1, <3>2
  <2>2. \E m \in accepted'[src] : 0 = n - m
    BY <1>2, <1>8, WindowAssumption
  <2>3. ASSUME NEW m \in accepted'[src] PROVE n - m \in mask \cup {0}
    <3>1. CASE m = n
      BY <1>2, <3>1
    <3>2. CASE m \in accepted[src] /\ n - m < Window
      <4>1. top - m \in slot[i].mask
        BY <1>3, <3>2 DEF MaskOf
      <4>2. n - m >= gap /\ (n - m) - gap = top - m /\ n - m \in Distances
        BY <1>2, <1>9, <3>2, WindowAssumption DEF Distances
      <4> QED
        BY <4>1, <4>2
    <3> QED
      BY <1>8, <3>1, <3>2
  <2> HIDE DEF mask
  <2> QED
    BY <2>1, <2>2, <2>3
<1>12. entry.mask = MaskOf(newest'[src], accepted'[src])
  BY <1>6, <1>8, <1>11 DEF MaskOf
<1>13. \A j \in Slots \ {i} : Live(j) => slot[j].src # src
  BY <1>3 DEF DInv, OneEntryEach
<1> HIDE DEF entry, mask
<1> QED
  BY <1>5, <1>6, <1>7, <1>8, <1>10, <1>12, <1>13, OneEntryChanges, Zenon

(* A new entry begins a new history.                                       *)
LEMMA AcceptFirstStep ==
  ASSUME DInv, NEW src \in Sources, NEW n \in Numbers, AcceptFirst(src, n)
  PROVE  DInv'
<1>1. PICK i \in Slots :
        slot' = [slot EXCEPT ![i] =
                   [src |-> src, seq |-> SeqByte(n), mask |-> {0}, ttl |-> TTL]]
  BY DEF AcceptFirst, LastFree
<1> DEFINE entry == [src |-> src, seq |-> SeqByte(n), mask |-> {0}, ttl |-> TTL]
<1>2. entry \in Slot /\ entry.ttl > 0 /\ entry.src = src
      /\ entry.seq = SeqByte(n) /\ entry.mask = {0} /\ n \in Nat
  <2>1. n \in Nat
    BY BoundAssumption DEF Numbers
  <2>2. SeqByte(n) \in Seqs /\ TTL \in 0..TTL /\ TTL > 0 /\ 0 \in Distances
    BY <2>1, WindowAssumption, TTLAssumption DEF SeqByte, Seqs, Distances
  <2> QED
    BY <2>1, <2>2 DEF Slot
<1>3. /\ TableTypeOK /\ running' \in BOOLEAN
      /\ {} \in SUBSET Numbers /\ Remember(src, n, n, {})
  BY DEF AcceptFirst, DInv, TableTypeOK
<1>4. /\ newest' \in [Sources -> Numbers]
      /\ accepted' \in [Sources -> SUBSET Numbers]
      /\ newest'[src] = n
      /\ accepted'[src] = {m \in {} \cup {n} : n - m < Window}
      /\ \A s \in Sources \ {src} :
           newest'[s] = newest[s] /\ accepted'[s] = accepted[s]
  BY <1>3, Remembers
<1>5. accepted'[src] = {n} /\ n - n = 0
  BY <1>2, <1>4, WindowAssumption
<1>6. History(src)'
  BY <1>2, <1>4, <1>5, WindowAssumption DEF History
<1>7. entry.mask = MaskOf(newest'[src], accepted'[src])
  BY <1>2, <1>4, <1>5 DEF MaskOf
<1>8. \A j \in Slots \ {i} : Live(j) => slot[j].src # src
  BY DEF AcceptFirst, NoEntry
<1>9. slot' = [slot EXCEPT ![i] = entry]
  BY <1>1
<1> HIDE DEF entry
<1> QED
  BY <1>2, <1>3, <1>4, <1>6, <1>7, <1>8, <1>9, OneEntryChanges, Zenon

(* The timer only takes time off: no entry comes to life by it.            *)
LEMMA TimerFiresStep == ASSUME DInv, TimerFires PROVE DInv'
<1>1. slot \in [Slots -> Slot]
  BY DEF DInv, TableTypeOK
<1>2. \A i \in Slots :
        /\ slot'[i] \in Slot
        /\ slot'[i].src = slot[i].src
        /\ slot'[i].seq = slot[i].seq
        /\ slot'[i].mask = slot[i].mask
        /\ slot'[i].ttl > 0 => Live(i)
  BY <1>1, TTLAssumption DEF TimerFires, Slot, Live
<1>3. slot' \in [Slots -> Slot]
  BY <1>2 DEF TimerFires
<1>4. TableTypeOK' /\ newest' = newest /\ accepted' = accepted
  BY <1>3 DEF TimerFires, DInv, TableTypeOK
<1>5. OneEntryEach'
  BY <1>2 DEF DInv, OneEntryEach, Live
<1>6. \A s \in Sources : History(s)'
  BY <1>4 DEF DInv, History
<1>7. MaskIsHistory'
  <2> SUFFICES ASSUME NEW i \in Slots, Live(i)'
               PROVE  /\ slot'[i].seq = SeqByte(newest[slot[i].src])
                      /\ slot'[i].mask = {newest[slot[i].src] - m :
                                            m \in accepted[slot[i].src]}
    BY <1>2, <1>4 DEF MaskIsHistory, SeqByte
  <2>1. Live(i)
    BY <1>2 DEF Live
  <2> QED
    BY <1>2, <2>1 DEF DInv, MaskIsHistory
<1> QED
  BY <1>4, <1>5, <1>6, <1>7 DEF DInv

LEMMA InitDInv == TableInit => DInv
<1> SUFFICES ASSUME TableInit PROVE DInv
  OBVIOUS
<1>1. PICK s \in Sources :
        slot = [i \in Slots |-> [src |-> s, seq |-> 0, mask |-> {}, ttl |-> 0]]
  BY DEF TableInit
<1>2. [src |-> s, seq |-> 0, mask |-> {}, ttl |-> 0] \in Slot
  BY WindowAssumption, TTLAssumption DEF Slot, Seqs
<1>3. TableTypeOK
  <2>1. slot \in [Slots -> Slot]
    BY <1>1, <1>2
  <2>2. 0 \in Numbers
    BY BoundAssumption DEF Numbers
  <2> QED
    BY <2>1, <2>2 DEF TableInit, TableTypeOK
<1>4. \A i \in Slots : ~Live(i)
  BY <1>1 DEF Live
<1>5. \A x \in Sources : History(x)
  BY DEF TableInit, History
<1> QED
  BY <1>3, <1>4, <1>5 DEF DInv, OneEntryEach, MaskIsHistory

LEMMA NextDInv == DInv /\ [TableNext]_tableVars => DInv'
<1> SUFFICES ASSUME DInv, [TableNext]_tableVars PROVE DInv'
  OBVIOUS
<1>1. ASSUME UNCHANGED tableVars PROVE DInv'
  BY <1>1
  DEF tableVars, DInv, TableTypeOK, OneEntryEach, History, MaskIsHistory, Live, SeqByte
<1>2. CASE Receive
  <2>1. PICK src \in Sources, n \in Numbers :
          Deliverable(src, n) /\ (Accept(src, n) \/ Reject(src, n))
    BY <1>2 DEF Receive
  <2>2. CASE AcceptLate(src, n)
    BY <2>1, <2>2, AcceptLateStep
  <2>3. CASE AcceptNewer(src, n)
    BY <2>1, <2>3, AcceptNewerStep
  <2>4. CASE AcceptFirst(src, n)
    BY <2>4, AcceptFirstStep
  <2>5. CASE Reject(src, n)
    BY <1>1, <2>5 DEF Reject
  <2> QED
    BY <2>1, <2>2, <2>3, <2>4, <2>5 DEF Accept
<1>3. CASE TimerFires
  BY <1>3, TimerFiresStep
<1> QED
  BY <1>1, <1>2, <1>3 DEF TableNext

(* MaskIsHistory: byte and mask of a live entry say exactly which of the   *)
(* frames that the network may still deliver have been accepted            *)
(* (nwkRxRejectDuplicate(), nwkRx.c).                                      *)
THEOREM MaskTellsHistory == TableSpec => []MaskIsHistory
<1>1. DInv => MaskIsHistory
  BY DEF DInv
<1> QED
  BY <1>1, InitDInv, NextDInv, PTL DEF TableSpec

(* TableTypeOK: an entry of the table never holds a byte, a mask or a time *)
(* that its fields have no room for, and the timer that counts the times   *)
(* down is either running or not (NwkDuplicateRejectionEntry_t and         *)
(* nwkRxRejectDuplicate(), nwkRx.c).                                       *)
THEOREM TableTypes == TableSpec => []TableTypeOK
<1>1. DInv => TableTypeOK
  BY DEF DInv
<1> QED
  BY <1>1, InitDInv, NextDInv, PTL DEF TableSpec

(* AcceptedOnce: of the frames that the network may deliver, exactly those *)
(* are rejected as seen that have been accepted (nwkRxRejectDuplicate()).  *)
THEOREM NoFrameTwice == TableSpec => []AcceptedOnce
<1>1. DInv => AcceptedOnce
  <2> SUFFICES ASSUME DInv, NEW s \in Sources, NEW n \in Numbers,
                      ~NoEntry(s), Deliverable(s, n)
               PROVE  RejectsSeen(s, n) <=> n \in accepted[s]
    BY DEF AcceptedOnce
  <2> DEFINE top == newest[s]
  <2>1. PICK i \in Slots : Live(i) /\ slot[i].src = s
    BY DEF NoEntry
  <2>2. EntryOf(i, s) /\ \A j \in Slots : EntryOf(j, s) => j = i
    BY <2>1, TheEntry DEF DInv, OneEntryEach
  <2>3. slot[i].mask = {top - m : m \in accepted[s]}
    BY <2>1 DEF DInv, MaskIsHistory
  <2>4. RejectsSeen(s, n) <=> Behind(slot[i].seq, SeqByte(n)) \in slot[i].mask
    BY <2>2 DEF RejectsSeen
  <2>5. \A m \in accepted[s] : m \in Nat /\ m <= top /\ top - m < Window
    BY BoundAssumption DEF DInv, TableTypeOK, History, Numbers
  <2>6. top \in Nat /\ n \in Nat
    BY <2>2, LateOrNewer
  <2>7. CASE n <= top /\ Behind(slot[i].seq, SeqByte(n)) = top - n
    <3>1. top - n \in slot[i].mask <=> n \in accepted[s]
      BY <2>3, <2>5, <2>6
    <3> QED
      BY <2>4, <2>7, <3>1
  <2>8. CASE n > top /\ Behind(slot[i].seq, SeqByte(n)) \notin Distances
    <3>1. slot[i].mask \subseteq Distances
      BY <2>1 DEF DInv, TableTypeOK, Slot
    <3> QED
      BY <2>4, <2>5, <2>6, <2>8, <3>1
  <2> QED
    BY <2>2, <2>7, <2>8, LateOrNewer
<1> QED
  BY <1>1, InitDInv, NextDInv, PTL DEF TableSpec
-------------------------------------------------------------------------------
(* The list of the software timers.                                        *)
Once(list) == \A i, j \in DOMAIN list : list[i] = list[j] => i = j

(* A sequence with one element inserted: its elements by position.         *)
Inserted(new, list, e, p) ==
  /\ Len(new) = Len(list) + 1
  /\ \A i \in 1..(Len(list) + 1) :
       new[i] = IF i <= p THEN list[i] ELSE IF i = p + 1 THEN e ELSE list[i - 1]

LEMMA InsertElements ==
  ASSUME NEW S, NEW list \in Seq(S), NEW e \in S, NEW p \in 0..Len(list)
  PROVE  /\ InsertAt(list, p + 1, e) \in Seq(S)
         /\ Inserted(InsertAt(list, p + 1, e), list, e, p)
<1> DEFINE front == SubSeq(list, 1, p)
           back == SubSeq(list, p + 1, Len(list))
<1>1. Len(list) \in Nat
  OBVIOUS
<1>2. /\ front \in Seq(S)
      /\ Len(front) = p
      /\ \A i \in 1..p : front[i] = list[i]
  BY <1>1
<1>3. /\ back \in Seq(S)
      /\ Len(back) = Len(list) - p
      /\ \A i \in 1..(Len(list) - p) : back[i] = list[p + i]
  BY <1>1
<1>4. InsertAt(list, p + 1, e) = (front \o <<e>>) \o back
  <2>1. (p + 1) - 1 = p
    BY <1>1
  <2> QED
    BY <2>1 DEF InsertAt
<1> HIDE DEF front, back
<1>5. /\ front \o <<e>> \in Seq(S)
      /\ Len(front \o <<e>>) = p + 1
      /\ \A i \in 1..(p + 1) :
           (front \o <<e>>)[i] = IF i <= p THEN list[i] ELSE e
  BY <1>1, <1>2, ConcatProperties
<1> QED
  <2> DEFINE long == front \o <<e>>
  <2>1. /\ long \in Seq(S)
        /\ Len(long) = p + 1
        /\ \A i \in 1..(p + 1) : long[i] = IF i <= p THEN list[i] ELSE e
    BY <1>5
  <2> HIDE DEF long
  <2>2. /\ long \o back \in Seq(S)
        /\ Len(long \o back) = Len(list) + 1
        /\ \A i \in 1..(Len(list) + 1) :
             (long \o back)[i] =
               IF i <= p + 1 THEN long[i] ELSE back[i - (p + 1)]
    <3>1. /\ long \o back \in Seq(S)
          /\ Len(long \o back) = Len(long) + Len(back)
          /\ \A i \in 1..(Len(long) + Len(back)) :
               (long \o back)[i] = IF i <= Len(long) THEN long[i] ELSE back[i - Len(long)]
      BY <1>3, <2>1, ConcatProperties
    <3>2. Len(long) + Len(back) = Len(list) + 1
      BY <1>1, <1>3, <2>1
    <3> QED
      BY <2>1, <3>1, <3>2
  <2>3. \A i \in 1..(Len(list) + 1) :
          i > p + 1 => back[i - (p + 1)] = list[i - 1]
    BY <1>1, <1>3
  <2>4. InsertAt(list, p + 1, e) = long \o back
    BY <1>4 DEF long
  <2>5. \A i \in 1..(Len(list) + 1) :
          (long \o back)[i] =
            IF i <= p THEN list[i] ELSE IF i = p + 1 THEN e ELSE list[i - 1]
    BY <1>1, <2>1, <2>2, <2>3
  <2> HIDE DEF back
  <2> DEFINE both == long \o back
  <2>6. /\ both \in Seq(S)
        /\ Len(both) = Len(list) + 1
        /\ \A i \in 1..(Len(list) + 1) :
             both[i] =
               IF i <= p THEN list[i] ELSE IF i = p + 1 THEN e ELSE list[i - 1]
    BY <2>2, <2>5
  <2>7. InsertAt(list, p + 1, e) = both
    BY <2>4
  <2> HIDE DEF both
  <2>8. Inserted(both, list, e, p)
    BY <2>6 DEF Inserted
  <2> QED
    BY <2>6, <2>7, <2>8, Zenon

(* A sequence with one element removed: its elements by position.          *)
Removed(new, list, p) ==
  /\ Len(new) = Len(list) - 1
  /\ \A i \in 1..(Len(list) - 1) : new[i] = IF i < p THEN list[i] ELSE list[i + 1]

LEMMA RemoveElements ==
  ASSUME NEW S, NEW list \in Seq(S), NEW p \in 1..Len(list)
  PROVE  /\ RemoveAt(list, p) \in Seq(S)
         /\ Removed(RemoveAt(list, p), list, p)
<1> DEFINE front == SubSeq(list, 1, p - 1)
           back == SubSeq(list, p + 1, Len(list))
<1>1. Len(list) \in Nat
  OBVIOUS
<1>2. /\ front \in Seq(S)
      /\ Len(front) = p - 1
      /\ \A i \in 1..(p - 1) : front[i] = list[i]
  BY <1>1
<1>3. /\ back \in Seq(S)
      /\ Len(back) = Len(list) - p
      /\ \A i \in 1..(Len(list) - p) : back[i] = list[p + i]
  BY <1>1
<1>4. RemoveAt(list, p) = front \o back
  BY <1>1 DEF RemoveAt
<1> HIDE DEF front, back
<1>5. /\ front \o back \in Seq(S)
      /\ Len(front \o back) = Len(list) - 1
      /\ \A i \in 1..(Len(list) - 1) :
           (front \o back)[i] = IF i <= p - 1 THEN front[i] ELSE back[i - (p - 1)]
  <2>1. /\ front \o back \in Seq(S)
        /\ Len(front \o back) = Len(front) + Len(back)
        /\ \A i \in 1..(Len(front) + Len(back)) :
             (front \o back)[i] =
               IF i <= Len(front) THEN front[i] ELSE back[i - Len(front)]
    BY <1>2, <1>3, ConcatProperties
  <2>2. Len(front) + Len(back) = Len(list) - 1
    BY <1>1, <1>2, <1>3
  <2> QED
    BY <1>2, <2>1, <2>2
<1>6. \A i \in 1..(Len(list) - 1) : i >= p => back[i - (p - 1)] = list[i + 1]
  BY <1>1, <1>3
<1> DEFINE both == front \o back
<1>7. both \in Seq(S) /\ Len(both) = Len(list) - 1
  BY <1>5
<1>8. \A i \in 1..(Len(list) - 1) :
        both[i] = IF i <= p - 1 THEN front[i] ELSE back[i - (p - 1)]
  BY <1>5
<1> HIDE DEF both
<1>9. ASSUME NEW i \in 1..(Len(list) - 1)
      PROVE  both[i] = IF i < p THEN list[i] ELSE list[i + 1]
  <2>1. i \in Int /\ p \in Int /\ i >= 1
    BY <1>1
  <2>2. CASE i < p
    <3>1. i <= p - 1 /\ i \in 1..(p - 1)
      BY <2>1, <2>2
    <3> QED
      BY <1>2, <1>8, <2>2, <3>1
  <2>3. CASE ~(i < p)
    <3>1. ~(i <= p - 1) /\ i >= p
      BY <2>1, <2>3
    <3> QED
      BY <1>6, <1>8, <2>3, <3>1
  <2> QED
    BY <2>2, <2>3
<1>10. Removed(both, list, p)
  BY <1>7, <1>9 DEF Removed
<1> QED
  BY <1>4, <1>7, <1>10, Zenon DEF both

(* Inserting an element that is not there keeps the elements distinct.     *)
LEMMA InsertOnce ==
  ASSUME NEW S, NEW list \in Seq(S), NEW e \in S, NEW p \in 0..Len(list),
         Once(list), \A i \in DOMAIN list : list[i] # e
  PROVE  InsertAt(list, p + 1, e) \in Seq(S) /\ Once(InsertAt(list, p + 1, e))
<1>1. Len(list) \in Nat /\ DOMAIN list = 1..Len(list)
  OBVIOUS
<1>2. DOMAIN InsertAt(list, p + 1, e) = 1..(Len(list) + 1)
  BY <1>1, InsertElements DEF Inserted
<1>3. ASSUME NEW i \in 1..(Len(list) + 1), NEW j \in 1..(Len(list) + 1),
             InsertAt(list, p + 1, e)[i] = InsertAt(list, p + 1, e)[j]
      PROVE  i = j
  <2> DEFINE at(k) == IF k <= p THEN list[k] ELSE IF k = p + 1 THEN e ELSE list[k - 1]
  <2>1. at(i) = at(j)
    BY <1>3, InsertElements DEF Inserted
  <2>2. \A k \in 1..Len(list) : list[k] # e
    BY <1>1
  <2>3. \A k, m \in 1..Len(list) : list[k] = list[m] => k = m
    BY <1>1 DEF Once
  <2>4. CASE i <= p
    BY <1>1, <2>1, <2>2, <2>3, <2>4
  <2>5. CASE i = p + 1
    BY <1>1, <2>1, <2>2, <2>3, <2>5
  <2>6. CASE i > p + 1
    BY <1>1, <2>1, <2>2, <2>3, <2>6
  <2> QED
    BY <1>1, <2>4, <2>5, <2>6
<1> QED
  BY <1>2, <1>3, InsertElements DEF Once

(* Removing an element keeps the others distinct.                          *)
LEMMA RemoveOnce ==
  ASSUME NEW S, NEW list \in Seq(S), NEW p \in 1..Len(list), Once(list)
  PROVE  RemoveAt(list, p) \in Seq(S) /\ Once(RemoveAt(list, p))
<1>1. Len(list) \in Nat /\ DOMAIN list = 1..Len(list)
  OBVIOUS
<1>2. DOMAIN RemoveAt(list, p) = 1..(Len(list) - 1)
  BY <1>1, RemoveElements DEF Removed
<1>3. ASSUME NEW i \in 1..(Len(list) - 1), NEW j \in 1..(Len(list) - 1),
             RemoveAt(list, p)[i] = RemoveAt(list, p)[j]
      PROVE  i = j
  <2> DEFINE at(k) == IF k < p THEN list[k] ELSE list[k + 1]
  <2>1. at(i) = at(j)
    BY <1>3, RemoveElements DEF Removed
  <2>2. \A k, m \in 1..Len(list) : list[k] = list[m] => k = m
    BY <1>1 DEF Once
  <2>3. CASE i < p
    BY <1>1, <2>1, <2>2, <2>3
  <2>4. CASE i >= p
    BY <1>1, <2>1, <2>2, <2>4
  <2> QED
    BY <1>1, <2>3, <2>4
<1> QED
  BY <1>2, <1>3, RemoveElements DEF Once

(* The first element of a list of distinct elements is not in the rest.    *)
LEMMA TailOnce ==
  ASSUME NEW S, NEW list \in Seq(S), list # <<>>, Once(list)
  PROVE  /\ Head(list) \in S
         /\ Tail(list) \in Seq(S)
         /\ Len(Tail(list)) = Len(list) - 1
         /\ Once(Tail(list))
         /\ \A i \in DOMAIN Tail(list) : Tail(list)[i] # Head(list)
<1>1. /\ Len(list) \in Nat
      /\ Len(list) > 0
      /\ DOMAIN list = 1..Len(list)
  OBVIOUS
<1>2. /\ Tail(list) \in Seq(S)
      /\ Len(Tail(list)) = Len(list) - 1
      /\ DOMAIN Tail(list) = 1..(Len(list) - 1)
      /\ \A i \in 1..(Len(list) - 1) : Tail(list)[i] = list[i + 1]
  BY <1>1
<1>3. Head(list) = list[1]
  BY <1>1
<1> QED
  BY <1>1, <1>2, <1>3 DEF Once

-------------------------------------------------------------------------------
(* The invariant of the list.                                              *)
ListInv == timers \in Seq(Timers) /\ ListedOnce

(* A step of the timers keeps the list a list of distinct timers.          *)
LEMMA ListStep == ListInv /\ [Next]_vars => ListInv'
<1> SUFFICES ASSUME ListInv, [Next]_vars
             PROVE  ListInv'
  OBVIOUS
<1>1. timers \in Seq(Timers) /\ Once(timers)
  BY DEF ListInv, ListedOnce, Once
<1>2. ASSUME timers' \in Seq(Timers), Once(timers')
      PROVE  ListInv'
  BY <1>2 DEF ListInv, ListedOnce, Once
<1>3. CASE Start
  <2>1. PICK t \in Timers :
          \E interval \in Intervals[t] : SYS_TimerStart(t, interval)
    BY <1>3 DEF Start
  <2>2. ~Started(t)
    BY <2>1 DEF SYS_TimerStart
  <2>3. PICK p \in 0..Len(timers) : timers' = InsertAt(timers, p + 1, t)
    BY <2>1 DEF SYS_TimerStart, Place
  <2> QED
    BY <1>1, <1>2, <2>2, <2>3, InsertOnce DEF Started
<1>4. CASE Stop
  <2>1. PICK i \in DOMAIN timers : timers' = RemoveAt(timers, i)
    BY <1>4 DEF Stop, SYS_TimerStop
  <2>2. i \in 1..Len(timers)
    BY <1>1
  <2> QED
    BY <1>1, <1>2, <2>1, <2>2, RemoveOnce
<1>5. CASE Expire
  <2> DEFINE t == Head(timers)
             rest == Tail(timers)
  <2>1. timers # <<>>
    BY <1>5 DEF Expire, Expired
  <2>2. /\ t \in Timers
        /\ rest \in Seq(Timers)
        /\ Len(rest) = Len(timers) - 1
        /\ Once(rest)
        /\ \A i \in DOMAIN rest : rest[i] # t
    BY <1>1, <2>1, TailOnce
  <2>3. \/ timers' = rest
        \/ \E p \in 0..Len(rest) : timers' = InsertAt(rest, p + 1, t)
    BY <1>5, <2>2 DEF Expire, Place
  <2> HIDE DEF t, rest
  <2> QED
    BY <1>2, <2>2, <2>3, InsertOnce
<1>6. CASE Tick \/ TakeTicks \/ HandlerReturns \/ Finish \/ UNCHANGED vars
  BY <1>1, <1>2, <1>6 DEF Tick, TakeTicks, HandlerReturns, Finish, vars
<1> QED
  BY <1>3, <1>4, <1>5, <1>6 DEF Next

(* No timer is ever in the list twice: a timer that is started again by    *)
(* its own handler, or by anyone while it runs, stays where it is          *)
(* (SYS_TimerStart(), SYS_TimerTaskHandler()).                             *)
THEOREM NoTimerTwice == Spec => []ListedOnce
<1>1. Init => ListInv
  BY DEF Init, ListInv, ListedOnce
<1>2. ListInv => ListedOnce
  BY DEF ListInv
<1> QED
  BY <1>1, <1>2, ListStep, PTL DEF Spec

-------------------------------------------------------------------------------
(* The time from now to a deadline is a sum over the list.  Every set of   *)
(* numbers that is not empty has a least one, so that what holds at 0 and  *)
(* one position further holds along a list.                                *)
LEMMA LeastNumber ==
  ASSUME NEW T \in SUBSET Nat, T # {}
  PROVE  \E n \in T : \A k \in T : n <= k
<1> DEFINE R == {ss \in Nat \X Nat : ss[1] < ss[2]}
<1>1. IsWellFoundedOn(R, Nat)
  BY NatLessThanWellFounded DEF OpToRel
<1>2. PICK n \in T : \A k \in T : ~(<<k, n>> \in R)
  BY <1>1, WFMin
<1>3. \A k \in T : ~(k < n)
  BY <1>2
<1> QED
  BY <1>3

IsSum(s, list, times, len) ==
  s = [i \in 0..len |-> IF i = 0 THEN 0 ELSE s[i - 1] + times[list[i]]]

(* The recursive function exists: a sum can be made one step longer.       *)
LEMMA SumExists ==
  ASSUME NEW list, NEW times, NEW len \in Nat
  PROVE  \E s : IsSum(s, list, times, len)
<1> DEFINE T == {k \in Nat : ~\E s : IsSum(s, list, times, k)}
<1> SUFFICES ASSUME T # {}
             PROVE  FALSE
  OBVIOUS
<1>1. PICK k \in T : \A j \in T : k <= j
  BY LeastNumber
<1>2. CASE k = 0
  <2>1. IsSum([i \in 0..0 |-> 0], list, times, 0)
    BY DEF IsSum
  <2> QED
    BY <1>2, <2>1
<1>3. CASE k # 0
  <2>1. k - 1 \in Nat /\ ~(k <= k - 1)
    BY <1>3
  <2>2. PICK s : IsSum(s, list, times, k - 1)
    BY <1>1, <2>1
  <2> DEFINE more == [i \in 0..k |-> IF i = k THEN s[k - 1] + times[list[k]] ELSE s[i]]
  <2>3. \A i \in 0..(k - 1) : more[i] = s[i]
    BY <1>1
  <2>4. ASSUME NEW i \in 0..k
        PROVE  more[i] = IF i = 0 THEN 0 ELSE more[i - 1] + times[list[i]]
    <3>1. CASE i = k
      BY <1>3, <2>1, <2>3, <3>1
    <3>2. CASE i # k
      <4>1. i \in 0..(k - 1) /\ (i # 0 => i - 1 \in 0..(k - 1))
        BY <3>2, <1>1
      <4> HIDE DEF more
      <4>2. s[i] = IF i = 0 THEN 0 ELSE s[i - 1] + times[list[i]]
        BY <2>2, <4>1 DEF IsSum
      <4> QED
        BY <2>3, <4>1, <4>2
    <3> QED
      BY <3>1, <3>2
  <2>5. IsSum(more, list, times, k)
    BY <2>4 DEF IsSum
  <2> QED
    BY <2>5
<1> QED
  BY <1>2, <1>3

LEMMA DueSteps ==
  ASSUME NEW list \in Seq(Timers), NEW times
  PROVE  /\ Due(list, times, 0) = 0
         /\ \A p \in 1..Len(list) :
              Due(list, times, p) = Due(list, times, p - 1) + times[list[p]]
<1>1. Len(list) \in Nat
  OBVIOUS
<1> DEFINE sums == CHOOSE s : IsSum(s, list, times, Len(list))
<1>2. IsSum(sums, list, times, Len(list))
  BY <1>1, SumExists
<1>3. \A p : Due(list, times, p) = sums[p]
  BY DEF Due, IsSum
<1> HIDE DEF sums
<1>4. sums = [i \in 0..Len(list) |-> IF i = 0 THEN 0 ELSE sums[i - 1] + times[list[i]]]
  BY <1>2 DEF IsSum
<1>5. sums[0] = 0 /\ \A p \in 1..Len(list) : sums[p] = sums[p - 1] + times[list[p]]
  BY <1>1, <1>4
<1> QED
  BY <1>3, <1>5

(* With no timeout negative, deadlines come one after the other.           *)
LEMMA DueGrows ==
  ASSUME NEW list \in Seq(Timers), NEW times \in [Timers -> Nat]
  PROVE  /\ \A p \in 0..Len(list) : Due(list, times, p) \in Nat
         /\ \A p \in 1..Len(list) : times[list[1]] <= Due(list, times, p)
<1>1. Len(list) \in Nat /\ \A p \in 1..Len(list) : times[list[p]] \in Nat
  OBVIOUS
<1> DEFINE Good(p) == /\ Due(list, times, p) \in Nat
                      /\ p > 0 => times[list[1]] <= Due(list, times, p)
           T == {p \in 0..Len(list) : ~Good(p)}
<1> SUFFICES ASSUME T # {}
             PROVE  FALSE
  <2>1. \A p \in 1..Len(list) : p \in 0..Len(list) /\ p > 0
    BY <1>1
  <2> QED
    BY <2>1
<1>2. T \in SUBSET Nat
  BY <1>1
<1>3. PICK p \in T : \A q \in T : p <= q
  BY <1>2, LeastNumber
<1>4. p \in 0..Len(list) /\ ~Good(p)
  BY <1>3
<1>5. CASE p = 0
  BY <1>4, <1>5, DueSteps
<1>6. CASE p # 0
  <2>1. p \in 1..Len(list) /\ p - 1 \in 0..Len(list) /\ ~(p <= p - 1)
    BY <1>1, <1>4, <1>6
  <2>2. Good(p - 1)
    BY <1>3, <2>1
  <2>3. Due(list, times, p) = Due(list, times, p - 1) + times[list[p]]
    BY <2>1, DueSteps
  <2>4. p - 1 = 0 => Due(list, times, p) = times[list[1]]
    BY <1>1, <2>1, <2>3, DueSteps
  <2> QED
    BY <1>1, <1>4, <2>1, <2>2, <2>3, <2>4
<1> QED
  BY <1>5, <1>6

(* Two lists that go on with the same timeouts keep their distance.        *)
SameTimeouts(l, times, a, m, after, b, n) ==
  /\ a + n <= Len(l)
  /\ b + n <= Len(m)
  /\ \A i \in 1..n : after[m[b + i]] = times[l[a + i]]

Apart(l, times, a, m, after, b, d) == Due(m, after, b) = Due(l, times, a) + d

LEMMA DueAlong ==
  ASSUME NEW l \in Seq(Timers), NEW times \in [Timers -> Nat],
         NEW m \in Seq(Timers), NEW after \in [Timers -> Nat],
         NEW a \in 0..Len(l), NEW b \in 0..Len(m), NEW d \in Int, NEW n \in Nat,
         SameTimeouts(l, times, a, m, after, b, n),
         Apart(l, times, a, m, after, b, d)
  PROVE  \A i \in 0..n : Apart(l, times, a + i, m, after, b + i, d)
<1>1. /\ Len(l) \in Nat /\ Len(m) \in Nat
      /\ a + n <= Len(l) /\ b + n <= Len(m)
      /\ \A i \in 1..n : after[m[b + i]] = times[l[a + i]]
      /\ Due(m, after, b) = Due(l, times, a) + d
  BY DEF SameTimeouts, Apart
<1> DEFINE T == {i \in 0..n : Due(m, after, b + i) # Due(l, times, a + i) + d}
<1> SUFFICES ASSUME T # {}
             PROVE  FALSE
  BY DEF Apart
<1>2. T \in SUBSET Nat
  OBVIOUS
<1>3. PICK i \in T : \A j \in T : i <= j
  BY <1>2, LeastNumber
<1>4. i \in 0..n /\ Due(m, after, b + i) # Due(l, times, a + i) + d
  BY <1>3
<1>5. i # 0
  BY <1>1, <1>4
<1>6. i \in 1..n /\ i - 1 \in 0..n /\ ~(i <= i - 1)
  BY <1>4, <1>5
<1>7. Due(m, after, b + (i - 1)) = Due(l, times, a + (i - 1)) + d
  BY <1>3, <1>6
<1> HIDE DEF T
<1>8. /\ a + i \in 1..Len(l) /\ (a + i) - 1 = a + (i - 1)
      /\ b + i \in 1..Len(m) /\ (b + i) - 1 = b + (i - 1)
      /\ a + (i - 1) \in 0..Len(l)
  <2>1. /\ a \in Nat /\ b \in Nat /\ n \in Nat /\ i \in Nat /\ 1 <= i /\ i <= n
        /\ a + n <= Len(l) /\ b + n <= Len(m)
    BY <1>1, <1>6
  <2> DEFINE long == Len(l)
             other == Len(m)
  <2>2. long \in Nat /\ other \in Nat /\ a + n <= long /\ b + n <= other
    BY <1>1, <2>1
  <2> HIDE DEF long, other
  <2>3. /\ a + i \in 1..long /\ (a + i) - 1 = a + (i - 1)
        /\ b + i \in 1..other /\ (b + i) - 1 = b + (i - 1)
        /\ a + (i - 1) \in 0..long
    BY <2>1, <2>2
  <2> QED
    BY <2>3 DEF long, other
<1>9. /\ Due(l, times, a + i) = Due(l, times, a + (i - 1)) + times[l[a + i]]
      /\ Due(m, after, b + i) = Due(m, after, b + (i - 1)) + after[m[b + i]]
  BY <1>8, DueSteps
<1>10. /\ Due(l, times, a + (i - 1)) \in Nat
       /\ times[l[a + i]] \in Nat
       /\ after[m[b + i]] = times[l[a + i]]
  <2>1. Due(l, times, a + (i - 1)) \in Nat
    BY <1>8, DueGrows
  <2>2. l[a + i] \in Timers
    BY <1>8
  <2> QED
    BY <1>1, <1>6, <2>1, <2>2
<1> QED
  BY <1>4, <1>7, <1>9, <1>10

(* Left(), of a list.                                                      *)
LeftOf(list, times, u) ==
  IF \E i \in DOMAIN list : list[i] = u
  THEN Due(list, times, CHOOSE i \in DOMAIN list : list[i] = u)
  ELSE OFF

LEMMA LeftOfListed ==
  ASSUME NEW list \in Seq(Timers), Once(list), NEW times \in [Timers -> Nat],
         NEW i \in 1..Len(list)
  PROVE  LeftOf(list, times, list[i]) = Due(list, times, i)
<1> DEFINE j == CHOOSE k \in DOMAIN list : list[k] = list[i]
<1>1. i \in DOMAIN list
  OBVIOUS
<1>2. j \in DOMAIN list /\ list[j] = list[i]
  BY <1>1
<1>3. j = i
  BY <1>1, <1>2 DEF Once
<1> QED
  BY <1>1, <1>3 DEF LeftOf

LEMMA LeftOfType ==
  ASSUME NEW list \in Seq(Timers), Once(list), NEW times \in [Timers -> Nat],
         NEW u \in Timers
  PROVE  /\ (\E i \in DOMAIN list : list[i] = u) => LeftOf(list, times, u) \in Nat
         /\ (~\E i \in DOMAIN list : list[i] = u) => LeftOf(list, times, u) = OFF
<1>1. ASSUME NEW i \in DOMAIN list, list[i] = u
      PROVE  LeftOf(list, times, u) \in Nat
  <2>1. i \in 1..Len(list) /\ i \in 0..Len(list)
    BY <1>1
  <2>2. LeftOf(list, times, list[i]) = Due(list, times, i)
    BY <2>1, LeftOfListed
  <2> QED
    BY <1>1, <2>1, <2>2, DueGrows
<1> QED
  BY <1>1 DEF LeftOf

(* The timeouts that placeTimer() leaves behind.                           *)
Placed(after, list, times, t, interval, p) ==
  /\ Due(list, times, p) <= interval
  /\ p < Len(list) => interval < Due(list, times, p + 1)
  /\ after = [u \in Timers |->
                IF u = t THEN interval - Due(list, times, p)
                ELSE IF p < Len(list) /\ u = list[p + 1]
                     THEN times[u] - (interval - Due(list, times, p))
                     ELSE times[u]]

(* A timer that is placed gets its interval, and no other notices.         *)
LEMMA PlaceLeft ==
  ASSUME NEW list \in Seq(Timers), Once(list), NEW times \in [Timers -> Nat],
         NEW t \in Timers, \A i \in DOMAIN list : list[i] # t,
         NEW interval \in Nat, NEW p \in 0..Len(list),
         NEW after, Placed(after, list, times, t, interval, p)
  PROVE  /\ after \in [Timers -> Nat]
         /\ \A u \in Timers :
              LeftOf(InsertAt(list, p + 1, t), after, u) =
                IF u = t THEN interval ELSE LeftOf(list, times, u)
<1> DEFINE new == InsertAt(list, p + 1, t)
           rest == interval - Due(list, times, p)
<1>1. Len(list) \in Nat /\ DOMAIN list = 1..Len(list)
  OBVIOUS
<1>2. \A i \in 1..Len(list) : list[i] \in Timers /\ list[i] # t /\ times[list[i]] \in Nat
  BY <1>1
<1>3. \A i, j \in 1..Len(list) : list[i] = list[j] => i = j
  BY <1>1 DEF Once
<1>4. /\ new \in Seq(Timers)
      /\ Len(new) = Len(list) + 1
      /\ \A i \in 1..(Len(list) + 1) :
           new[i] = IF i <= p THEN list[i] ELSE IF i = p + 1 THEN t ELSE list[i - 1]
  BY InsertElements DEF Inserted
<1>5. Once(new)
  BY InsertOnce
<1>0. /\ Due(list, times, p) <= interval
      /\ p < Len(list) => interval < Due(list, times, p + 1)
      /\ after = [u \in Timers |->
                    IF u = t THEN rest
                    ELSE IF p < Len(list) /\ u = list[p + 1] THEN times[u] - rest
                    ELSE times[u]]
  BY DEF Placed
<1>6. Due(list, times, p) \in Nat /\ rest \in Nat
  BY <1>0, DueGrows
<1>7. p < Len(list) =>
        /\ Due(list, times, p + 1) = Due(list, times, p) + times[list[p + 1]]
        /\ times[list[p + 1]] - rest \in Nat
        /\ after[list[p + 1]] = times[list[p + 1]] - rest
  <2> SUFFICES ASSUME p < Len(list)
               PROVE  /\ Due(list, times, p + 1) = Due(list, times, p) + times[list[p + 1]]
                      /\ times[list[p + 1]] - rest \in Nat
                      /\ after[list[p + 1]] = times[list[p + 1]] - rest
    OBVIOUS
  <2>1. p + 1 \in 1..Len(list) /\ (p + 1) - 1 = p
    BY <1>1
  <2>2. Due(list, times, p + 1) = Due(list, times, p) + times[list[p + 1]]
    BY <2>1, DueSteps
  <2>3. times[list[p + 1]] - rest \in Nat
    BY <1>0, <1>2, <1>6, <2>1, <2>2
  <2>4. list[p + 1] \in Timers /\ list[p + 1] # t
    BY <1>2, <2>1
  <2> QED
    BY <1>0, <2>2, <2>3, <2>4
<1>8. after[t] = rest /\ \A u \in Timers : after[u] \in Nat
  BY <1>0, <1>6, <1>7
<1>9. after \in [Timers -> Nat]
  BY <1>0, <1>8
<1>10. \A i \in 1..Len(list) : i # p + 1 => after[list[i]] = times[list[i]]
  <2> SUFFICES ASSUME NEW i \in 1..Len(list), i # p + 1
               PROVE  after[list[i]] = times[list[i]]
    OBVIOUS
  <2>1. p < Len(list) => list[i] # list[p + 1]
    BY <1>1, <1>3
  <2> QED
    BY <1>0, <1>2, <2>1
<1> HIDE DEF new, rest
<1> DEFINE n == Len(list)
<1>a. /\ n \in Nat /\ p \in Nat /\ p <= n
      /\ Len(list) = n /\ Len(new) = n + 1
  BY <1>1, <1>4
<1>b. \A i \in 1..(n + 1) :
        new[i] = IF i <= p THEN list[i] ELSE IF i = p + 1 THEN t ELSE list[i - 1]
  BY <1>4
<1>c. \A i \in 1..n : i # p + 1 => after[list[i]] = times[list[i]]
  BY <1>10
<1> HIDE DEF n
<1>11. \A i \in 0..p : Due(new, after, i) = Due(list, times, i)
  <2>1. \A i \in 1..p : after[new[0 + i]] = times[list[0 + i]]
    <3> SUFFICES ASSUME NEW i \in 1..p
                 PROVE  after[new[0 + i]] = times[list[0 + i]]
      OBVIOUS
    <3>1. 0 + i = i /\ i \in 1..(n + 1) /\ i \in 1..n /\ i <= p /\ i # p + 1
      BY <1>a
    <3>2. new[i] = list[i]
      BY <1>b, <3>1
    <3>3. after[list[i]] = times[list[i]]
      BY <1>c, <3>1
    <3> QED
      BY <3>1, <3>2, <3>3, Zenon
  <2>2. Due(new, after, 0) = Due(list, times, 0) + 0
    BY <1>4, DueSteps
  <2>3. /\ 0 \in 0..Len(list) /\ 0 \in 0..Len(new) /\ p \in Nat /\ 0 \in Int
        /\ 0 + p <= Len(list) /\ 0 + p <= Len(new)
    BY <1>a
  <2>4. \A i \in 0..p : Due(new, after, 0 + i) = Due(list, times, 0 + i) + 0
    <3>1. SameTimeouts(list, times, 0, new, after, 0, p)
      BY <2>1, <2>3 DEF SameTimeouts
    <3>2. Apart(list, times, 0, new, after, 0, 0)
      BY <2>2 DEF Apart
    <3>3. \A i \in 0..p : Apart(list, times, 0 + i, new, after, 0 + i, 0)
      BY <1>4, <1>9, <2>3, <3>1, <3>2, DueAlong
    <3> QED
      BY <3>3 DEF Apart
  <2>5. \A i \in 0..p : Due(list, times, i) \in Nat
    BY <1>1, DueGrows
  <2> QED
    BY <2>4, <2>5
<1>12. Due(new, after, p + 1) = interval
  <2>1. p + 1 \in 1..Len(new) /\ (p + 1) - 1 = p /\ p \in 0..p /\ new[p + 1] = t
    BY <1>1, <1>4
  <2>2. Due(new, after, p + 1) = Due(new, after, p) + after[t]
    BY <1>4, <2>1, DueSteps
  <2> QED
    BY <1>6, <1>8, <1>11, <2>1, <2>2 DEF rest
<1>13. ASSUME p < Len(list)
       PROVE  \A i \in 0..(Len(list) - (p + 1)) :
                Due(new, after, (p + 2) + i) = Due(list, times, (p + 1) + i) + 0
  <2>1. /\ p + 2 \in 1..Len(new) /\ (p + 2) - 1 = p + 1
        /\ new[p + 2] = list[p + 1]
        /\ p + 1 \in 0..Len(list) /\ p + 2 \in 0..Len(new)
        /\ Len(list) - (p + 1) \in Nat
        /\ (p + 1) + (Len(list) - (p + 1)) <= Len(list)
        /\ (p + 2) + (Len(list) - (p + 1)) <= Len(new)
    <3>1. /\ p + 2 \in 1..(n + 1) /\ (p + 2) - 1 = p + 1
          /\ p + 1 \in 0..n /\ p + 2 \in 0..(n + 1)
          /\ n - (p + 1) \in Nat
          /\ (p + 1) + (n - (p + 1)) <= n
          /\ (p + 2) + (n - (p + 1)) <= n + 1
          /\ ~(p + 2 <= p) /\ p + 2 # p + 1
      BY <1>a, <1>13
    <3>2. new[p + 2] = list[p + 1]
      BY <1>b, <3>1
    <3> QED
      BY <1>a, <3>1, <3>2
  <2>2. Due(new, after, p + 2) = Due(new, after, p + 1) + after[list[p + 1]]
    <3>1. Due(new, after, p + 2) = Due(new, after, (p + 2) - 1) + after[new[p + 2]]
      BY <1>4, <2>1, DueSteps
    <3> QED
      BY <2>1, <3>1
  <2>3. Due(new, after, p + 2) = Due(list, times, p + 1) + 0
    BY <1>6, <1>7, <1>12, <1>13, <2>2 DEF rest
  <2>4. ASSUME NEW i \in 1..(Len(list) - (p + 1))
        PROVE  after[new[(p + 2) + i]] = times[list[(p + 1) + i]]
    <3>1. /\ (p + 1) + i \in 1..Len(list) /\ (p + 1) + i # p + 1
          /\ (p + 2) + i \in 1..(n + 1)
          /\ ~((p + 2) + i <= p) /\ (p + 2) + i # p + 1
          /\ ((p + 2) + i) - 1 = (p + 1) + i
          /\ (p + 1) + i \in 1..n
      BY <1>a
    <3>2. new[(p + 2) + i] = list[(p + 1) + i]
      BY <1>b, <3>1
    <3>3. after[list[(p + 1) + i]] = times[list[(p + 1) + i]]
      BY <1>c, <3>1
    <3> QED
      BY <3>2, <3>3
  <2>5. 0 \in Int
    OBVIOUS
  <2>6. SameTimeouts(list, times, p + 1, new, after, p + 2, n - (p + 1))
    BY <1>a, <2>1, <2>4 DEF SameTimeouts
  <2>7. Apart(list, times, p + 1, new, after, p + 2, 0)
    BY <2>3 DEF Apart
  <2>8. n - (p + 1) \in Nat
    BY <1>a, <2>1
  <2>9. \A i \in 0..(n - (p + 1)) :
          Apart(list, times, (p + 1) + i, new, after, (p + 2) + i, 0)
    BY <1>4, <1>9, <2>1, <2>5, <2>6, <2>7, <2>8, DueAlong
  <2> QED
    BY <1>a, <2>9 DEF Apart
<1>14. LeftOf(new, after, t) = interval
  <2>1. p + 1 \in 1..(n + 1) /\ ~(p + 1 <= p)
    BY <1>a
  <2>2. p + 1 \in 1..Len(new) /\ new[p + 1] = t
    BY <1>a, <1>b, <2>1
  <2> QED
    BY <1>4, <1>5, <1>9, <1>12, <2>2, LeftOfListed
<1>15. ASSUME NEW i \in 1..Len(list)
       PROVE  LeftOf(new, after, list[i]) = LeftOf(list, times, list[i])
  <2>1. LeftOf(list, times, list[i]) = Due(list, times, i)
    BY LeftOfListed
  <2>2. CASE i <= p
    <3>1. i \in 0..p /\ i \in 1..Len(new) /\ new[i] = list[i]
      BY <1>1, <1>4, <2>2
    <3> QED
      BY <1>4, <1>5, <1>9, <1>11, <2>1, <3>1, LeftOfListed
  <2>3. CASE i > p
    <3> DEFINE k == i - (p + 1)
    <3>1. /\ k \in 0..(Len(list) - (p + 1)) /\ p < Len(list)
          /\ (p + 1) + k = i /\ (p + 2) + k = i + 1
          /\ i + 1 \in 1..Len(new) /\ new[i + 1] = list[i]
          /\ i \in 0..Len(list)
      <4>1. i \in Nat /\ i <= n
        BY <1>a
      <4>2. /\ k \in 0..(n - (p + 1)) /\ p < n
            /\ (p + 1) + k = i /\ (p + 2) + k = i + 1
            /\ i + 1 \in 1..(n + 1) /\ (i + 1) - 1 = i
            /\ ~(i + 1 <= p) /\ i + 1 # p + 1
            /\ i \in 0..n
        BY <1>a, <2>3, <4>1
      <4>3. new[i + 1] = list[i]
        BY <1>b, <4>2
      <4> HIDE DEF k
      <4> QED
        BY <1>a, <4>2, <4>3
    <3> HIDE DEF k
    <3>2. Due(new, after, i + 1) = Due(list, times, i) + 0
      BY <1>13, <3>1
    <3>3. Due(list, times, i) \in Nat
      BY <3>1, DueGrows
    <3>4. LeftOf(new, after, new[i + 1]) = Due(new, after, i + 1)
      BY <1>4, <1>5, <1>9, <3>1, LeftOfListed
    <3> QED
      BY <2>1, <3>1, <3>2, <3>3, <3>4
  <2> QED
    BY <1>1, <2>2, <2>3
<1>16. ASSUME NEW u \in Timers, u # t, ~\E i \in 1..Len(list) : list[i] = u
       PROVE  LeftOf(new, after, u) = LeftOf(list, times, u)
  <2>1. ~\E i \in DOMAIN new : new[i] = u
    <3>1. DOMAIN new = 1..(Len(list) + 1)
      BY <1>4
    <3>2. ASSUME NEW i \in 1..(Len(list) + 1), new[i] = u
          PROVE  FALSE
      <4>1. (i <= p => i \in 1..Len(list)) /\ (~(i <= p) /\ i # p + 1 => i - 1 \in 1..Len(list))
        BY <1>1
      <4> QED
        BY <1>4, <1>16, <3>2, <4>1
    <3> QED
      BY <3>1, <3>2
  <2> QED
    BY <1>1, <1>16, <2>1 DEF LeftOf
<1>17. ASSUME NEW u \in Timers
       PROVE  LeftOf(new, after, u) = IF u = t THEN interval ELSE LeftOf(list, times, u)
  BY <1>14, <1>15, <1>16
<1> QED
  BY <1>9, <1>17 DEF new

Listed(list, u) == \E i \in DOMAIN list : list[i] = u

LEMMA ListedLeft ==
  ASSUME NEW list \in Seq(Timers), Once(list), NEW times \in [Timers -> Nat],
         NEW u \in Timers
  PROVE  /\ Listed(list, u) => LeftOf(list, times, u) \in Nat
         /\ ~Listed(list, u) => LeftOf(list, times, u) = OFF
BY LeftOfType DEF Listed

(* The timeouts that SYS_TimerStop() leaves behind.                        *)
TakenOver(after, list, times, q) ==
  after = [u \in Timers |->
             IF u = list[q] THEN 0
             ELSE IF q < Len(list) /\ u = list[q + 1]
                  THEN times[u] + times[list[q]]
                  ELSE times[u]]

(* A timer that is stopped has no time left, and no other notices.         *)
LEMMA StopLeft ==
  ASSUME NEW list \in Seq(Timers), Once(list), NEW times \in [Timers -> Nat],
         NEW q \in 1..Len(list), NEW after, TakenOver(after, list, times, q)
  PROVE  /\ after \in [Timers -> Nat]
         /\ \A u \in Timers :
              LeftOf(RemoveAt(list, q), after, u) =
                IF u = list[q] THEN OFF ELSE LeftOf(list, times, u)
<1> DEFINE new == RemoveAt(list, q)
           n == Len(list)
<1>1. /\ n \in Nat /\ q \in Nat /\ 1 <= q /\ q <= n /\ Len(list) = n
      /\ DOMAIN list = 1..n
  OBVIOUS
<1>2. \A i \in 1..n : list[i] \in Timers /\ times[list[i]] \in Nat
  OBVIOUS
<1>3. \A i, j \in 1..n : list[i] = list[j] => i = j
  BY <1>1 DEF Once
<1>4. /\ new \in Seq(Timers)
      /\ Len(new) = n - 1
      /\ \A i \in 1..(n - 1) : new[i] = IF i < q THEN list[i] ELSE list[i + 1]
  BY RemoveElements DEF Removed
<1>5. Once(new)
  BY RemoveOnce
<1> HIDE DEF new, n
<1>0. after = [u \in Timers |->
                 IF u = list[q] THEN 0
                 ELSE IF q < n /\ u = list[q + 1] THEN times[u] + times[list[q]]
                 ELSE times[u]]
  BY <1>1 DEF TakenOver
<1>6. after \in [Timers -> Nat]
  BY <1>0, <1>1, <1>2
<1>7. q < n => after[list[q + 1]] = times[list[q + 1]] + times[list[q]]
  <2> SUFFICES ASSUME q < n
               PROVE  after[list[q + 1]] = times[list[q + 1]] + times[list[q]]
    OBVIOUS
  <2>1. q + 1 \in 1..n /\ q + 1 # q /\ q \in 1..n
    BY <1>1
  <2>2. list[q + 1] \in Timers /\ list[q + 1] # list[q]
    BY <1>2, <1>3, <2>1
  <2> QED
    BY <1>0, <1>1, <2>2
<1>8. \A i \in 1..n : i # q /\ i # q + 1 => after[list[i]] = times[list[i]]
  <2> SUFFICES ASSUME NEW i \in 1..n, i # q, i # q + 1
               PROVE  after[list[i]] = times[list[i]]
    OBVIOUS
  <2>1. list[i] # list[q] /\ (q < n => list[i] # list[q + 1])
    BY <1>1, <1>3
  <2> QED
    BY <1>0, <1>1, <1>2, <2>1
<1>9. \A i \in 0..(q - 1) : Due(new, after, i) = Due(list, times, i)
  <2>1. ASSUME NEW i \in 1..(q - 1)
        PROVE  after[new[0 + i]] = times[list[0 + i]]
    <3>1. 0 + i = i /\ i \in 1..(n - 1) /\ i \in 1..n /\ i < q /\ i # q /\ i # q + 1
      BY <1>1
    <3>2. new[i] = list[i]
      BY <1>4, <3>1
    <3>3. after[list[i]] = times[list[i]]
      BY <1>8, <3>1
    <3> QED
      BY <3>1, <3>2, <3>3, Zenon
  <2>2. Due(new, after, 0) = Due(list, times, 0) + 0
    BY <1>4, DueSteps
  <2>3. /\ 0 \in 0..Len(list) /\ 0 \in 0..Len(new) /\ q - 1 \in Nat /\ 0 \in Int
        /\ 0 + (q - 1) <= Len(list) /\ 0 + (q - 1) <= Len(new)
    <3>1. Len(list) = n /\ Len(new) = n - 1
      BY <1>1, <1>4
    <3> QED
      BY <1>1, <3>1
  <2>4. SameTimeouts(list, times, 0, new, after, 0, q - 1)
    BY <2>1, <2>3 DEF SameTimeouts
  <2>5. Apart(list, times, 0, new, after, 0, 0)
    BY <2>2 DEF Apart
  <2>6. \A i \in 0..(q - 1) : Apart(list, times, 0 + i, new, after, 0 + i, 0)
    BY <1>4, <1>6, <2>3, <2>4, <2>5, DueAlong
  <2>7. ASSUME NEW i \in 0..(q - 1)
        PROVE  Due(new, after, i) = Due(list, times, i)
    <3>1. i \in 0..Len(list) /\ 0 + i = i
      BY <1>1
    <3>2. Due(list, times, i) \in Nat
      BY <3>1, DueGrows
    <3>3. Due(new, after, i) = Due(list, times, i) + 0
      BY <2>6, <3>1 DEF Apart
    <3> QED
      BY <3>2, <3>3
  <2> QED
    BY <2>7
<1>10. ASSUME q < n
       PROVE  \A i \in 0..(n - (q + 1)) :
                Due(new, after, q + i) = Due(list, times, (q + 1) + i) + 0
  <2>1. /\ q \in 1..Len(new) /\ q - 1 \in 0..(q - 1)
        /\ q + 1 \in 1..Len(list) /\ (q + 1) - 1 = q /\ q \in 1..Len(list)
        /\ q + 1 \in 0..Len(list) /\ q \in 0..Len(new) /\ q - 1 \in 0..Len(list)
        /\ n - (q + 1) \in Nat /\ 0 \in Int
        /\ (q + 1) + (n - (q + 1)) <= Len(list)
        /\ q + (n - (q + 1)) <= Len(new)
        /\ q \in 1..(n - 1) /\ ~(q < q)
    BY <1>1, <1>4, <1>10
  <2>2. new[q] = list[q + 1]
    BY <1>4, <2>1
  <2>3. /\ Due(new, after, q) = Due(new, after, q - 1) + after[list[q + 1]]
        /\ Due(list, times, q + 1) = Due(list, times, q) + times[list[q + 1]]
        /\ Due(list, times, q) = Due(list, times, q - 1) + times[list[q]]
    <3>1. Due(new, after, q) = Due(new, after, q - 1) + after[new[q]]
      BY <1>4, <2>1, DueSteps
    <3>2. Due(list, times, q + 1) = Due(list, times, (q + 1) - 1) + times[list[q + 1]]
      BY <2>1, DueSteps
    <3>3. Due(list, times, q) = Due(list, times, q - 1) + times[list[q]]
      BY <2>1, DueSteps
    <3> QED
      BY <2>1, <2>2, <3>1, <3>2, <3>3
  <2>4. Due(new, after, q - 1) = Due(list, times, q - 1) /\ Due(list, times, q - 1) \in Nat
    BY <1>9, <2>1, DueGrows
  <2>5. times[list[q]] \in Nat /\ times[list[q + 1]] \in Nat
    BY <1>1, <1>2, <2>1
  <2>6. Due(new, after, q) = Due(list, times, q + 1) + 0
    BY <1>7, <1>10, <2>3, <2>4, <2>5
  <2>7. ASSUME NEW i \in 1..(n - (q + 1))
        PROVE  after[new[q + i]] = times[list[(q + 1) + i]]
    <3>1. /\ q + i \in 1..(n - 1) /\ ~(q + i < q) /\ (q + i) + 1 = (q + 1) + i
          /\ (q + 1) + i \in 1..n /\ (q + 1) + i # q /\ (q + 1) + i # q + 1
      BY <1>1
    <3>2. new[q + i] = list[(q + 1) + i]
      BY <1>4, <3>1
    <3> QED
      BY <1>8, <3>1, <3>2
  <2>8. SameTimeouts(list, times, q + 1, new, after, q, n - (q + 1))
    BY <2>1, <2>7 DEF SameTimeouts
  <2>9. Apart(list, times, q + 1, new, after, q, 0)
    BY <2>6 DEF Apart
  <2>10. \A i \in 0..(n - (q + 1)) :
          Apart(list, times, (q + 1) + i, new, after, q + i, 0)
    BY <1>4, <1>6, <2>1, <2>8, <2>9, DueAlong
  <2> QED
    BY <2>10 DEF Apart
<1>11. ASSUME NEW i \in 1..n, i # q
       PROVE  LeftOf(new, after, list[i]) = LeftOf(list, times, list[i])
  <2>1. LeftOf(list, times, list[i]) = Due(list, times, i)
    BY <1>1, LeftOfListed
  <2>2. CASE i < q
    <3>1. i \in 0..(q - 1) /\ i \in 1..(n - 1)
      BY <1>1, <2>2
    <3>2. i \in 1..Len(new) /\ new[i] = list[i]
      BY <1>4, <2>2, <3>1
    <3> QED
      BY <1>4, <1>5, <1>6, <1>9, <2>1, <3>1, <3>2, LeftOfListed
  <2>3. CASE i > q
    <3> DEFINE k == i - (q + 1)
    <3>1. /\ k \in 0..(n - (q + 1)) /\ q < n
          /\ (q + 1) + k = i /\ q + k = i - 1
          /\ i - 1 \in 1..(n - 1) /\ (i - 1) + 1 = i /\ ~(i - 1 < q)
          /\ i \in 0..Len(list)
      BY <1>1, <1>11, <2>3
    <3> HIDE DEF k
    <3>2. Due(new, after, i - 1) = Due(list, times, i) + 0
      BY <1>10, <3>1
    <3>3. Due(list, times, i) \in Nat
      BY <3>1, DueGrows
    <3>4. new[i - 1] = list[i] /\ i - 1 \in 1..Len(new)
      BY <1>4, <3>1
    <3>5. LeftOf(new, after, new[i - 1]) = Due(new, after, i - 1)
      BY <1>4, <1>5, <1>6, <3>4, LeftOfListed
    <3> QED
      BY <2>1, <3>2, <3>3, <3>4, <3>5
  <2> QED
    BY <1>1, <1>11, <2>2, <2>3
<1>12. ASSUME NEW u \in Timers, \A i \in 1..n : i # q => list[i] # u
       PROVE  LeftOf(new, after, u) = OFF
  <2>1. DOMAIN new = 1..(n - 1)
    BY <1>1, <1>4
  <2>2. ASSUME NEW i \in 1..(n - 1), new[i] = u
        PROVE  FALSE
    <3>1. i \in 1..n /\ i + 1 \in 1..n /\ (i < q => i # q) /\ (~(i < q) => i + 1 # q)
      BY <1>1
    <3> QED
      BY <1>4, <1>12, <2>2, <3>1
  <2> QED
    BY <2>1, <2>2 DEF LeftOf
<1>13. ASSUME NEW u \in Timers
       PROVE  LeftOf(new, after, u) = IF u = list[q] THEN OFF ELSE LeftOf(list, times, u)
  <2>1. CASE u = list[q]
    <3>1. \A i \in 1..n : i # q => list[i] # u
      BY <1>1, <1>3, <2>1
    <3> QED
      BY <1>12, <2>1, <3>1
  <2>2. CASE \E i \in 1..n : i # q /\ list[i] = u
    <3>1. PICK i \in 1..n : i # q /\ list[i] = u
      BY <2>2
    <3>2. u # list[q]
      BY <1>1, <1>3, <3>1
    <3> QED
      BY <1>11, <3>1, <3>2
  <2>3. CASE ~\E i \in 1..n : list[i] = u
    <3>1. u # list[q] /\ \A i \in 1..n : i # q => list[i] # u
      BY <1>1, <2>3
    <3>2. LeftOf(list, times, u) = OFF
      BY <1>1, <2>3 DEF LeftOf
    <3> QED
      BY <1>12, <3>1, <3>2
  <2> QED
    BY <2>1, <2>2, <2>3
<1> QED
  BY <1>6, <1>13 DEF new

(* Behind the first timer, the others have its timeout less to go.         *)
LEMMA TailLeft ==
  ASSUME NEW list \in Seq(Timers), list # <<>>, Once(list),
         NEW times \in [Timers -> Nat], NEW after \in [Timers -> Nat],
         \A u \in Timers : u # Head(list) => after[u] = times[u]
  PROVE  \A u \in Timers :
           LeftOf(Tail(list), after, u) =
             IF Listed(list, u) /\ u # Head(list)
             THEN LeftOf(list, times, u) - times[Head(list)]
             ELSE OFF
<1> DEFINE new == Tail(list)
           n == Len(list)
<1>1. n \in Nat /\ 1 <= n /\ Len(list) = n /\ DOMAIN list = 1..n /\ Head(list) = list[1]
  OBVIOUS
<1>2. \A i \in 1..n : list[i] \in Timers /\ times[list[i]] \in Nat
  OBVIOUS
<1>3. \A i, j \in 1..n : list[i] = list[j] => i = j
  BY <1>1 DEF Once
<1>4. /\ new \in Seq(Timers)
      /\ Len(new) = n - 1
      /\ \A i \in 1..(n - 1) : new[i] = list[i + 1]
  BY <1>1
<1>5. Once(new)
  BY TailOnce
<1> HIDE DEF new, n
<1> DEFINE d == -times[list[1]]
<1>6. d \in Int /\ times[list[1]] \in Nat
  BY <1>1, <1>2
<1>7. \A i \in 0..(n - 1) : Due(new, after, 0 + i) = Due(list, times, 1 + i) + d
  <2>1. ASSUME NEW i \in 1..(n - 1)
        PROVE  after[new[0 + i]] = times[list[1 + i]]
    <3>1. 0 + i = i /\ 1 + i = i + 1 /\ i + 1 \in 1..n /\ i + 1 # 1 /\ 1 \in 1..n
      BY <1>1
    <3>2. new[i] = list[i + 1] /\ list[i + 1] # list[1] /\ list[i + 1] \in Timers
      BY <1>2, <1>3, <1>4, <3>1
    <3> QED
      BY <1>1, <3>1, <3>2
  <2>2. Len(list) = n /\ Len(new) = n - 1
    BY <1>1, <1>4
  <2>3. /\ 1 \in 0..Len(list) /\ 0 \in 0..Len(new) /\ n - 1 \in Nat
        /\ 1 + (n - 1) <= Len(list) /\ 0 + (n - 1) <= Len(new)
        /\ 1 \in 1..Len(list)
    BY <1>1, <2>2
  <2>4. Due(new, after, 0) = 0
    BY <1>4, DueSteps
  <2>5. Due(list, times, 1) = times[list[1]]
    BY <1>6, <2>3, DueSteps
  <2>6. SameTimeouts(list, times, 1, new, after, 0, n - 1)
    BY <2>1, <2>3 DEF SameTimeouts
  <2>7. Apart(list, times, 1, new, after, 0, d)
    BY <1>6, <2>4, <2>5 DEF Apart
  <2> HIDE DEF d
  <2>8. \A i \in 0..(n - 1) : Apart(list, times, 1 + i, new, after, 0 + i, d)
    BY <1>4, <1>6, <2>3, <2>6, <2>7, DueAlong
  <2> QED
    BY <2>8 DEF Apart
<1>8. ASSUME NEW i \in 1..n, i # 1
      PROVE  LeftOf(new, after, list[i]) = LeftOf(list, times, list[i]) - times[list[1]]
  <2>1. LeftOf(list, times, list[i]) = Due(list, times, i)
    BY <1>1, LeftOfListed
  <2>2. /\ i - 1 \in 0..(n - 1) /\ 0 + (i - 1) = i - 1 /\ 1 + (i - 1) = i
        /\ i - 1 \in 1..(n - 1) /\ (i - 1) + 1 = i /\ i \in 0..n
    BY <1>1, <1>8
  <2>3. Due(new, after, i - 1) = Due(list, times, i) + d
    BY <1>7, <2>2
  <2>4. Due(list, times, i) \in Nat
    BY <1>1, <2>2, DueGrows
  <2>5. new[i - 1] = list[i] /\ i - 1 \in 1..Len(new)
    BY <1>4, <2>2
  <2>6. LeftOf(new, after, new[i - 1]) = Due(new, after, i - 1)
    BY <1>4, <1>5, <2>5, LeftOfListed
  <2> QED
    BY <1>6, <2>1, <2>3, <2>4, <2>5, <2>6
<1>9. ASSUME NEW u \in Timers, \A i \in 1..n : i # 1 => list[i] # u
      PROVE  LeftOf(new, after, u) = OFF
  <2>1. DOMAIN new = 1..(n - 1)
    BY <1>1, <1>4
  <2>2. ASSUME NEW i \in 1..(n - 1), new[i] = u
        PROVE  FALSE
    <3>1. i + 1 \in 1..n /\ i + 1 # 1
      BY <1>1
    <3> QED
      BY <1>4, <1>9, <2>2, <3>1
  <2> QED
    BY <2>1, <2>2 DEF LeftOf
<1>10. ASSUME NEW u \in Timers
       PROVE  LeftOf(new, after, u) =
                IF Listed(list, u) /\ u # list[1]
                THEN LeftOf(list, times, u) - times[list[1]]
                ELSE OFF
  <2>1. CASE Listed(list, u) /\ u # list[1]
    <3>1. PICK i \in 1..n : list[i] = u
      BY <1>1, <2>1 DEF Listed
    <3> QED
      BY <1>8, <2>1, <3>1
  <2>2. CASE ~(Listed(list, u) /\ u # list[1])
    <3>1. 1 \in 1..n
      BY <1>1
    <3>2. \A i \in 1..n : i # 1 => list[i] # u
      BY <1>1, <1>3, <2>2, <3>1 DEF Listed
    <3> QED
      BY <1>9, <2>2, <3>2
  <2> QED
    BY <2>1, <2>2
<1> QED
  BY <1>1, <1>10 DEF new

(* When time is taken off the first timer, all have that much less to go.  *)
LEMMA FinishLeft ==
  ASSUME NEW list \in Seq(Timers), Once(list), NEW times \in [Timers -> Nat],
         NEW d \in Nat, list # <<>> => d <= times[Head(list)], NEW after,
         after = [u \in Timers |->
                    IF list # <<>> /\ u = Head(list) THEN times[u] - d ELSE times[u]]
  PROVE  /\ after \in [Timers -> Nat]
         /\ \A u \in Timers :
              LeftOf(list, after, u) =
                IF Listed(list, u) THEN LeftOf(list, times, u) - d ELSE OFF
<1> DEFINE n == Len(list)
<1>1. /\ n \in Nat /\ Len(list) = n /\ DOMAIN list = 1..n
      /\ 1 <= n => list # <<>> /\ Head(list) = list[1]
      /\ list # <<>> => 1 <= n
  OBVIOUS
<1>2. \A i \in 1..n : list[i] \in Timers /\ times[list[i]] \in Nat
  OBVIOUS
<1>3. \A i, j \in 1..n : list[i] = list[j] => i = j
  BY <1>1 DEF Once
<1> HIDE DEF n
<1>4. after \in [Timers -> Nat]
  <2>1. list # <<>> => Head(list) \in Timers
    BY <1>1, <1>2
  <2> QED
    BY <2>1
<1>5. 1 <= n => after[list[1]] = times[list[1]] - d
  BY <1>1, <1>2
<1>6. \A i \in 1..n : i # 1 => after[list[i]] = times[list[i]]
  BY <1>1, <1>2, <1>3
<1>7. ASSUME 1 <= n
      PROVE  \A i \in 0..(n - 1) : Due(list, after, 1 + i) = Due(list, times, 1 + i) + (-d)
  <2>1. \A i \in 1..(n - 1) : after[list[1 + i]] = times[list[1 + i]]
    <3>1. \A i \in 1..(n - 1) : 1 + i \in 1..n /\ 1 + i # 1
      BY <1>1
    <3> QED
      BY <1>6, <3>1
  <2>2. /\ 1 \in 0..Len(list) /\ n - 1 \in Nat /\ 1 + (n - 1) <= Len(list)
        /\ 1 \in 1..Len(list) /\ -d \in Int
    BY <1>1, <1>7
  <2>3. /\ Due(list, times, 1) = times[list[1]] /\ times[list[1]] \in Nat
        /\ Due(list, after, 1) = after[list[1]] /\ after[list[1]] \in Nat
    <3>1. list[1] \in Timers
      BY <1>1, <1>2, <2>2
    <3> QED
      BY <1>4, <2>2, <3>1, DueSteps
  <2>4. SameTimeouts(list, times, 1, list, after, 1, n - 1)
    BY <2>1, <2>2 DEF SameTimeouts
  <2>5. Apart(list, times, 1, list, after, 1, -d)
    BY <1>5, <1>7, <2>3 DEF Apart
  <2>6. \A i \in 0..(n - 1) : Apart(list, times, 1 + i, list, after, 1 + i, -d)
    BY <1>4, <2>2, <2>4, <2>5, DueAlong
  <2> QED
    BY <2>6 DEF Apart
<1>8. ASSUME NEW u \in Timers, Listed(list, u)
      PROVE  LeftOf(list, after, u) = LeftOf(list, times, u) - d
  <2>1. PICK i \in 1..n : list[i] = u
    BY <1>1, <1>8 DEF Listed
  <2>2. 1 <= n /\ i - 1 \in 0..(n - 1) /\ 1 + (i - 1) = i /\ i \in 0..n
    BY <1>1
  <2>3. Due(list, after, i) = Due(list, times, i) + (-d)
    BY <1>7, <2>2
  <2>4. Due(list, times, i) \in Nat
    BY <1>1, <2>2, DueGrows
  <2>5. LeftOf(list, times, u) = Due(list, times, i)
    BY <1>1, <2>1, LeftOfListed
  <2>6. LeftOf(list, after, u) = Due(list, after, i)
    BY <1>1, <1>4, <2>1, LeftOfListed
  <2> QED
    BY <2>3, <2>4, <2>5, <2>6
<1>9. ASSUME NEW u \in Timers, ~Listed(list, u)
      PROVE  LeftOf(list, after, u) = OFF
  BY <1>9 DEF LeftOf, Listed
<1> QED
  BY <1>4, <1>8, <1>9

(* The first timer has its own timeout to go, and none has less.           *)
LEMMA HeadLeft ==
  ASSUME NEW list \in Seq(Timers), list # <<>>, Once(list),
         NEW times \in [Timers -> Nat]
  PROVE  /\ LeftOf(list, times, Head(list)) = times[Head(list)]
         /\ \A u \in Timers :
              Listed(list, u) => times[Head(list)] <= LeftOf(list, times, u)
<1> DEFINE n == Len(list)
<1>1. n \in Nat /\ 1 <= n /\ Len(list) = n /\ DOMAIN list = 1..n /\ Head(list) = list[1]
  OBVIOUS
<1>2. 1 \in 1..n /\ list[1] \in Timers
  BY <1>1
<1> HIDE DEF n
<1>3. Due(list, times, 1) = times[list[1]]
  <2>1. 1 \in 1..Len(list)
    BY <1>1, <1>2
  <2> QED
    BY <1>2, <2>1, DueSteps
<1>4. LeftOf(list, times, list[1]) = Due(list, times, 1)
  BY <1>1, <1>2, LeftOfListed
<1>5. ASSUME NEW i \in 1..n
      PROVE  times[list[1]] <= LeftOf(list, times, list[i])
  <2>1. LeftOf(list, times, list[i]) = Due(list, times, i)
    BY <1>1, LeftOfListed
  <2> QED
    BY <1>1, <2>1, DueGrows
<1> QED
  BY <1>1, <1>3, <1>4, <1>5 DEF Listed

-------------------------------------------------------------------------------
(* The list implements the deadlines.                                      *)
LInv ==
  /\ timers \in Seq(Timers)
  /\ Once(timers)
  /\ timeout \in [Timers -> Nat]
  /\ irqCount \in 0..PassTicks
  /\ elapsed \in Nat
  /\ ~inHandler => elapsed = 0
  /\ \A u \in Timers : Listed(timers, u) => Intervals[u] # {}

(* What the deadlines are, in one state and in the next.                   *)
Lefts == [u \in Timers |-> LeftOf(timers, timeout, u)]
LeftsNext == [u \in Timers |-> LeftOf(timers', timeout', u)]
Lag == irqCount * TickLength + elapsed

LEMMA Meaning ==
  /\ [t \in Timers |-> Left(t)] = Lefts
  /\ [t \in Timers |-> Left(t)]' = LeftsNext
<1>1. \A t \in Timers : Left(t) = LeftOf(timers, timeout, t)
  BY DEF Left, Started, LeftOf
<1>2. \A t \in Timers : Left(t)' = LeftOf(timers', timeout', t)
  BY DEF Left, Started, LeftOf
<1> QED
  BY <1>1, <1>2 DEF Lefts, LeftsNext

LEMMA LagType ==
  ASSUME LInv
  PROVE  /\ irqCount * TickLength \in Nat
         /\ (irqCount + 1) * TickLength = irqCount * TickLength + TickLength
         /\ Lag \in Nat
<1>1. irqCount \in Nat /\ TickLength \in Nat /\ elapsed \in Nat
  BY TickAssumption, PassAssumption DEF LInv
<1>2. irqCount * TickLength \in Nat
  BY <1>1
<1>3. (irqCount + 1) * TickLength = irqCount * TickLength + TickLength
  BY <1>1
<1> QED
  BY <1>1, <1>2, <1>3 DEF Lag

LEMMA LeftsType ==
  ASSUME LInv, NEW u \in Timers
  PROVE  /\ Listed(timers, u) => Lefts[u] \in Nat
         /\ ~Listed(timers, u) => Lefts[u] = OFF
         /\ Lefts[u] # OFF <=> Listed(timers, u)
<1>1. /\ Listed(timers, u) => Lefts[u] \in Nat
      /\ ~Listed(timers, u) => Lefts[u] = OFF
  BY LeftOfType DEF LInv, Listed, Lefts
<1> QED
  BY <1>1 DEF OFF

(* A timer is placed in a list where it is not.                            *)
LEMMA PlaceStep ==
  ASSUME NEW list \in Seq(Timers), Once(list), timeout \in [Timers -> Nat],
         NEW t \in Timers, ~Listed(list, t), NEW interval \in Intervals[t],
         NEW p \in 0..Len(list), Place(list, timeout, t, interval, p)
  PROVE  /\ timers' \in Seq(Timers) /\ Once(timers')
         /\ timeout' \in [Timers -> Nat]
         /\ \A u \in Timers :
              LeftOf(timers', timeout', u) =
                IF u = t THEN interval ELSE LeftOf(list, timeout, u)
         /\ \A u \in Timers : Listed(timers', u) => u = t \/ Listed(list, u)
<1>1. interval \in Nat
  BY IntervalsAssumption
<1>2. \A i \in DOMAIN list : list[i] # t
  BY DEF Listed
<1>3. timers' = InsertAt(list, p + 1, t)
  BY DEF Place
<1>4. InsertAt(list, p + 1, t) \in Seq(Timers) /\ Once(InsertAt(list, p + 1, t))
  BY <1>2, InsertOnce
<1>5. /\ timeout' \in [Timers -> Nat]
      /\ \A u \in Timers :
           LeftOf(InsertAt(list, p + 1, t), timeout', u) =
             IF u = t THEN interval ELSE LeftOf(list, timeout, u)
  <2>1. Placed(timeout', list, timeout, t, interval, p)
    BY DEF Place, Placed
  <2> QED
    BY <1>1, <1>2, <2>1, PlaceLeft
<1>6. ASSUME NEW u \in Timers, u # t, ~Listed(list, u)
      PROVE  ~Listed(timers', u)
  <2>0. LeftOf(list, timeout, u) = OFF
    BY <1>6, ListedLeft
  <2>1. LeftOf(timers', timeout', u) = OFF
    BY <1>3, <1>5, <1>6, <2>0
  <2>2. Listed(timers', u) => LeftOf(timers', timeout', u) \in Nat
    BY <1>3, <1>4, <1>5, ListedLeft
  <2>3. OFF \notin Nat
    BY DEF OFF
  <2> QED
    BY <2>1, <2>2, <2>3
<1> QED
  BY <1>3, <1>4, <1>5, <1>6

(* The deadlines are the same, or make a step.                             *)
LEMMA InitStep == Init => LInv /\ DeadlinesSpec!Init
<1> SUFFICES ASSUME Init
             PROVE  LInv /\ DeadlinesSpec!Init
  OBVIOUS
<1>1. timers = <<>> /\ timeout = [t \in Timers |-> 0] /\ irqCount = 0 /\ elapsed = 0
  BY DEF Init
<1>2. \A u \in Timers : ~Listed(timers, u)
  BY <1>1 DEF Listed
<1>3. Lefts = [u \in Timers |-> OFF]
  BY <1>2 DEF Lefts, LeftOf, Listed
<1>4. Lag = 0
  BY <1>1, TickAssumption DEF Lag
<1>5. LInv
  <2>1. Once(timers) /\ timers \in Seq(Timers)
    BY <1>1 DEF Once
  <2>2. irqCount \in 0..PassTicks
    BY <1>1, PassAssumption
  <2> QED
    BY <1>1, <1>2, <2>1, <2>2 DEF LInv
<1> QED
  BY <1>3, <1>4, <1>5, Meaning DEF DeadlinesSpec!Init, Lag

LEMMA TickStep ==
  ASSUME LInv, Tick
  PROVE  LInv' /\ DeadlinesSpec!Tick
<1>1. /\ irqCount < PassTicks
      /\ irqCount' = (irqCount + 1) % CountSize
      /\ UNCHANGED <<timers, timeout, elapsed, inHandler>>
  BY DEF Tick
<1>2. irqCount' = irqCount + 1 /\ irqCount' \in 0..PassTicks
  BY <1>1, PassAssumption DEF LInv
<1>3. LInv'
  BY <1>1, <1>2 DEF LInv, Listed, Once
<1>4. Lag' = Lag + TickLength
  <2>1. /\ irqCount * TickLength \in Nat /\ elapsed \in Nat /\ TickLength \in Nat
        /\ (irqCount + 1) * TickLength = irqCount * TickLength + TickLength
    BY LagType, TickAssumption DEF LInv
  <2> QED
    BY <1>1, <1>2, <2>1 DEF Lag
<1>5. LeftsNext = Lefts
  BY <1>1 DEF Lefts, LeftsNext
<1> QED
  BY <1>3, <1>4, <1>5, Meaning DEF DeadlinesSpec!Tick, Lag

LEMMA StartStep ==
  ASSUME LInv, Start
  PROVE  LInv' /\ \E t \in Timers : \E i \in Intervals[t] : DeadlinesSpec!Start(t, i)
<1>0. PICK t \in Timers : \E interval \in Intervals[t] : SYS_TimerStart(t, interval)
  BY DEF Start
<1>1. PICK interval \in Intervals[t] : SYS_TimerStart(t, interval)
  BY <1>0
<1>2. UNCHANGED <<irqCount, elapsed, inHandler>>
  BY DEF Start
<1>3. ~Listed(timers, t)
  BY <1>1 DEF SYS_TimerStart, Started, Listed
<1>4. PICK p \in 0..Len(timers) : Place(timers, timeout, t, interval, p)
  BY <1>1 DEF SYS_TimerStart
<1>5. /\ timers' \in Seq(Timers) /\ Once(timers')
      /\ timeout' \in [Timers -> Nat]
      /\ \A u \in Timers :
           LeftOf(timers', timeout', u) =
             IF u = t THEN interval ELSE LeftOf(timers, timeout, u)
      /\ \A u \in Timers : Listed(timers', u) => u = t \/ Listed(timers, u)
  BY <1>3, <1>4, PlaceStep DEF LInv
<1>6. LInv'
  <2>1. \A u \in Timers : Listed(timers', u) => Intervals[u] # {}
    BY <1>5 DEF LInv
  <2>2. irqCount' \in 0..PassTicks /\ elapsed' \in Nat /\ (~inHandler' => elapsed' = 0)
    BY <1>2 DEF LInv
  <2> QED
    BY <1>5, <2>1, <2>2 DEF LInv, Listed, Once
<1>7. Lefts[t] = OFF
  BY <1>3, LeftsType
<1>8. LeftsNext = [Lefts EXCEPT ![t] = interval]
  BY <1>5 DEF Lefts, LeftsNext
<1>9. Lag' = Lag
  BY <1>2 DEF Lag
<1>10. DeadlinesSpec!Start(t, interval)
  BY <1>7, <1>8, <1>9, Meaning DEF DeadlinesSpec!Start, DeadlinesSpec!Running, Lag
<1> QED
  BY <1>6, <1>10

LEMMA StopStep ==
  ASSUME LInv, Stop
  PROVE  LInv' /\ \E t \in Timers : DeadlinesSpec!Stop(t)
<1>1. PICK q \in DOMAIN timers : SYS_TimerStop(q)
  BY DEF Stop
<1>2. UNCHANGED <<irqCount, elapsed, inHandler>>
  BY DEF Stop
<1>3. timers \in Seq(Timers) /\ Once(timers) /\ timeout \in [Timers -> Nat]
  BY DEF LInv
<1>4. q \in 1..Len(timers) /\ timers[q] \in Timers
  BY <1>3
<1> DEFINE t == timers[q]
<1>5. /\ timers' = RemoveAt(timers, q)
      /\ timers' \in Seq(Timers) /\ Once(timers')
  BY <1>1, <1>3, <1>4, RemoveOnce DEF SYS_TimerStop
<1>6. /\ timeout' \in [Timers -> Nat]
      /\ \A u \in Timers :
           LeftOf(timers', timeout', u) = IF u = t THEN OFF ELSE LeftOf(timers, timeout, u)
  <2>1. TakenOver(timeout', timers, timeout, q)
    BY <1>1 DEF SYS_TimerStop, TakenOver
  <2> QED
    BY <1>3, <1>4, <1>5, <2>1, StopLeft
<1>7. Listed(timers, t)
  BY <1>4 DEF Listed
<1> HIDE DEF t
<1>8. LInv'
  <2>1. \A u \in Timers : Listed(timers', u) => Intervals[u] # {}
    <3> SUFFICES ASSUME NEW u \in Timers, Listed(timers', u)
                 PROVE  Intervals[u] # {}
      OBVIOUS
    <3>1. LeftOf(timers', timeout', u) \in Nat
      BY <1>5, <1>6, LeftOfType DEF Listed
    <3>2. OFF \notin Nat
      BY DEF OFF
    <3>3. LeftOf(timers, timeout, u) \in Nat
      BY <1>6, <3>1, <3>2
    <3>4. Listed(timers, u)
      BY <1>3, <3>2, <3>3, LeftOfType DEF Listed
    <3> QED
      BY <3>4 DEF LInv
  <2>2. irqCount' \in 0..PassTicks /\ elapsed' \in Nat /\ (~inHandler' => elapsed' = 0)
    BY <1>2 DEF LInv
  <2> QED
    BY <1>5, <1>6, <2>1, <2>2 DEF LInv, Listed, Once
<1>9. t \in Timers /\ Lefts[t] # OFF
  BY <1>4, <1>7, LeftsType DEF t
<1>10. LeftsNext = [Lefts EXCEPT ![t] = OFF]
  BY <1>6 DEF Lefts, LeftsNext
<1>11. Lag' = Lag
  BY <1>2 DEF Lag
<1>12. DeadlinesSpec!Stop(t)
  BY <1>9, <1>10, <1>11, Meaning DEF DeadlinesSpec!Stop, DeadlinesSpec!Running, Lag
<1> QED
  BY <1>8, <1>9, <1>12

LEMMA ExpireStep ==
  ASSUME LInv, Expire
  PROVE  LInv' /\ \E t \in Timers : \E i \in Intervals[t] : DeadlinesSpec!Expire(t, i)
<1> DEFINE t == Head(timers)
           rest == Tail(timers)
           d == timeout[t]
           Left1(u) == IF Listed(timers, u) THEN LeftOf(timers, timeout, u) - d ELSE OFF
<1>1. timers \in Seq(Timers) /\ Once(timers) /\ timeout \in [Timers -> Nat]
  BY DEF LInv
<1>2. timers # <<>> /\ d <= elapsed /\ elapsed' = elapsed - d
  BY DEF Expire, Expired
<1>3. UNCHANGED irqCount /\ inHandler /\ inHandler'
  BY DEF Expire
<1>4. /\ t \in Timers
      /\ rest \in Seq(Timers)
      /\ Len(rest) = Len(timers) - 1
      /\ Once(rest)
      /\ ~Listed(rest, t)
  BY <1>1, <1>2, TailOnce DEF Listed
<1>5. Listed(timers, t) /\ d \in Nat
  BY <1>1, <1>2, <1>4 DEF Listed
<1>6. /\ LeftOf(timers, timeout, t) = d
      /\ \A u \in Timers : Listed(timers, u) => d <= LeftOf(timers, timeout, u)
  BY <1>1, <1>2, HeadLeft
<1>7. \A u \in Timers : Listed(rest, u) => Listed(timers, u)
  <2> SUFFICES ASSUME NEW u \in Timers, NEW i \in DOMAIN rest, rest[i] = u
               PROVE  Listed(timers, u)
    BY DEF Listed
  <2>1. i + 1 \in DOMAIN timers /\ timers[i + 1] = rest[i]
    BY <1>1, <1>2
  <2> QED
    BY <2>1 DEF Listed
<1>8. /\ t \in Periodic =>
           \E interval \in Intervals[t] : \E p \in 0..Len(rest) :
             Place(rest, timeout, t, interval, p)
      /\ t \notin Periodic => timers' = rest /\ timeout' = [timeout EXCEPT ![t] = 0]
  BY <1>4 DEF Expire
<1>9. \A u \in Timers : u # t => LeftOf(rest, timeout, u) = Left1(u)
  <2>1. \A u \in Timers : u # t =>
          LeftOf(rest, timeout, u) =
            IF Listed(timers, u) /\ u # t
            THEN LeftOf(timers, timeout, u) - timeout[t] ELSE OFF
    BY <1>1, <1>2, TailLeft
  <2> QED
    BY <2>1
<1>10. PICK interval \in Intervals[t] :
         /\ timers' \in Seq(Timers) /\ Once(timers')
         /\ timeout' \in [Timers -> Nat]
         /\ \A u \in Timers :
              LeftOf(timers', timeout', u) =
                IF u # t THEN Left1(u) ELSE IF t \in Periodic THEN interval ELSE OFF
         /\ \A u \in Timers : Listed(timers', u) => Listed(timers, u)
  <2>1. CASE t \in Periodic
    <3>1. PICK interval \in Intervals[t] : \E p \in 0..Len(rest) :
            Place(rest, timeout, t, interval, p)
      BY <1>8, <2>1
    <3>2. PICK p \in 0..Len(rest) : Place(rest, timeout, t, interval, p)
      BY <3>1
    <3> HIDE DEF t, rest, d, Left1
    <3>3. /\ timers' \in Seq(Timers) /\ Once(timers')
          /\ timeout' \in [Timers -> Nat]
          /\ \A u \in Timers :
               LeftOf(timers', timeout', u) =
                 IF u = t THEN interval ELSE LeftOf(rest, timeout, u)
          /\ \A u \in Timers : Listed(timers', u) => u = t \/ Listed(rest, u)
      BY <1>1, <1>4, <3>2, PlaceStep
    <3> QED
      BY <1>5, <1>7, <1>9, <2>1, <3>3
  <2>2. CASE t \notin Periodic
    <3>1. timers' = rest /\ timeout' = [timeout EXCEPT ![t] = 0]
      BY <1>8, <2>2
    <3>2. /\ timeout' \in [Timers -> Nat]
          /\ \A u \in Timers : u # t => timeout'[u] = timeout[u]
      BY <1>1, <1>4, <3>1
    <3>3. \A u \in Timers :
            LeftOf(rest, timeout', u) =
              IF Listed(timers, u) /\ u # t
              THEN LeftOf(timers, timeout, u) - timeout[t] ELSE OFF
      BY <1>1, <1>2, <3>2, TailLeft
    <3>4. Intervals[t] # {}
      BY <1>4, <1>5 DEF LInv
    <3> QED
      BY <1>4, <1>7, <2>2, <3>1, <3>2, <3>3, <3>4
  <2> QED
    BY <2>1, <2>2
<1> HIDE DEF t, rest, d
<1>11. LInv'
  <2>1. \A u \in Timers : Listed(timers', u) => Intervals[u] # {}
    BY <1>10 DEF LInv
  <2>2. elapsed' \in Nat
    BY <1>2, <1>5 DEF LInv
  <2> QED
    BY <1>3, <1>10, <2>1, <2>2 DEF LInv, Listed, Once
<1>12. Lefts[t] = d /\ Lefts[t] # OFF
  BY <1>4, <1>5, <1>6, LeftsType DEF Lefts
<1>13. d <= Lag /\ Lag' = Lag - d
  <2>1. irqCount * TickLength \in Nat /\ elapsed \in Nat
    BY LagType DEF LInv
  <2> QED
    BY <1>2, <1>3, <1>5, <2>1 DEF Lag
<1>14. \A u \in Timers : Lefts[u] # OFF => d <= Lefts[u]
  BY <1>6, LeftsType DEF Lefts
<1>15. LeftsNext =
         [u \in Timers |->
            IF u # t THEN IF Lefts[u] # OFF THEN Lefts[u] - d ELSE OFF
            ELSE IF t \in Periodic THEN interval ELSE OFF]
  <2>1. \A u \in Timers : Left1(u) = IF Lefts[u] # OFF THEN Lefts[u] - d ELSE OFF
    BY LeftsType DEF Lefts
  <2> HIDE DEF Left1
  <2> QED
    BY <1>10, <2>1 DEF LeftsNext
<1>16. DeadlinesSpec!Expire(t, interval)
  BY <1>12, <1>13, <1>14, <1>15, Meaning
     DEF DeadlinesSpec!Expire, DeadlinesSpec!Running, DeadlinesSpec!Less, Lag
<1> QED
  BY <1>4, <1>11, <1>16

LEMMA FinishStep ==
  ASSUME LInv, Finish
  PROVE  /\ LInv'
         /\ \/ \E d \in 1..Lag : DeadlinesSpec!Pass(d)
            \/ LeftsNext = Lefts /\ Lag' = Lag
<1> DEFINE d == elapsed
<1>1. /\ timers \in Seq(Timers) /\ Once(timers) /\ timeout \in [Timers -> Nat]
      /\ d \in Nat
  BY DEF LInv
<1>2. /\ timers # <<>> => d < timeout[Head(timers)]
      /\ elapsed' = 0 /\ UNCHANGED <<timers, irqCount>>
      /\ timeout' = [u \in Timers |->
                       IF timers # <<>> /\ u = Head(timers) THEN timeout[u] - d
                       ELSE timeout[u]]
  <2>1. timers # <<>> => timeout[Head(timers)] \in Nat
    BY <1>1
  <2> QED
    BY <1>1, <2>1 DEF Finish, Expired
<1> HIDE DEF d
<1>3. /\ timeout' \in [Timers -> Nat]
      /\ \A u \in Timers :
           LeftOf(timers, timeout', u) =
             IF Listed(timers, u) THEN LeftOf(timers, timeout, u) - d ELSE OFF
  <2>1. timers # <<>> => d <= timeout[Head(timers)]
    BY <1>1, <1>2
  <2> QED
    BY <1>1, <1>2, <2>1, FinishLeft
<1>4. LInv'
  BY <1>1, <1>2, <1>3 DEF LInv, Listed, Once
<1>5. LeftsNext = [u \in Timers |-> IF Lefts[u] # OFF THEN Lefts[u] - d ELSE OFF]
  <2>1. \A u \in Timers : Lefts[u] = LeftOf(timers, timeout, u)
    BY DEF Lefts
  <2> QED
    BY <1>2, <1>3, <2>1, LeftsType DEF LeftsNext
<1>6. d <= Lag /\ Lag' = Lag - d
  <2>1. irqCount * TickLength \in Nat
    BY LagType
  <2> QED
    BY <1>1, <1>2, <2>1 DEF Lag, d
<1>7. \A u \in Timers : Lefts[u] # OFF => d < Lefts[u]
  <2> SUFFICES ASSUME NEW u \in Timers, Lefts[u] # OFF
               PROVE  d < Lefts[u]
    OBVIOUS
  <2>1. Listed(timers, u) /\ Lefts[u] \in Nat /\ Lefts[u] = LeftOf(timers, timeout, u)
    BY LeftsType DEF Lefts
  <2>2. timers # <<>>
    BY <2>1 DEF Listed
  <2>3. timeout[Head(timers)] <= LeftOf(timers, timeout, u) /\ timeout[Head(timers)] \in Nat
    BY <1>1, <2>1, <2>2, HeadLeft
  <2> QED
    BY <1>1, <1>2, <2>1, <2>2, <2>3
<1>8. CASE d = 0
  <2>1. \A u \in Timers : (IF Lefts[u] # OFF THEN Lefts[u] - d ELSE OFF) = Lefts[u]
    BY <1>8, LeftsType
  <2>2. LeftsNext = [u \in Timers |-> Lefts[u]]
    BY <1>5, <2>1
  <2> QED
    BY <1>4, <1>6, <1>8, <2>2, LagType DEF Lefts
<1>9. CASE d # 0
  <2>1. d \in 1..Lag
    BY <1>1, <1>6, <1>9, LagType
  <2>2. DeadlinesSpec!Pass(d)
    BY <1>5, <1>6, <1>7, <2>1, Meaning
       DEF DeadlinesSpec!Pass, DeadlinesSpec!Running, DeadlinesSpec!Less, Lag
  <2> QED
    BY <1>4, <2>1, <2>2
<1> QED
  BY <1>8, <1>9

Deadlines == <<[t \in Timers |-> Left(t)], irqCount * TickLength + elapsed>>

LEMMA SameDeadlines ==
  ASSUME LeftsNext = Lefts, Lag' = Lag
  PROVE  UNCHANGED Deadlines
  BY Meaning DEF Deadlines, Lag

LEMMA TimersStep ==
  ASSUME LInv, [Next]_vars
  PROVE  LInv' /\ [DeadlinesSpec!Next]_Deadlines
<1>1. CASE Tick
  BY <1>1, TickStep DEF DeadlinesSpec!Next
<1>2. CASE Start
  BY <1>2, StartStep DEF DeadlinesSpec!Next
<1>3. CASE Stop
  BY <1>3, StopStep DEF DeadlinesSpec!Next
<1>4. CASE Expire
  BY <1>4, ExpireStep DEF DeadlinesSpec!Next
<1>5. CASE Finish
  <2>1. (\E d \in 1..Lag : DeadlinesSpec!Pass(d)) => DeadlinesSpec!Next
    BY DEF DeadlinesSpec!Next, Lag
  <2> QED
    BY <1>5, <2>1, FinishStep, SameDeadlines
<1>6. CASE TakeTicks
  <2>1. /\ ~inHandler /\ elapsed' = irqCount * TickLength /\ irqCount' = 0 /\ inHandler'
        /\ UNCHANGED <<timers, timeout>>
    BY <1>6 DEF TakeTicks
  <2>2. irqCount * TickLength \in Nat /\ elapsed = 0 /\ 0 * TickLength = 0
    BY <2>1, LagType, TickAssumption DEF LInv
  <2>3. LInv'
    <3>1. irqCount' \in 0..PassTicks /\ elapsed' \in Nat
      BY <2>1, <2>2, PassAssumption
    <3> QED
      BY <2>1, <3>1 DEF LInv, Listed, Once
  <2>4. Lag' = Lag
    BY <2>1, <2>2 DEF Lag
  <2>5. LeftsNext = Lefts
    BY <2>1 DEF Lefts, LeftsNext
  <2> QED
    BY <2>3, <2>4, <2>5, SameDeadlines
<1>7. CASE HandlerReturns \/ UNCHANGED vars
  <2>1. UNCHANGED <<timers, timeout, irqCount, elapsed, inHandler>>
    BY <1>7 DEF HandlerReturns, vars
  <2>2. LInv'
    BY <2>1 DEF LInv, Listed, Once
  <2>3. LeftsNext = Lefts /\ Lag' = Lag
    BY <2>1 DEF Lefts, LeftsNext, Lag
  <2> QED
    BY <2>2, <2>3, SameDeadlines
<1> QED
  BY <1>1, <1>2, <1>3, <1>4, <1>5, <1>6, <1>7 DEF Next

(* Every timer runs to its deadline and no further, whatever is started    *)
(* and stopped while the ticks are taken off the list, and no tick is lost *)
(* or counted twice (SYS_TimerStart(), SYS_TimerStop(), placeTimer(),      *)
(* SYS_TimerTaskHandler() and the interrupt of the hardware timer).        *)
THEOREM TimersKeepDeadlines == Spec => ImplementsDeadlines
<1>1. Init => LInv /\ DeadlinesSpec!Init
  BY InitStep
<1>2. LInv /\ [Next]_vars => LInv' /\ [DeadlinesSpec!Next]_Deadlines
  BY TimersStep
<1> QED
  BY <1>1, <1>2, PTL DEF Spec, ImplementsDeadlines, DeadlinesSpec!Spec, Deadlines

-------------------------------------------------------------------------------
(* Types of the list: no timeout is ever longer than an interval, as it is *)
(* a part of the time its timer has left.                                  *)
WithinTimes(f) == \A u \in Timers : f[u] \in Times \cup {OFF}

TInv ==
  /\ \A u \in Timers : timeout[u] \in Times
  /\ WithinTimes(Lefts)
  /\ elapsed <= PassTicks * TickLength
  /\ firing \in Timers \cup {NULL}
  /\ inHandler \in BOOLEAN

LEMMA ShareOfLeft ==
  ASSUME NEW list \in Seq(Timers), Once(list), NEW times \in [Timers -> Nat],
         NEW u \in Timers, \E i \in DOMAIN list : list[i] = u
  PROVE  times[u] <= LeftOf(list, times, u)
<1>1. PICK i \in DOMAIN list : list[i] = u
  OBVIOUS
<1>2. /\ i \in 1..Len(list) /\ i \in 0..Len(list) /\ i - 1 \in 0..Len(list)
      /\ Len(list) \in Nat
  BY <1>1
<1>3. LeftOf(list, times, u) = Due(list, times, i)
  BY <1>1, <1>2, LeftOfListed
<1>4. Due(list, times, i) = Due(list, times, i - 1) + times[list[i]]
  BY <1>2, DueSteps
<1>5. Due(list, times, i - 1) \in Nat /\ times[u] \in Nat
  BY <1>2, DueGrows
<1> QED
  BY <1>1, <1>3, <1>4, <1>5

(* A timeout that changes is that of a timer in the list, or becomes 0.    *)
Changed == \A u \in Timers : timeout'[u] \in {0, timeout[u]} \/ Listed(timers', u)

LEMMA PlaceChanges ==
  ASSUME NEW list \in Seq(Timers), Once(list), timeout \in [Timers -> Nat],
         NEW t \in Timers, ~Listed(list, t), NEW interval \in Intervals[t],
         NEW p \in 0..Len(list), Place(list, timeout, t, interval, p)
  PROVE  Changed
<1>1. /\ timers' \in Seq(Timers) /\ Once(timers')
      /\ timeout' \in [Timers -> Nat]
      /\ \A u \in Timers :
           LeftOf(timers', timeout', u) =
             IF u = t THEN interval ELSE LeftOf(list, timeout, u)
  BY PlaceStep
<1>2. interval \in Nat /\ OFF \notin Nat
  BY IntervalsAssumption DEF OFF
<1>3. ASSUME NEW u \in Timers, u = t \/ Listed(list, u)
      PROVE  Listed(timers', u)
  <2>0. u # t => LeftOf(list, timeout, u) \in Nat
    BY <1>3, ListedLeft
  <2>1. LeftOf(timers', timeout', u) \in Nat
    BY <1>1, <1>2, <2>0
  <2>2. ~Listed(timers', u) => LeftOf(timers', timeout', u) = OFF
    BY <1>1, ListedLeft
  <2> QED
    BY <1>2, <2>1, <2>2
<1>4. ASSUME NEW u \in Timers, u # t, ~Listed(list, u)
      PROVE  timeout'[u] = timeout[u]
  <2>1. p < Len(list) => u # list[p + 1]
    <3>1. p < Len(list) => p + 1 \in DOMAIN list
      OBVIOUS
    <3> QED
      BY <1>4, <3>1 DEF Listed
  <2> QED
    BY <1>4, <2>1 DEF Place
<1> QED
  BY <1>3, <1>4 DEF Changed

LEMMA StopChanges ==
  ASSUME LInv, LInv', NEW q \in DOMAIN timers, SYS_TimerStop(q)
  PROVE  Changed
<1>0. timers \in Seq(Timers) /\ Once(timers) /\ timeout \in [Timers -> Nat]
  BY DEF LInv
<1>1. timers' \in Seq(Timers) /\ Once(timers') /\ timeout' \in [Timers -> Nat]
  BY DEF LInv, Once
<1>2. q \in 1..Len(timers) /\ Len(timers) \in Nat
  BY <1>0
<1>3. \A u \in Timers :
        LeftOf(timers', timeout', u) =
          IF u = timers[q] THEN OFF ELSE LeftOf(timers, timeout, u)
  <2>0. timers' = RemoveAt(timers, q)
    BY DEF SYS_TimerStop
  <2>1. TakenOver(timeout', timers, timeout, q)
    BY DEF SYS_TimerStop, TakenOver
  <2>2. \A u \in Timers :
          LeftOf(RemoveAt(timers, q), timeout', u) =
            IF u = timers[q] THEN OFF ELSE LeftOf(timers, timeout, u)
    BY <1>0, <1>2, <2>1, StopLeft
  <2> QED
    BY <2>0, <2>2, Zenon
<1>4. ASSUME NEW u \in Timers, u # timers[q], q < Len(timers), u = timers[q + 1]
      PROVE  Listed(timers', u)
  <2>1. q + 1 \in DOMAIN timers
    BY <1>0, <1>2, <1>4
  <2>2. LeftOf(timers', timeout', u) \in Nat
    BY <1>0, <1>3, <1>4, <2>1, LeftOfType
  <2>3. OFF \notin Nat
    BY DEF OFF
  <2> QED
    BY <1>1, <2>2, <2>3, LeftOfType DEF Listed
<1>5. ASSUME NEW u \in Timers, ~(u # timers[q] /\ q < Len(timers) /\ u = timers[q + 1])
      PROVE  timeout'[u] \in {0, timeout[u]}
  BY <1>5 DEF SYS_TimerStop
<1> QED
  BY <1>4, <1>5 DEF Changed

LEMMA ExpireChanges ==
  ASSUME LInv, Expire
  PROVE  Changed
<1> DEFINE t == Head(timers)
           rest == Tail(timers)
<1>1. timers \in Seq(Timers) /\ Once(timers) /\ timeout \in [Timers -> Nat]
  BY DEF LInv
<1>2. timers # <<>>
  BY DEF Expire, Expired
<1>3. /\ t \in Timers
      /\ rest \in Seq(Timers)
      /\ Len(rest) = Len(timers) - 1
      /\ Once(rest)
      /\ ~Listed(rest, t)
  BY <1>1, <1>2, TailOnce DEF Listed
<1>4. /\ t \in Periodic =>
           \E interval \in Intervals[t] : \E p \in 0..Len(rest) :
             Place(rest, timeout, t, interval, p)
      /\ t \notin Periodic => timers' = rest /\ timeout' = [timeout EXCEPT ![t] = 0]
  BY <1>3 DEF Expire
<1> HIDE DEF t, rest
<1>5. CASE t \in Periodic
  <2>1. PICK interval \in Intervals[t] : \E p \in 0..Len(rest) :
          Place(rest, timeout, t, interval, p)
    BY <1>4, <1>5
  <2>2. PICK p \in 0..Len(rest) : Place(rest, timeout, t, interval, p)
    BY <2>1
  <2> QED
    BY <1>1, <1>3, <2>2, PlaceChanges
<1>6. CASE t \notin Periodic
  BY <1>1, <1>4, <1>6 DEF Changed
<1> QED
  BY <1>5, <1>6

LEMMA TimeoutsChange ==
  ASSUME LInv, LInv', [Next]_vars
  PROVE  Changed
<1>1. timers \in Seq(Timers) /\ Once(timers) /\ timeout \in [Timers -> Nat]
  BY DEF LInv
<1>2. timeout' = timeout => Changed
  BY DEF Changed
<1>3. CASE Tick \/ TakeTicks \/ HandlerReturns \/ UNCHANGED vars
  BY <1>2, <1>3 DEF Tick, TakeTicks, HandlerReturns, vars
<1>4. CASE Start
  <2>1. PICK t \in Timers : \E interval \in Intervals[t] : SYS_TimerStart(t, interval)
    BY <1>4 DEF Start
  <2>2. PICK interval \in Intervals[t] : SYS_TimerStart(t, interval)
    BY <2>1
  <2>3. ~Listed(timers, t)
    BY <2>2 DEF SYS_TimerStart, Started, Listed
  <2>4. PICK p \in 0..Len(timers) : Place(timers, timeout, t, interval, p)
    BY <2>2 DEF SYS_TimerStart
  <2> QED
    BY <1>1, <2>3, <2>4, PlaceChanges
<1>5. CASE Stop
  BY <1>5, StopChanges DEF Stop
<1>6. CASE Expire
  BY <1>6, ExpireChanges
<1>7. CASE Finish
  <2>1. timers' = timers
    BY <1>7 DEF Finish
  <2>2. \A u \in Timers : timeout'[u] = timeout[u] \/ (timers # <<>> /\ u = Head(timers))
    BY <1>7 DEF Finish
  <2>3. timers # <<>> => Listed(timers, Head(timers))
    <3>1. timers # <<>> => 1 \in DOMAIN timers /\ Head(timers) = timers[1]
      BY <1>1
    <3> QED
      BY <3>1 DEF Listed
  <2> QED
    BY <2>1, <2>2, <2>3 DEF Changed
<1> QED
  BY <1>3, <1>4, <1>5, <1>6, <1>7 DEF Next

LEMMA LessTime ==
  /\ 0 \in Times
  /\ \A t \in Timers : Intervals[t] \subseteq Times
  /\ \A n \in Times, k \in Nat : k <= n => k \in Times
<1>1. 0 \in Times
  BY DEF Times
<1>2. \A t \in Timers : Intervals[t] \subseteq Times
  <2> SUFFICES ASSUME NEW t \in Timers, NEW i \in Intervals[t]
               PROVE  i \in Times
    OBVIOUS
  <2>1. i \in Nat /\ i <= i
    BY IntervalsAssumption
  <2> QED
    BY <2>1 DEF Times
<1>3. ASSUME NEW n \in Times, NEW k \in Nat, k <= n
      PROVE  k \in Times
  <2>1. n \in Nat /\ (n = 0 \/ \E t \in Timers : \E i \in Intervals[t] : n <= i)
    BY DEF Times
  <2>2. CASE n = 0
    <3>1. k = 0
      BY <1>3, <2>2
    <3> QED
      BY <1>1, <3>1
  <2>3. CASE n # 0
    <3>1. PICK t \in Timers : \E i \in Intervals[t] : n <= i
      BY <2>1, <2>3
    <3>2. PICK i \in Intervals[t] : n <= i
      BY <3>1
    <3>3. i \in Nat
      BY IntervalsAssumption
    <3>4. k <= i
      BY <1>3, <2>1, <3>2, <3>3
    <3> QED
      BY <3>4 DEF Times
  <2> QED
    BY <2>2, <2>3
<1> QED
  BY <1>1, <1>2, <1>3

(* A step of the deadlines, which leaves no time negative, gives no timer  *)
(* more time than an interval.                                             *)
LEMMA LeftsWithinTimes ==
  ASSUME LInv', WithinTimes(Lefts), [DeadlinesSpec!Next]_Deadlines
  PROVE  WithinTimes(LeftsNext)
<1> SUFFICES ASSUME NEW u \in Timers
             PROVE  LeftsNext[u] \in Times \cup {OFF}
  BY DEF WithinTimes
<1>1. Lefts[u] \in Times \cup {OFF}
  BY DEF WithinTimes
<1>2. LeftsNext[u] \in Nat \cup {OFF}
  <2>1. timers' \in Seq(Timers) /\ Once(timers') /\ timeout' \in [Timers -> Nat]
    BY DEF LInv, Once
  <2>2. LeftOf(timers', timeout', u) \in Nat \cup {OFF}
    BY <2>1, LeftOfType
  <2> QED
    BY <2>2 DEF LeftsNext
<1>3. \/ LeftsNext[u] = Lefts[u] \/ LeftsNext[u] = OFF
      \/ LeftsNext[u] \in Intervals[u]
      \/ Lefts[u] # OFF /\ \E d \in Nat : LeftsNext[u] = Lefts[u] - d
  <2>1. CASE UNCHANGED Deadlines
    <3>1. LeftsNext = Lefts
      BY <2>1, Meaning DEF Deadlines
    <3> QED
      BY <3>1
  <2>2. CASE DeadlinesSpec!Tick
    <3>1. LeftsNext = Lefts
      BY <2>2, Meaning DEF DeadlinesSpec!Tick
    <3> QED
      BY <3>1
  <2>3. ASSUME NEW t \in Timers, DeadlinesSpec!Stop(t)
        PROVE  LeftsNext[u] = Lefts[u] \/ LeftsNext[u] = OFF
    <3>1. LeftsNext = [Lefts EXCEPT ![t] = OFF]
      BY <2>3, Meaning DEF DeadlinesSpec!Stop
    <3> QED
      BY <3>1 DEF Lefts
  <2>4. ASSUME NEW t \in Timers, NEW i \in Intervals[t], DeadlinesSpec!Start(t, i)
        PROVE  LeftsNext[u] = Lefts[u] \/ LeftsNext[u] \in Intervals[u]
    <3>1. LeftsNext = [Lefts EXCEPT ![t] = i]
      BY <2>4, Meaning DEF DeadlinesSpec!Start
    <3> QED
      BY <3>1 DEF Lefts
  <2>5. ASSUME NEW t \in Timers, NEW i \in Intervals[t], DeadlinesSpec!Expire(t, i)
        PROVE  \/ LeftsNext[u] = OFF \/ LeftsNext[u] \in Intervals[u]
               \/ Lefts[u] # OFF /\ \E d \in Nat : LeftsNext[u] = Lefts[u] - d
    <3>1. /\ Lefts[t] # OFF
          /\ LeftsNext =
               [v \in Timers |->
                  IF v # t THEN IF Lefts[v] # OFF THEN Lefts[v] - Lefts[t] ELSE OFF
                  ELSE IF t \in Periodic THEN i ELSE OFF]
      BY <2>5, Meaning DEF DeadlinesSpec!Expire, DeadlinesSpec!Running, DeadlinesSpec!Less
    <3>2. Lefts[t] \in Nat
      BY <3>1 DEF WithinTimes, Times
    <3> QED
      BY <3>1, <3>2
  <2>6. ASSUME NEW d \in 1..Lag, DeadlinesSpec!Pass(d)
        PROVE  \/ LeftsNext[u] = OFF
               \/ Lefts[u] # OFF /\ LeftsNext[u] = Lefts[u] - d
    <3>1. LeftsNext = [v \in Timers |-> IF Lefts[v] # OFF THEN Lefts[v] - d ELSE OFF]
      BY <2>6, Meaning DEF DeadlinesSpec!Pass, DeadlinesSpec!Running, DeadlinesSpec!Less
    <3> QED
      BY <3>1
  <2>7. \A d \in 1..Lag : d \in Nat
    OBVIOUS
  <2>8. CASE DeadlinesSpec!Next
    BY <2>2, <2>3, <2>4, <2>5, <2>6, <2>7, <2>8 DEF DeadlinesSpec!Next, Lag
  <2> QED
    BY <2>1, <2>8
<1>4. ASSUME Lefts[u] # OFF, NEW d \in Nat, LeftsNext[u] = Lefts[u] - d, LeftsNext[u] # OFF
      PROVE  LeftsNext[u] \in Times
  <2>1. Lefts[u] \in Times /\ Lefts[u] \in Nat /\ LeftsNext[u] \in Nat
    BY <1>1, <1>2, <1>4 DEF Times
  <2>2. LeftsNext[u] <= Lefts[u]
    BY <1>4, <2>1
  <2> QED
    BY <2>1, <2>2, LessTime
<1> QED
  BY <1>1, <1>2, <1>3, <1>4, LessTime

LEMMA MoreTicks ==
  ASSUME NEW i \in 0..PassTicks
  PROVE  i * TickLength <= PassTicks * TickLength
<1>1. i \in Nat /\ PassTicks \in Nat /\ TickLength \in Nat /\ i <= PassTicks
  BY PassAssumption, TickAssumption
<1> QED
  BY <1>1

LEMMA TypesStep ==
  ASSUME LInv, LInv', TInv, [Next]_vars, WithinTimes(LeftsNext)
  PROVE  TInv'
<1>1. WithinTimes(Lefts)'
  BY DEF WithinTimes, Lefts, LeftsNext, Times
<1>2. ASSUME NEW u \in Timers
      PROVE  timeout'[u] \in Times
  <2>1. CASE timeout'[u] \in {0, timeout[u]}
    BY <2>1, LessTime DEF TInv
  <2>2. CASE Listed(timers', u)
    <3>1. timers' \in Seq(Timers) /\ Once(timers') /\ timeout' \in [Timers -> Nat]
      BY DEF LInv, Once
    <3>2. timeout'[u] <= LeftsNext[u] /\ LeftsNext[u] \in Nat /\ timeout'[u] \in Nat
      BY <2>2, <3>1, ShareOfLeft, LeftOfType DEF LeftsNext, Listed
    <3>3. LeftsNext[u] \in Times
      BY <3>2 DEF WithinTimes, OFF
    <3> QED
      BY <3>2, <3>3, LessTime
  <2> QED
    BY <2>1, <2>2, TimeoutsChange DEF Changed
<1>3. elapsed' <= PassTicks * TickLength
  <2>0. elapsed \in Nat /\ elapsed <= PassTicks * TickLength /\ PassTicks * TickLength \in Nat
    BY PassAssumption, TickAssumption DEF LInv, TInv
  <2>1. CASE Tick \/ Start \/ Stop \/ HandlerReturns \/ UNCHANGED vars
    BY <2>0, <2>1 DEF Tick, Start, Stop, HandlerReturns, vars
  <2>2. CASE TakeTicks
    BY <2>2, MoreTicks DEF TakeTicks, LInv
  <2>3. CASE Finish
    BY <2>0, <2>3 DEF Finish
  <2>4. CASE Expire
    <3>1. timeout[Head(timers)] \in Nat
      <4>1. timers \in Seq(Timers) /\ timers # <<>> /\ timeout \in [Timers -> Nat]
        BY <2>4 DEF LInv, Expire, Expired
      <4> QED
        BY <4>1
    <3>2. elapsed' = elapsed - timeout[Head(timers)]
      BY <2>4 DEF Expire
    <3> QED
      BY <2>0, <3>1, <3>2
  <2> QED
    BY <2>1, <2>2, <2>3, <2>4 DEF Next
<1>4. firing' \in Timers \cup {NULL} /\ inHandler' \in BOOLEAN
  <2>1. CASE Expire
    <3>1. timers \in Seq(Timers) /\ timers # <<>>
      BY <2>1 DEF LInv, Expire, Expired
    <3> QED
      BY <2>1, <3>1 DEF Expire, TInv
  <2>2. CASE Tick \/ Start \/ Stop \/ TakeTicks \/ HandlerReturns \/ Finish \/ UNCHANGED vars
    BY <2>2 DEF Tick, Start, Stop, TakeTicks, HandlerReturns, Finish, vars, TInv
  <2> QED
    BY <2>1, <2>2 DEF Next
<1> QED
  BY <1>1, <1>2, <1>3, <1>4 DEF TInv, Times

LEMMA InitTypes == Init => TInv
<1> SUFFICES ASSUME Init PROVE TInv
  OBVIOUS
<1>1. timers = <<>> /\ \A u \in Timers : timeout[u] = 0
  BY DEF Init
<1>2. \A u \in Timers : Lefts[u] = OFF
  BY <1>1 DEF Lefts, LeftOf
<1>3. WithinTimes(Lefts)
  BY <1>2 DEF WithinTimes
<1>4. 0 <= PassTicks * TickLength
  BY PassAssumption, TickAssumption
<1> QED
  BY <1>1, <1>3, <1>4, LessTime DEF Init, TInv

(* TypeOK of SysTimer: no timeout is ever negative, which the unsigned     *)
(* field could not hold, or longer than an interval, and no more time is   *)
(* taken off the list than a pass can take (SYS_TimerStart(),              *)
(* SYS_TimerStop(), placeTimer(), SYS_TimerTaskHandler()).                 *)
THEOREM TimeoutsInRange == Spec => []TypeOK
<1>1. Init => LInv /\ TInv
  BY InitStep, InitTypes
<1>2. (LInv /\ TInv) /\ [Next]_vars => (LInv /\ TInv)'
  <2> SUFFICES ASSUME LInv, TInv, [Next]_vars
               PROVE  LInv' /\ TInv'
    OBVIOUS
  <2>1. LInv' /\ [DeadlinesSpec!Next]_Deadlines
    BY TimersStep
  <2>2. WithinTimes(LeftsNext)
    BY <2>1, LeftsWithinTimes DEF TInv
  <2> QED
    BY <2>1, <2>2, TypesStep
<1>3. LInv /\ TInv => TypeOK
  <2> SUFFICES ASSUME LInv, TInv
               PROVE  TypeOK
    OBVIOUS
  <2>1. timeout \in [Timers -> Times]
    BY DEF LInv, TInv
  <2>2. irqCount \in 0..(CountSize - 1) /\ elapsed \in 0..(PassTicks * TickLength)
    BY PassAssumption, TickAssumption DEF LInv, TInv
  <2> QED
    BY <2>1, <2>2 DEF LInv, TInv, TypeOK
<1> QED
  BY <1>1, <1>2, <1>3, PTL DEF Spec
===============================================================================
