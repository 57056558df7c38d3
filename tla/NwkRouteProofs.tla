---------------------------- MODULE NwkRouteProofs ----------------------------
(***************************************************************************)
(* The routing table keeps its invariants for every size of the table, set *)
(* of addresses, scores and ranks.  The four invariants are inductive only *)
(* together: the bound of a score needs the entry to be live, eviction by  *)
(* rank needs the ranks of live and free entries to be apart.              *)
(***************************************************************************)
EXTENDS NwkRoute, TLAPS

IInv == TypeOK /\ UniqueRoutes /\ ScoresAndRanks /\ NoRouteThroughNonRouting

USE DEF Entries, Lqis

(* Halving and incrementing keeps the ranks of live entries at 2 or more,  *)
(* those of free entries at most 1, and all of them below the maximum.     *)
LEMMA HalvedRank ==
  ASSUME NEW r \in 0..MaxRank
  PROVE  /\ (r \div 2) + 1 \in 0..(MaxRank - 1)
         /\ r >= 2 => (r \div 2) + 1 >= 2
         /\ r <= 1 => (r \div 2) + 1 <= 1
BY NumbersAssumption

(* The table starts with its invariants.                                   *)
LEMMA InitInv == Init => IInv
<1> SUFFICES ASSUME Init PROVE IInv
  OBVIOUS
<1> USE NumbersAssumption, AddressAssumption, PinnedAssumption
<1>1. table \in [Entries -> [dst : Peers \cup {Unknown},
                             nextHop : Peers \cup {Unknown},
                             score : {0, DefaultScore},
                             rank : {0, DefaultRank}, lqi : {0}]]
  BY DEF Init
<1>2. TypeOK
  BY <1>1 DEF TypeOK, Entry
<1>3. UniqueRoutes
  BY DEF Init, UniqueRoutes, Live, Fixed
<1>4. ScoresAndRanks
  BY DEF Init, ScoresAndRanks, Live, Fixed
<1>5. NoRouteThroughNonRouting
  BY DEF Init, NoRouteThroughNonRouting, Live, Fixed
<1> QED BY <1>2, <1>3, <1>4, <1>5 DEF IInv

(***************************************************************************)
(* What one operation may do to an invariant table, in two halves: it      *)
(* rewrites one entry, or it normalizes all ranks.                         *)
(***************************************************************************)

(* Rewriting an entry keeps the table invariant when the entry's new value *)
(* is sound by itself and its destination, if any, is not in another one.  *)
Sound(e, entry) ==
  /\ entry \in Entry
  /\ entry.dst # Unknown =>
       /\ 1 <= entry.score
       /\ 2 <= entry.rank
       /\ \A k \in Entries : k # e => table[k].dst # entry.dst
       /\ e \notin Pinned /\ entry.nextHop \in NonRouting
            => entry.nextHop = entry.dst
  /\ entry.dst = Unknown => entry.rank <= 1

(* A step that leaves a sound entry in one place keeps the invariant.       *)
LEMMA OneEntryInv ==
  ASSUME IInv, NEW e \in Entries, NEW entry, Sound(e, entry),
         table' = [table EXCEPT ![e] = entry]
  PROVE  IInv'
<1> USE NumbersAssumption DEF IInv, Sound
<1>1. TypeOK'
  BY DEF TypeOK
<1>2. UniqueRoutes'
  BY DEF TypeOK, UniqueRoutes, Live
<1>3. ScoresAndRanks'
  BY DEF TypeOK, Entry, ScoresAndRanks, Live
<1>4. NoRouteThroughNonRouting'
  BY DEF TypeOK, NoRouteThroughNonRouting, Live
<1> QED BY <1>1, <1>2, <1>3, <1>4

(***************************************************************************)
(* Updates that put values of the right type into an entry leave an entry. *)
(***************************************************************************)
LEMMA EntryUpdates ==
  /\ \A entry \in Entry, d \in Peers \cup {Unknown}, r \in 0..(MaxRank - 1) :
       [entry EXCEPT !.dst = d, !.rank = r] \in Entry
  /\ \A entry \in Entry, s \in 0..DefaultScore, r \in 0..(MaxRank - 1) :
       [entry EXCEPT !.score = s, !.rank = r] \in Entry
  /\ \A entry \in Entry, s \in 0..DefaultScore :
       [entry EXCEPT !.score = s] \in Entry
  /\ \A entry \in Entry, q \in Lqis : [entry EXCEPT !.lqi = q] \in Entry
  /\ \A entry \in Entry, h \in Peers \cup {Unknown}, s \in 0..DefaultScore,
        q \in Lqis :
       [entry EXCEPT !.nextHop = h, !.score = s, !.lqi = q] \in Entry
<1>1. \A entry \in Entry, d \in Peers \cup {Unknown}, r \in 0..(MaxRank - 1) :
        [entry EXCEPT !.dst = d, !.rank = r] \in Entry
  BY DEF Entry
<1>2. \A entry \in Entry, s \in 0..DefaultScore, r \in 0..(MaxRank - 1) :
        [entry EXCEPT !.score = s, !.rank = r] \in Entry
  BY DEF Entry
<1>3. \A entry \in Entry, s \in 0..DefaultScore :
        [entry EXCEPT !.score = s] \in Entry
  BY DEF Entry
<1>4. \A entry \in Entry, q \in Lqis : [entry EXCEPT !.lqi = q] \in Entry
  BY DEF Entry
<1>5. \A entry \in Entry, h \in Peers \cup {Unknown}, s \in 0..DefaultScore,
         q \in Lqis :
        [entry EXCEPT !.nextHop = h, !.score = s, !.lqi = q] \in Entry
  BY DEF Entry
<1> QED BY <1>1, <1>2, <1>3, <1>4, <1>5

(* Clearing an entry makes a free one.                                      *)
LEMMA ClearedEntry ==
  ASSUME NEW entry \in Entry
  PROVE  /\ Cleared(entry) \in Entry
         /\ Cleared(entry).dst = Unknown /\ Cleared(entry).rank = 0
<1>1. Cleared(entry) \in Entry
  <2>1. Unknown \in Peers \cup {Unknown} /\ 0 \in 0..(MaxRank - 1)
        /\ 0 \in 0..DefaultScore /\ 0 \in Lqis
    BY NumbersAssumption
  <2> QED BY <2>1, EntryUpdates, Zenon DEF Cleared
<1>2. Cleared(entry).dst = Unknown /\ Cleared(entry).rank = 0
  BY NumbersAssumption DEF Cleared, Entry
<1> QED BY <1>1, <1>2

(* Using an entry short of the maximal rank trusts and raises it.           *)
LEMMA UsedEntry ==
  ASSUME NEW entry \in Entry, entry.rank + 1 # MaxRank
  PROVE  /\ Used(entry) \in Entry
         /\ Used(entry).dst = entry.dst
         /\ Used(entry).nextHop = entry.nextHop
         /\ Used(entry).score = DefaultScore
         /\ Used(entry).rank = entry.rank + 1
<1>1. Used(entry) \in Entry
  <2> DEFINE r == entry.rank + 1
  <2>1. /\ r \in 0..(MaxRank - 1) /\ DefaultScore \in 0..DefaultScore
        /\ 0 \in Lqis /\ Unknown \in Peers \cup {Unknown}
    BY NumbersAssumption DEF Entry
  <2> HIDE DEF r
  <2>2. [entry EXCEPT !.score = DefaultScore, !.rank = r] \in Entry
    BY <2>1, EntryUpdates, Zenon
  <2> QED BY <2>2 DEF Used, r
<1>2. /\ Used(entry).dst = entry.dst
      /\ Used(entry).nextHop = entry.nextHop
      /\ Used(entry).score = DefaultScore
      /\ Used(entry).rank = entry.rank + 1
  BY NumbersAssumption DEF Used, Entry
<1> QED BY <1>1, <1>2

(* nwkRouteNormalizeRanks() after the rank of a live entry has reached the *)
(* maximum.                                                                *)
LEMMA NormalizedInv ==
  ASSUME IInv, NEW e \in Entries, Live(e),
         table' = Normalized([table EXCEPT ![e] = Used(@)])
  PROVE  IInv'
<1> USE NumbersAssumption DEF IInv
<1> DEFINE rank(k) == IF k = e THEN table[k].rank + 1 ELSE table[k].rank
           score(k) == IF k = e THEN DefaultScore ELSE table[k].score
<1>1. \A k \in Entries : table[k] \in Entry
  BY DEF TypeOK
<1>2. \A k \in Entries :
        table'[k] = [table[k] EXCEPT !.score = score(k),
                                     !.rank = (rank(k) \div 2) + 1]
  BY <1>1 DEF Normalized, Used, TypeOK, Entry
<1>3. \A k \in Entries : rank(k) \in 0..MaxRank /\ score(k) \in 0..DefaultScore
  BY <1>1 DEF Entry
<1> HIDE DEF rank, score
<1>4. \A k \in Entries : (rank(k) \div 2) + 1 \in 0..(MaxRank - 1)
  BY <1>3, HalvedRank
<1>5. TypeOK'
  <2>1. DOMAIN table' = Entries /\ table' = [k \in Entries |-> table'[k]]
    BY DEF Normalized
  <2>2. \A k \in Entries : table'[k] \in Entry
    <3> SUFFICES ASSUME NEW k \in Entries PROVE table'[k] \in Entry
      OBVIOUS
    <3>1. Unknown \in Peers \cup {Unknown} /\ 0 \in Lqis
      BY NumbersAssumption
    <3> DEFINE s == score(k)
               r == (rank(k) \div 2) + 1
    <3>2. /\ table[k] \in Entry /\ s \in 0..DefaultScore /\ r \in 0..(MaxRank - 1)
          /\ table'[k] = [table[k] EXCEPT !.score = s, !.rank = r]
      BY <1>1, <1>2, <1>3, <1>4
    <3> HIDE DEF s, r
    <3>3. [table[k] EXCEPT !.score = s, !.rank = r] \in Entry
      BY <3>1, <3>2, EntryUpdates, Zenon
    <3> QED BY <3>2, <3>3, Zenon
  <2> QED BY <2>1, <2>2 DEF TypeOK
<1>6. \A k \in Entries : /\ table'[k].dst = table[k].dst
                         /\ table'[k].nextHop = table[k].nextHop
                         /\ table'[k].score = score(k)
                         /\ table'[k].rank = (rank(k) \div 2) + 1
  <2> SUFFICES ASSUME NEW k \in Entries
               PROVE  /\ table'[k].dst = table[k].dst
                      /\ table'[k].nextHop = table[k].nextHop
                      /\ table'[k].score = score(k)
                      /\ table'[k].rank = (rank(k) \div 2) + 1
    OBVIOUS
  <2> DEFINE s == score(k)
             r == (rank(k) \div 2) + 1
  <2>1. table[k] \in Entry /\ table'[k] = [table[k] EXCEPT !.score = s, !.rank = r]
    BY <1>1, <1>2
  <2> HIDE DEF s, r
  <2>2. /\ table'[k].dst = table[k].dst /\ table'[k].nextHop = table[k].nextHop
        /\ table'[k].score = s /\ table'[k].rank = r
    BY <2>1 DEF Entry
  <2> QED BY <2>2 DEF s, r
<1>7. UniqueRoutes'
  BY <1>6 DEF UniqueRoutes, Live
<1>8. ScoresAndRanks'
  <2>1. \A k \in Entries : /\ Live(k) => 1 <= score(k) /\ 2 <= rank(k)
                           /\ ~Live(k) => rank(k) <= 1
    BY <1>1 DEF rank, score, ScoresAndRanks, Live, Entry
  <2>2. \A k \in Entries : /\ rank(k) >= 2 => (rank(k) \div 2) + 1 >= 2
                           /\ rank(k) <= 1 => (rank(k) \div 2) + 1 <= 1
    BY <1>3, HalvedRank
  <2>3. ASSUME NEW k \in Entries
        PROVE  /\ Live(k)' => /\ 1 <= table'[k].score
                              /\ table'[k].score <= DefaultScore
                              /\ 2 <= table'[k].rank
                              /\ table'[k].rank < MaxRank
               /\ ~Live(k)' => 0 <= table'[k].rank /\ table'[k].rank <= 1
    <3>1. Live(k)' <=> Live(k)
      BY <1>6 DEF Live
    <3>2. /\ table'[k].score = score(k) /\ table'[k].rank = (rank(k) \div 2) + 1
          /\ score(k) \in 0..DefaultScore /\ rank(k) \in 0..MaxRank
          /\ table'[k].rank \in 0..(MaxRank - 1)
      BY <1>3, <1>4, <1>6
    <3> HIDE DEF Live
    <3> QED BY <2>1, <2>2, <3>1, <3>2
  <2> QED BY <2>3 DEF ScoresAndRanks, Live
<1>9. NoRouteThroughNonRouting'
  BY <1>6 DEF NoRouteThroughNonRouting, Live
<1> QED BY <1>5, <1>7, <1>8, <1>9

(***************************************************************************)
(* Every operation keeps the invariant.                                    *)
(***************************************************************************)
LEMMA LearnKnownInv ==
  ASSUME IInv, NEW src \in Peers, NEW macSrc \in Peers, NEW lqi \in Lqis,
         NEW discovery \in BOOLEAN, LearnKnown(src, macSrc, lqi, discovery)
  PROVE  IInv'
<1> USE NumbersAssumption, AddressAssumption
<1>1. PICK e \in Entries :
        /\ FindEntry(e, src)
        /\ table' =
             IF Reroutes(e, macSrc, lqi, discovery)
             THEN [table EXCEPT ![e] = [@ EXCEPT !.nextHop = macSrc,
                                        !.score = DefaultScore, !.lqi = lqi]]
             ELSE [table EXCEPT ![e] = [@ EXCEPT !.lqi = lqi]]
  BY DEF LearnKnown
<1>2. /\ table[e] \in Entry /\ Live(e) /\ table[e].dst = src
      /\ \A k \in Entries : k # e => table[k].dst # src
      /\ macSrc \in NonRouting => macSrc = src
      /\ 1 <= table[e].score /\ 2 <= table[e].rank
  BY <1>1 DEF IInv, TypeOK, UniqueRoutes, ScoresAndRanks, FindEntry, Matches,
              Live, LearnKnown, Ignored
<1>3. CASE Reroutes(e, macSrc, lqi, discovery)
  <2> DEFINE new == [table[e] EXCEPT !.nextHop = macSrc,
                                     !.score = DefaultScore, !.lqi = lqi]
  <2>1. new \in Entry
    <3>1. /\ macSrc \in Peers \cup {Unknown}
          /\ DefaultScore \in 0..DefaultScore
      OBVIOUS
    <3> QED BY <1>2, <3>1, EntryUpdates, Zenon
  <2>2. /\ new.dst = src /\ new.nextHop = macSrc
        /\ new.score = DefaultScore /\ new.rank = table[e].rank
    BY <1>2 DEF Entry
  <2> HIDE DEF new
  <2>3. Sound(e, new)
    BY <1>2, <2>1, <2>2 DEF Sound
  <2> QED BY <1>1, <1>3, <2>3, OneEntryInv DEF new
<1>4. CASE ~Reroutes(e, macSrc, lqi, discovery)
  <2> DEFINE new == [table[e] EXCEPT !.lqi = lqi]
  <2>1. Sound(e, new)
    BY <1>2 DEF Sound, Entry, IInv, NoRouteThroughNonRouting
  <2> QED BY <1>1, <1>4, <2>1, OneEntryInv
<1> QED BY <1>3, <1>4

(* A new route goes to an entry that may be reused.                         *)
LEMMA LearnNewInv ==
  ASSUME IInv, NEW src \in Peers, NEW macSrc \in Peers, NEW lqi \in Lqis,
         LearnNew(src, macSrc, lqi)
  PROVE  IInv'
<1> USE NumbersAssumption, AddressAssumption
<1>1. PICK e \in Entries :
        table' = [table EXCEPT ![e] = NewRoute(src, macSrc, lqi)]
  BY DEF LearnNew
<1>2. /\ table[e] \in Entry
      /\ \A k \in Entries : table[k].dst # src
      /\ macSrc \in NonRouting => macSrc = src
  BY DEF IInv, TypeOK, LearnNew, NotFound, Matches, Ignored
<1>3. Sound(e, NewRoute(src, macSrc, lqi))
  BY <1>2 DEF Sound, NewRoute, Entry
<1> QED BY <1>1, <1>3, OneEntryInv

(* A success raises the rank, and all ranks at the maximum.                 *)
LEMMA FrameSentOKInv ==
  ASSUME IInv, NEW dst \in Peers, FrameSentOK(dst)
  PROVE  IInv'
<1> USE NumbersAssumption, AddressAssumption
<1>1. PICK e \in Entries :
        /\ FindEntry(e, dst)
        /\ LET used == [table EXCEPT ![e] = Used(@)]
           IN  table' = IF table[e].rank + 1 = MaxRank
                        THEN Normalized(used) ELSE used
  BY DEF FrameSentOK
<1>2. /\ table[e] \in Entry /\ Live(e) /\ table[e].dst = dst
      /\ \A k \in Entries : k # e => table[k].dst # dst
      /\ 2 <= table[e].rank
  BY <1>1 DEF IInv, TypeOK, UniqueRoutes, ScoresAndRanks, FindEntry, Matches, Live
<1>3. CASE table[e].rank + 1 = MaxRank
  BY <1>1, <1>2, <1>3, NormalizedInv
<1>4. CASE table[e].rank + 1 # MaxRank
  <2>1. Sound(e, Used(table[e]))
    BY <1>2, <1>4, UsedEntry DEF Sound, Entry, IInv, NoRouteThroughNonRouting, Live
  <2> QED BY <1>1, <1>4, <2>1, OneEntryInv
<1> QED BY <1>3, <1>4

(* A failure lowers the score, and at zero frees the entry.                 *)
LEMMA FrameSentFailedInv ==
  ASSUME IInv, NEW dst \in Peers, FrameSentFailed(dst)
  PROVE  IInv'
<1> USE NumbersAssumption, AddressAssumption
<1>1. PICK e \in Entries :
        /\ FindEntry(e, dst)
        /\ LET blamed == [table[e] EXCEPT !.score = @ - 1]
           IN  table' = [table EXCEPT ![e] =
                 IF blamed.score = 0 THEN Cleared(blamed) ELSE blamed]
  BY DEF FrameSentFailed
<1>2. /\ table[e] \in Entry /\ Live(e) /\ table[e].dst = dst
      /\ \A k \in Entries : k # e => table[k].dst # dst
      /\ 1 <= table[e].score /\ 2 <= table[e].rank
  BY <1>1 DEF IInv, TypeOK, UniqueRoutes, ScoresAndRanks, FindEntry, Matches, Live
<1> DEFINE blamed == [table[e] EXCEPT !.score = @ - 1]
<1>3. blamed \in Entry /\ blamed.score = table[e].score - 1
  BY <1>2 DEF Entry
<1>4. CASE blamed.score = 0
  <2> HIDE DEF blamed
  <2>1. Sound(e, Cleared(blamed))
    BY <1>3, ClearedEntry DEF Sound
  <2> QED BY <1>1, <1>4, <2>1, OneEntryInv DEF blamed
<1>5. CASE blamed.score # 0
  <2>1. Sound(e, blamed)
    BY <1>2, <1>3, <1>5 DEF Sound, Entry, IInv, NoRouteThroughNonRouting
  <2> QED BY <1>1, <1>5, <2>1, OneEntryInv
<1> QED BY <1>4, <1>5

(* A removed route leaves a free entry unless it is fixed.                  *)
LEMMA RemoveInv ==
  ASSUME IInv, NEW dst \in Peers \cup {Unknown}, Remove(dst)
  PROVE  IInv'
<1> USE NumbersAssumption, AddressAssumption
<1>1. PICK e \in Entries :
        FindEntry(e, dst) /\ table' = [table EXCEPT ![e] = Freed(e)]
  BY DEF Remove
<1>2. table[e] \in Entry
  BY DEF IInv, TypeOK
<1>3. CASE Fixed(e)
  <2>1. Sound(e, table[e])
    BY <1>2 DEF Sound, IInv, UniqueRoutes, ScoresAndRanks,
                NoRouteThroughNonRouting, Live
  <2> QED BY <1>1, <1>3, <2>1, OneEntryInv DEF Freed
<1>4. CASE ~Fixed(e)
  <2>1. Sound(e, Cleared(table[e]))
    BY <1>2, ClearedEntry DEF Sound
  <2> QED BY <1>1, <1>4, <2>1, OneEntryInv DEF Freed
<1> QED BY <1>3, <1>4

(* The invariant is inductive,                                              *)
LEMMA StepInv == IInv /\ [Next]_table => IInv'
<1> SUFFICES ASSUME IInv, [Next]_table PROVE IInv'
  OBVIOUS
<1>1. CASE Learn
  BY <1>1, LearnKnownInv, LearnNewInv DEF Learn
<1>2. CASE Sent
  BY <1>2, FrameSentOKInv, FrameSentFailedInv DEF Sent
<1>3. CASE Removed
  BY <1>3, RemoveInv DEF Removed
<1>4. CASE UNCHANGED table
  BY <1>4 DEF IInv, TypeOK, UniqueRoutes, ScoresAndRanks,
              NoRouteThroughNonRouting, Live
<1> QED BY <1>1, <1>2, <1>3, <1>4 DEF Next

(* and so holds in every reachable state.                                   *)
LEMMA Inductive == Spec => []IInv
<1> QED BY InitInv, StepInv, PTL DEF Spec

(* The fields of every entry stay in range: ranks stop short of the        *)
(* maximum and scores never wrap.                                          *)
THEOREM TypeCorrect == Spec => []TypeOK
<1> QED BY Inductive, PTL DEF IInv

(* There is never a second route to a destination.                         *)
THEOREM RoutesUnique == Spec => []UniqueRoutes
<1> QED BY Inductive, PTL DEF IInv

(* Live routes have a positive score and a rank above all free entries.    *)
THEOREM ScoresInRange == Spec => []ScoresAndRanks
<1> QED BY Inductive, PTL DEF IInv

(* Only a node that does not route itself is reached through one.          *)
THEOREM NonRoutingOnlyForThemselves == Spec => []NoRouteThroughNonRouting
<1> QED BY Inductive, PTL DEF IInv

(***************************************************************************)
(* Steps.                                                                  *)
(***************************************************************************)

(* A step that brings a new destination into an entry takes the entry that *)
(* NWK_RouteNewEntry() chose; no other operation sets a destination.       *)
LEMMA NewRouteByNewEntry ==
  ASSUME IInv, Next, NEW e \in Entries,
         table'[e].dst # table[e].dst, table'[e].dst # Unknown
  PROVE  NewEntry(e)
<1> USE NumbersAssumption DEF IInv, TypeOK
<1>1. ASSUME NEW k \in Entries, NEW entry, table' = [table EXCEPT ![k] = entry]
      PROVE  k = e /\ table'[e] = entry
  BY <1>1
<1>2. ASSUME NEW src \in Peers, NEW macSrc \in Peers, NEW lqi \in Lqis,
             LearnNew(src, macSrc, lqi)
      PROVE  NewEntry(e)
  BY <1>1, <1>2 DEF LearnNew
<1>3. ASSUME NEW src \in Peers, NEW macSrc \in Peers, NEW lqi \in Lqis,
             NEW discovery \in BOOLEAN, LearnKnown(src, macSrc, lqi, discovery)
      PROVE  FALSE
  BY <1>3 DEF LearnKnown, Entry
<1>4. ASSUME NEW dst \in Peers, FrameSentOK(dst) PROVE FALSE
  BY <1>4 DEF FrameSentOK, Used, Normalized, Entry
<1>5. ASSUME NEW dst \in Peers, FrameSentFailed(dst) PROVE FALSE
  BY <1>5 DEF FrameSentFailed, Cleared, Entry
<1>6. ASSUME NEW dst \in Peers \cup {Unknown}, Remove(dst) PROVE FALSE
  BY <1>6 DEF Remove, Freed, Cleared, Entry
<1> QED BY <1>2, <1>3, <1>4, <1>5, <1>6 DEF Next, Learn, Sent, Removed

(* A live route is evicted only from a full table, and the least used one. *)
THEOREM Evictions == Spec => EvictsOnlyWhenFull
<1>1. ASSUME IInv, [Next]_table
      PROVE  [\A e \in NewRoutes(table') :
                /\ \A k \in Entries : Fixed(k) \/ Live(k)
                /\ \A k \in Entries : Fixed(k) \/ table[e].rank <= table[k].rank]_table
  <2> SUFFICES ASSUME Next, NEW e \in NewRoutes(table')
               PROVE  /\ \A k \in Entries : Fixed(k) \/ Live(k)
                      /\ \A k \in Entries : Fixed(k) \/ table[e].rank <= table[k].rank
    BY <1>1
  <2>1. e \in Entries /\ Live(e) /\ NewEntry(e)
    BY <1>1, NewRouteByNewEntry DEF NewRoutes, Live
  <2>2. 2 <= table[e].rank
    BY <1>1, <2>1 DEF IInv, ScoresAndRanks
  <2> QED BY <1>1, <2>1, <2>2, NumbersAssumption
          DEF NewEntry, IInv, TypeOK, Entry, ScoresAndRanks
<1> QED BY <1>1, Inductive, PTL DEF Spec, EvictsOnlyWhenFull

(* An entry that the application has fixed keeps its destination.          *)
THEOREM FixedEntriesStay == Spec => PinnedStay
<1>1. ASSUME IInv, [Next]_table, NEW e \in Pinned
      PROVE  table'[e].dst = table[e].dst
  <2> SUFFICES ASSUME Next PROVE table'[e].dst = table[e].dst
    BY <1>1
  <2> USE <1>1, NumbersAssumption, PinnedAssumption DEF IInv, TypeOK, Fixed
  <2>1. e \in Entries /\ Fixed(e)
    OBVIOUS
  <2>2. ASSUME NEW src \in Peers, NEW macSrc \in Peers, NEW lqi \in Lqis,
               NEW discovery \in BOOLEAN, LearnKnown(src, macSrc, lqi, discovery)
        PROVE  table'[e].dst = table[e].dst
    BY <2>1, <2>2 DEF LearnKnown, Entry
  <2>3. ASSUME NEW src \in Peers, NEW macSrc \in Peers, NEW lqi \in Lqis,
               LearnNew(src, macSrc, lqi)
        PROVE  table'[e].dst = table[e].dst
    BY <2>1, <2>3 DEF LearnNew, NewEntry
  <2>4. ASSUME NEW dst \in Peers, FrameSentOK(dst)
        PROVE  table'[e].dst = table[e].dst
    BY <2>1, <2>4 DEF FrameSentOK, Used, Normalized, Entry
  <2>5. ASSUME NEW dst \in Peers, FrameSentFailed(dst)
        PROVE  table'[e].dst = table[e].dst
    BY <2>1, <2>5 DEF FrameSentFailed
  <2>6. ASSUME NEW dst \in Peers \cup {Unknown}, Remove(dst)
        PROVE  table'[e].dst = table[e].dst
    BY <2>1, <2>6 DEF Remove, Freed
  <2> QED BY <2>2, <2>3, <2>4, <2>5, <2>6 DEF Next, Learn, Sent, Removed
<1>2. IInv /\ [Next]_table
        => [\A e \in Pinned : table'[e].dst = table[e].dst]_table
  BY <1>1
<1> QED BY <1>2, Inductive, PTL DEF Spec, PinnedStay

===============================================================================
