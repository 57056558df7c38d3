-------------------------------- MODULE NwkRoute --------------------------------
(***************************************************************************)
(* The routing table of a node (nwkRoute.c).  The table is learnt from the *)
(* frames that come by: a frame from src, handed over by macSrc, says that *)
(* src can be reached through macSrc.  A route is trusted by its score,    *)
(* which failures lower, and ranked by its use, which decides who gives    *)
(* way when the table is full.  (The build has neither                     *)
(* NWK_ENABLE_ROUTE_DISCOVERY, which would fill the table otherwise, nor   *)
(* NWK_ENABLE_MULTICAST, so that every entry has the multicast flag 0.)    *)
(*                                                                         *)
(* An entry is free when its destination is NWK_ROUTE_UNKNOWN; its other   *)
(* fields keep what they were, as in the code.                             *)
(***************************************************************************)
EXTENDS Integers, FiniteSets

CONSTANTS
  NEntries,        \* NWK_ROUTE_TABLE_SIZE
  Peers,           \* unicast addresses of the other nodes
  NonRouting,      \* those with the bit NWK_ROUTE_NON_ROUTING
  Unknown,         \* NWK_ROUTE_UNKNOWN, also the broadcast address
  MaxLqi,          \* link quality is 0..255
  DefaultScore,    \* NWK_ROUTE_DEFAULT_SCORE
  DefaultRank,     \* NWK_ROUTE_DEFAULT_RANK
  MaxRank,         \* NWK_ROUTE_MAX_RANK
  Pinned           \* entries the application has marked fixed

Entries == 1..NEntries
Lqis == 0..MaxLqi

ASSUME EntriesAssumption == NEntries \in Nat \ {0}
ASSUME AddressAssumption ==
  Unknown \notin Peers /\ NonRouting \subseteq Peers
ASSUME NumbersAssumption ==
  /\ MaxLqi \in Nat
  /\ DefaultScore \in Nat \ {0}
  /\ DefaultRank \in Nat /\ MaxRank \in Nat
  /\ 2 <= DefaultRank /\ DefaultRank < MaxRank
(* NWK_RouteNewEntry() dereferences a null pointer when every entry is     *)
(* fixed, so an application must leave one to the stack.                   *)
ASSUME PinnedAssumption == Pinned \subseteq Entries /\ Pinned # Entries

VARIABLE table      \* nwkRouteTable[]

Entry ==
  [dst : Peers \cup {Unknown}, nextHop : Peers \cup {Unknown},
   score : 0..DefaultScore, rank : 0..(MaxRank - 1),
   lqi : Lqis]

Fixed(e) == e \in Pinned
Live(e) == table[e].dst # Unknown

(* NWK_RouteFindEntry(): the first entry for the destination.              *)
Matches(e, dst) == table[e].dst = dst

FindEntry(e, dst) ==
  /\ e \in Entries
  /\ Matches(e, dst)
  /\ \A k \in Entries : k < e => ~Matches(k, dst)

NotFound(dst) == \A e \in Entries : ~Matches(e, dst)

(* NWK_RouteNewEntry(): the first entry of rank 0, or else the first of    *)
(* the lowest rank, live or not; never a fixed one.                        *)
NewEntry(e) ==
  /\ e \in Entries /\ ~Fixed(e)
  /\ \/ /\ table[e].rank = 0
        /\ \A k \in Entries : k < e /\ ~Fixed(k) => table[k].rank # 0
     \/ /\ \A k \in Entries : ~Fixed(k) => table[k].rank # 0
        /\ \A k \in Entries : ~Fixed(k) =>
             /\ table[e].rank <= table[k].rank
             /\ k < e => table[e].rank < table[k].rank

(* The entry that NWK_RouteNewEntry() and the caller fill in together.     *)
NewRoute(dst, nextHop, lqi) ==
  [dst |-> dst, nextHop |-> nextHop, score |-> DefaultScore,
   rank |-> DefaultRank, lqi |-> lqi]

(* Bug for mutation runs: the rank of a freed entry stays.                 *)
FreedKeepsRank(e) ==
  IF Fixed(e) THEN table[e] ELSE [table[e] EXCEPT !.dst = Unknown]

(* NWK_RouteFreeEntry() *)
Cleared(entry) == [entry EXCEPT !.dst = Unknown, !.rank = 0]

Freed(e) == IF Fixed(e) THEN table[e] ELSE Cleared(table[e])

(* Bug for mutation runs: ranks are only halved.                           *)
Halved(t) == [e \in Entries |-> [t[e] EXCEPT !.rank = @ \div 2]]

(* nwkRouteNormalizeRanks() *)
Normalized(t) == [e \in Entries |-> [t[e] EXCEPT !.rank = (@ \div 2) + 1]]

(* Before the application pins anything all entries are free; a pinned one *)
(* holds some unicast route.                                               *)
Init ==
  table \in {t \in [Entries -> [dst : Peers \cup {Unknown},
                                nextHop : Peers \cup {Unknown},
                                score : {0, DefaultScore},
                                rank : {0, DefaultRank}, lqi : {0}]] :
    /\ \A e \in Entries :
         IF Fixed(e)
         THEN /\ t[e].dst # Unknown /\ t[e].nextHop # Unknown
              /\ t[e].score = DefaultScore /\ t[e].rank = DefaultRank
         ELSE /\ t[e].dst = Unknown /\ t[e].nextHop = Unknown
              /\ t[e].score = 0 /\ t[e].rank = 0
    /\ \A e, k \in Pinned : e # k => t[e].dst # t[k].dst}

Ignored(src, macSrc) == macSrc \in NonRouting /\ macSrc # src

Reroutes(e, macSrc, lqi, discovery) ==
  (table[e].nextHop # macSrc /\ lqi > table[e].lqi) \/ discovery

LearnKnown(src, macSrc, lqi, discovery) ==
  /\ ~Ignored(src, macSrc)
  /\ \E e \in Entries :
       /\ FindEntry(e, src)
       /\ table' =
            IF Reroutes(e, macSrc, lqi, discovery)
            THEN [table EXCEPT ![e] = [@ EXCEPT !.nextHop = macSrc,
                                       !.score = DefaultScore, !.lqi = lqi]]
            ELSE [table EXCEPT ![e] = [@ EXCEPT !.lqi = lqi]]

(* Bug for mutation runs: the table is not searched first.                 *)
LearnNewUnsearched(src, macSrc, lqi) ==
  /\ ~Ignored(src, macSrc)
  /\ \E e \in Entries :
       /\ NewEntry(e)
       /\ table' = [table EXCEPT ![e] = NewRoute(src, macSrc, lqi)]

LearnNew(src, macSrc, lqi) ==
  /\ ~Ignored(src, macSrc)
  /\ NotFound(src)
  /\ \E e \in Entries :
       /\ NewEntry(e)
       /\ table' = [table EXCEPT ![e] = NewRoute(src, macSrc, lqi)]

(* nwkRouteFrameSent() for a unicast frame with or without success.        *)
Used(entry) == [entry EXCEPT !.score = DefaultScore, !.rank = @ + 1]

FrameSentFailedForgiven(dst) ==
  \E e \in Entries :
    /\ FindEntry(e, dst)
    /\ ~Fixed(e)
    /\ table' = [table EXCEPT ![e].score = IF @ > 1 THEN @ - 1 ELSE @]

FrameSentOK(dst) ==
  \E e \in Entries :
    /\ FindEntry(e, dst)
    /\ ~Fixed(e)
    /\ LET used == [table EXCEPT ![e] = Used(@)]
       IN  table' = IF table[e].rank + 1 = MaxRank THEN Normalized(used) ELSE used

FrameSentFailed(dst) ==
  \E e \in Entries :
    /\ FindEntry(e, dst)
    /\ ~Fixed(e)
    /\ LET blamed == [table[e] EXCEPT !.score = @ - 1]
       IN  table' = [table EXCEPT ![e] =
             IF blamed.score = 0 THEN Cleared(blamed) ELSE blamed]

(* nwkRouteRemove(): after a route error, or a duplicate sent through us.  *)
Remove(dst) ==
  \E e \in Entries :
    /\ FindEntry(e, dst)
    /\ table' = [table EXCEPT ![e] = Freed(e)]

Learn ==
  \E src, macSrc \in Peers, lqi \in Lqis :
    \/ \E discovery \in BOOLEAN : LearnKnown(src, macSrc, lqi, discovery)
    \/ LearnNew(src, macSrc, lqi)

Sent == \E dst \in Peers : FrameSentOK(dst) \/ FrameSentFailed(dst)

Removed == \E dst \in Peers \cup {Unknown} : Remove(dst)

Next == Learn \/ Sent \/ Removed

Spec == Init /\ [][Next]_table

-------------------------------------------------------------------------------
TypeOK == table \in [Entries -> Entry]

(* A destination has one route: every search that stops at the first match *)
(* finds the entry that the other searches find.                           *)
UniqueRoutes ==
  \A e, k \in Entries :
    /\ Live(e)
    /\ table[e].dst = table[k].dst
    => e = k

(* A live route has a score that failures can still lower by one (the      *)
(* field is an unsigned four-bit number: at 0 it would wrap to 15), and a  *)
(* rank above that of every free entry, below the value that triggers the  *)
(* normalization.  Normalizing raises the rank of free entries from 0 to   *)
(* 1, so "rank 0 means free" is not the whole truth.                       *)
ScoresAndRanks ==
  \A e \in Entries :
    /\ Live(e) => /\ 1 <= table[e].score /\ table[e].score <= DefaultScore
                  /\ 2 <= table[e].rank /\ table[e].rank < MaxRank
    /\ ~Live(e) => 0 <= table[e].rank /\ table[e].rank <= 1

(* Learning a new destination costs an old route only when the table is    *)
(* full, and then it costs the least used one.                             *)
NewRoutes(t) == {e \in Entries : table[e].dst # Unknown /\ t[e].dst # table[e].dst
                                 /\ t[e].dst # Unknown}

EvictsOnlyWhenFull ==
  [][\A e \in NewRoutes(table') :
       /\ \A k \in Entries : Fixed(k) \/ Live(k)
       /\ \A k \in Entries : Fixed(k) \/ table[e].rank <= table[k].rank]_table

(* Frames for another node are never handed to one that does not route.    *)
NoRouteThroughNonRouting ==
  \A e \in Entries \ Pinned :
    Live(e) /\ table[e].nextHop \in NonRouting => table[e].nextHop = table[e].dst

(* A fixed entry is never given to another destination nor dropped, by     *)
(* whatever way a route is replaced, blamed or removed (its next hop may   *)
(* still be learnt anew).                                                  *)
PinnedStay == [][\A e \in Pinned : table'[e].dst = table[e].dst]_table

(* A next hop that keeps failing is given up: when from some time on there *)
(* is neither a success nor news of the destination, and frames to it go   *)
(* on failing while there is a route, then the route is forgotten for      *)
(* good, and the next frame is broadcast to look for a new one.            *)
Failure(dst) == FrameSentFailed(dst)
News(dst) ==
  \/ FrameSentOK(dst)
  \/ \E hop \in Peers, lqi \in Lqis :
       \/ \E discovery \in BOOLEAN : LearnKnown(dst, hop, lqi, discovery)
       \/ LearnNew(dst, hop, lqi)

FailingRouteForgotten ==
  \A dst \in Peers :
    <>[][~News(dst)]_table /\ WF_table(Failure(dst))
      => <>[](\A e \in Entries \ Pinned : ~Matches(e, dst))
===============================================================================
