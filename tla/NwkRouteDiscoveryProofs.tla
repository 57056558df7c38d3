-------------------------- MODULE NwkRouteDiscoveryProofs --------------------------
(***************************************************************************)
(* Route discovery for every network, number of slots and set of demands:  *)
(* TypeOK, WaitersHaveDiscovery and RoutesLead of NwkRouteDiscovery.       *)
(*                                                                         *)
(* Three facts carry the second.  An entry that has time left is pending:  *)
(* the timer of its node runs, or its handler has not come to it yet.  A   *)
(* frame that waits has an entry with time left.  And no two such entries  *)
(* are for the same discovery, so that the search for the first one finds  *)
(* it.  TypeOK needs a fact of its own: an entry for another node's        *)
(* discovery names a neighbour to pass the reply to, never the broadcast   *)
(* address an own entry has in its place.                                  *)
(*                                                                         *)
(* RoutesLead needs that next hops never close a loop.  No measure of a    *)
(* route tells its distance, since a better reply may come from a longer   *)
(* path, or from a repetition of the discovery.  What is inductive is that *)
(* there is some rank of the nodes by which all next hops go down          *)
(* (Downhill), and a set of nodes, those that have accepted a reply since  *)
(* an entry for the discovery died last, in which every next hop has seen  *)
(* a reply no worse (Learnt).  When a node accepts a reply, the nodes that *)
(* have seen as good a one lead to one another only and keep their ranks;  *)
(* the node and all the others move uphill of the sender (OrderLearns).    *)
(* When an entry dies no reply to it is on its way (Quiet), and the set is *)
(* empty again.  NoHoles says where a next hop leads to.  A walk that goes *)
(* down ends within as many steps as there are nodes.                      *)
(***************************************************************************)
EXTENDS NwkRouteDiscovery, WellFoundedInduction, FiniteSetTheorems, TLAPS

(* Commands travel over links only.                                        *)
OnLinks == \A m \in net : <<m.from, m.to>> \in DOMAIN Quality

SendersAreNeighbours ==
  \A n \in Nodes, i \in Slots :
    Live(table[n][i]) /\ table[n][i].src # n =>
      <<table[n][i].sender, n>> \in DOMAIN Quality

TypeInv == TypeOK /\ OnLinks /\ SendersAreNeighbours

Pending(n, i) == n \in timer \/ \E k \in 1..i : at = <<n, k>>

LiveArePending ==
  \A n \in Nodes, i \in Slots : Live(table[n][i]) => Pending(n, i)

WaitersMatch ==
  \A n \in Nodes, f \in Frames :
    waiting[n][f] # NONE => \E i \in Slots : Matches(table[n][i], n, waiting[n][f])

(* At most one entry of a table has time left for a discovery.             *)
OneEach(slots) ==
  \A i, k \in Slots :
    Live(slots[i]) /\ Matches(slots[k], slots[i].src, slots[i].dst) => i = k

OneEntryEach == \A n \in Nodes : OneEach(table[n])

IInv == LiveArePending /\ WaitersMatch /\ OneEntryEach

-------------------------------------------------------------------------------
(* Types                                                                   *)
LEMMA UpdateLqType == \A a, b \in Qualities : UpdateLq(a, b) \in Qualities
<1> SUFFICES ASSUME NEW a \in Qualities, NEW b \in Qualities
             PROVE  UpdateLq(a, b) \in Qualities
  OBVIOUS
<1>1. a \in 0..255 /\ b \in 0..255
  BY DEF Qualities, NoLink, Best
<1>2. a * b \in Nat /\ a * b <= 255 * b /\ 255 * b <= 255 * 255
  BY <1>1
<1>3. ASSUME NEW x \in Nat, x <= 65025
      PROVE  x \div 256 \in 0..255
  BY <1>3
<1>4. a * b \in Nat /\ a * b <= 65025
  BY <1>1, <1>2
<1>5. (a * b) \div 256 \in 0..255
  <2> DEFINE x == a * b
  <2>1. x \in Nat /\ x <= 65025
    BY <1>4
  <2> HIDE DEF x
  <2>2. x \div 256 \in 0..255
    BY <2>1, <1>3
  <2> QED
    BY <2>2 DEF x
<1> QED
  BY <1>5 DEF UpdateLq, Qualities, NoLink, Best

LEMMA PathQualityType ==
  ASSUME TypeInv, NEW m \in net
  PROVE  PathQuality(m) \in Qualities
<1>1. Quality[<<m.from, m.to>>] \in Qualities
  BY LinksAssumption DEF TypeInv, OnLinks
<1>2. (IF m.id = "request" THEN m.lq ELSE m.reverse) \in Qualities
  BY DEF TypeInv, TypeOK, Command
<1> QED
  BY <1>1, <1>2, UpdateLqType DEF PathQuality

LEMMA RequestType ==
  ASSUME NEW n \in Nodes, NEW src \in Nodes, NEW dst \in Targets, NEW lq \in Qualities,
         NEW sent \in MaySend(Request(n, src, dst, lq))
  PROVE  sent \subseteq Command /\ \A m \in sent : <<m.from, m.to>> \in DOMAIN Quality
<1>1. sent \subseteq Request(n, src, dst, lq)
  BY DEF MaySend
<1> SUFFICES ASSUME NEW m \in sent
             PROVE  m \in Command /\ <<m.from, m.to>> \in DOMAIN Quality
  OBVIOUS
<1>2. PICK k \in Nodes :
        /\ <<n, k>> \in DOMAIN Quality
        /\ m = [id |-> "request", from |-> n, to |-> k, src |-> src, dst |-> dst, lq |-> lq]
  BY <1>1 DEF Request, Neighbours
<1>3. m \in Command
  BY <1>2 DEF Command
<1> QED
  BY <1>2, <1>3

LEMMA ReplyType ==
  ASSUME NEW n \in Nodes, NEW to, NEW src \in Nodes, NEW dst \in Targets,
         NEW forward \in Qualities, NEW reverse \in Qualities,
         <<to, n>> \in DOMAIN Quality,
         NEW sent \in MaySend(Reply(n, to, src, dst, forward, reverse))
  PROVE  sent \subseteq Command /\ \A m \in sent : <<m.from, m.to>> \in DOMAIN Quality
<1>1. sent \subseteq Reply(n, to, src, dst, forward, reverse)
  BY DEF MaySend
<1>2. <<n, to>> \in DOMAIN Quality /\ to \in Nodes
  BY LinksAssumption
<1> QED
  BY <1>1, <1>2 DEF Reply, Command

LEMMA UnusedType == Unused \in Entry /\ ~Live(Unused)
BY BoundsAssumption DEF Unused, Entry, Live, Qualities, NoLink, Best

RealEntry ==
  [src : Nodes, dst : Targets, sender : Nodes \cup {Broadcast},
   forward : Qualities, reverse : Qualities, timeout : 0..Timeout]

LEMMA EntryKinds ==
  ASSUME NEW e \in Entry
  PROVE  /\ e = Unused \/ e \in RealEntry
         /\ e.reverse \in Qualities
         /\ e.timeout \in 0..Timeout
         /\ Live(e) => e \in RealEntry
         /\ [e EXCEPT !.timeout = 0] \in Entry
BY BoundsAssumption DEF Entry, RealEntry, Unused, Live, Qualities, NoLink, Best

LEMMA OwnEntryType ==
  ASSUME NEW n \in Nodes, NEW dst \in Targets
  PROVE  OwnEntry(n, dst) \in Entry /\ Matches(OwnEntry(n, dst), n, dst)
BY BoundsAssumption DEF OwnEntry, Entry, Matches, Live, Qualities, NoLink, Best

LEMMA InitTypeInv == Init => TypeInv
BY UnusedType, BoundsAssumption
  DEF Init, TypeInv, TypeOK, OnLinks, SendersAreNeighbours

LEMMA StartDiscoveryType ==
  ASSUME TypeInv, NEW n \in Nodes, NEW dst \in Targets, NEW sent,
         NEW slots \in [Slots -> Entry],
         \A i \in Slots : Live(slots[i]) => slots[i] = table[n][i],
         StartDiscovery(n, slots, dst, sent),
         UNCHANGED <<route, forgot>>, at' \in {NONE} \cup (Nodes \X Slots),
         waiting' \in [Nodes -> [Frames -> Targets \cup {NONE}]]
  PROVE  TypeInv'
<1>1. PICK j \in NewEntry(slots) :
        table' = [table EXCEPT ![n] = [slots EXCEPT ![j] = OwnEntry(n, dst)]]
  BY DEF StartDiscovery
<1>2. j \in Slots /\ OwnEntry(n, dst) \in Entry
  BY OwnEntryType DEF NewEntry
<1>3. table' \in [Nodes -> [Slots -> Entry]]
  BY <1>1, <1>2 DEF TypeInv, TypeOK
<1>4. net' \subseteq Command /\ OnLinks'
  <2>1. CASE sent
    <3>1. PICK heard \in MaySend(Request(n, n, dst, Best)) : net' = net \cup heard
      BY <2>1 DEF StartDiscovery
    <3>2. Best \in Qualities
      BY DEF Best, NoLink, Qualities
    <3> QED
      BY <3>1, <3>2, RequestType DEF TypeInv, TypeOK, OnLinks
  <2>2. CASE ~sent
    BY <2>2 DEF StartDiscovery, TypeInv, TypeOK, OnLinks
  <2> QED
    BY <2>1, <2>2
<1>5. SendersAreNeighbours'
  <2> SUFFICES ASSUME NEW k \in Nodes, NEW i \in Slots,
                      Live(table'[k][i]), table'[k][i].src # k
               PROVE  <<table'[k][i].sender, k>> \in DOMAIN Quality
    BY DEF SendersAreNeighbours
  <2>1. CASE k = n /\ i = j
    BY <1>1, <1>2, <2>1 DEF TypeInv, TypeOK, OwnEntry
  <2>2. CASE k = n /\ i # j
    <3>1. table'[k][i] = slots[i]
      BY <1>1, <1>2, <2>2 DEF TypeInv, TypeOK
    <3> QED
      BY <2>2, <3>1 DEF TypeInv, SendersAreNeighbours
  <2>3. CASE k # n
    <3>1. table'[k][i] = table[k][i]
      BY <1>1, <2>3 DEF TypeInv, TypeOK
    <3> QED
      BY <3>1 DEF TypeInv, SendersAreNeighbours
  <2> QED
    BY <2>1, <2>2, <2>3
<1>6. timer' \subseteq Nodes
  BY DEF StartDiscovery, TypeInv, TypeOK
<1> QED
  BY <1>3, <1>4, <1>5, <1>6 DEF TypeInv, TypeOK

LEMMA FrameWithoutRouteType ==
  ASSUME TypeInv, NEW n \in Nodes, NEW f \in Frames, NEW dst \in Targets,
         FrameWithoutRoute(n, f, dst)
  PROVE  TypeInv'
<1>1. waiting' \in [Nodes -> [Frames -> Targets \cup {NONE}]]
  <2>1. waiting' = waiting \/ waiting' = [waiting EXCEPT ![n][f] = dst]
    BY DEF FrameWithoutRoute
  <2>2. waiting \in [Nodes -> [Frames -> Targets \cup {NONE}]]
    BY DEF TypeInv, TypeOK
  <2>3. [waiting[n] EXCEPT ![f] = dst] \in [Frames -> Targets \cup {NONE}]
    BY <2>2
  <2> QED
    BY <2>1, <2>2, <2>3
<1>2. table[n] \in [Slots -> Entry]
  BY DEF TypeInv, TypeOK
<1>3. CASE \E sent \in BOOLEAN : StartDiscovery(n, table[n], dst, sent)
  <2>1. PICK sent \in BOOLEAN : StartDiscovery(n, table[n], dst, sent)
    BY <1>3
  <2>2. UNCHANGED <<route, forgot>> /\ at' \in {NONE} \cup (Nodes \X Slots)
    BY DEF FrameWithoutRoute, TypeInv, TypeOK
  <2> QED
    BY <1>1, <1>2, <2>1, <2>2, StartDiscoveryType
<1>4. CASE UNCHANGED <<table, timer, net>>
  BY <1>1, <1>4
  DEF FrameWithoutRoute, TypeInv, TypeOK, OnLinks, SendersAreNeighbours
<1> QED
  BY <1>3, <1>4 DEF FrameWithoutRoute

(* What a node enters for a request: the entry and the sender it names.    *)
LEMMA EnterRequestType ==
  ASSUME TypeInv, NEW m \in net, EnterRequest(m.to, m)
  PROVE  /\ table' \in [Nodes -> [Slots -> Entry]]
         /\ timer' \subseteq Nodes
         /\ SendersAreNeighbours'
<1> DEFINE n == m.to
<1>1. /\ n \in Nodes /\ m.src \in Nodes /\ m.from \in Nodes /\ m.dst \in Targets
      /\ <<m.from, n>> \in DOMAIN Quality
  BY DEF TypeInv, TypeOK, Command, OnLinks
<1>2. PICK i \in Slots : table' = [table EXCEPT ![n][i] = Heard(@, m)]
  BY DEF EnterRequest, FindEntry, NewEntry
<1>3. Heard(table[n][i], m) \in Entry
  <2>1. table[n][i] \in Entry
    BY <1>1, <1>2 DEF TypeInv, TypeOK
  <2>2. PathQuality(m) \in Qualities /\ NoLink \in Qualities /\ Timeout \in 0..Timeout
    BY PathQualityType, BoundsAssumption DEF Qualities, NoLink, Best
  <2> QED
    <3> DEFINE h == Heard(table[n][i], m)
    <3>1. h.reverse \in Qualities /\ h.timeout \in 0..Timeout
      BY <2>1, <2>2, EntryKinds DEF Heard
    <3>2. h = [src |-> m.src, dst |-> m.dst, sender |-> m.from,
               forward |-> PathQuality(m), reverse |-> h.reverse, timeout |-> h.timeout]
      BY DEF Heard
    <3>3. h \in RealEntry
      BY <1>1, <2>2, <3>1, <3>2 DEF RealEntry
    <3> QED
      BY <3>3 DEF Entry, RealEntry
<1>4. table' \in [Nodes -> [Slots -> Entry]]
  BY <1>1, <1>2, <1>3 DEF TypeInv, TypeOK
<1>5. timer' \subseteq Nodes
  BY <1>1 DEF EnterRequest, TypeInv, TypeOK
<1>6. SendersAreNeighbours'
  <2> SUFFICES ASSUME NEW k \in Nodes, NEW j \in Slots,
                      Live(table'[k][j]), table'[k][j].src # k
               PROVE  <<table'[k][j].sender, k>> \in DOMAIN Quality
    BY DEF SendersAreNeighbours
  <2>1. CASE k = n /\ j = i
    <3>1. table'[k][j] = Heard(table[n][i], m)
      BY <1>1, <1>2, <2>1 DEF TypeInv, TypeOK
    <3> QED
      BY <1>1, <2>1, <3>1 DEF Heard
  <2>2. CASE k # n \/ j # i
    <3>1. table'[k][j] = table[k][j]
      BY <1>2, <2>2 DEF TypeInv, TypeOK
    <3> QED
      BY <3>1 DEF TypeInv, SendersAreNeighbours
  <2> QED
    BY <2>1, <2>2
<1> QED
  BY <1>4, <1>5, <1>6

(* A reply changes one entry, and of that only the quality it has seen.    *)
LEMMA ImprovesType ==
  ASSUME TypeInv, NEW m \in net, m.id = "reply", NEW i \in Improves(m.to, m),
         table' = [table EXCEPT ![m.to][i].reverse = m.forward]
  PROVE  /\ table' \in [Nodes -> [Slots -> Entry]]
         /\ SendersAreNeighbours'
<1> DEFINE n == m.to
<1>1. n \in Nodes /\ m.forward \in Qualities /\ i \in Slots
  BY DEF TypeInv, TypeOK, Command, Improves, FindEntry
<1>2. [table[n][i] EXCEPT !.reverse = m.forward] \in Entry
  <2>1. table[n][i] \in Entry
    BY <1>1 DEF TypeInv, TypeOK
  <2>2. table[n][i] \in RealEntry
    BY <2>1, EntryKinds DEF Improves, FindEntry, Matches
  <2> QED
    BY <1>1, <2>2 DEF Entry, RealEntry
<1>3. table' \in [Nodes -> [Slots -> Entry]]
  BY <1>1, <1>2 DEF TypeInv, TypeOK
<1>4. \A k \in Nodes, j \in Slots :
        /\ table'[k][j].src = table[k][j].src
        /\ table'[k][j].sender = table[k][j].sender
        /\ table'[k][j].timeout = table[k][j].timeout
  <2> TAKE k \in Nodes, j \in Slots
  <2>1. CASE k = n /\ j = i
    <3>1. table'[k][j] = [table[n][i] EXCEPT !.reverse = m.forward]
      BY <1>1, <2>1 DEF TypeInv, TypeOK
    <3> QED
      BY <1>1, <2>1, <3>1 DEF TypeInv, TypeOK, Entry
  <2>2. CASE k # n \/ j # i
    BY <2>2 DEF TypeInv, TypeOK
  <2> QED
    BY <2>1, <2>2
<1> QED
  BY <1>3, <1>4 DEF TypeInv, SendersAreNeighbours, Live

LEMMA ReceiveType == ASSUME TypeInv, NEW m \in net, Receive(m) PROVE TypeInv'
<1> DEFINE n == m.to
<1>1. /\ n \in Nodes /\ m.src \in Nodes /\ m.from \in Nodes /\ m.dst \in Targets
      /\ <<m.from, n>> \in DOMAIN Quality
      /\ m.id = "reply" => m.forward \in Qualities
  BY DEF TypeInv, TypeOK, Command, OnLinks
<1>2. UNCHANGED <<at, waiting, forgot>>
  BY DEF Receive
<1>3. PathQuality(m) \in Qualities /\ Best \in Qualities
  BY PathQualityType DEF Qualities, NoLink, Best
<1>4. ASSUME NEW sent, sent \subseteq Command,
             \A k \in sent : <<k.from, k.to>> \in DOMAIN Quality,
             net' = (net \ {m}) \cup sent
      PROVE  net' \subseteq Command /\ OnLinks'
  BY <1>4 DEF TypeInv, TypeOK, OnLinks
<1>5. ASSUME NEW sent, net' = (net \ {m}) \cup sent, sent = {}
      PROVE  net' \subseteq Command /\ OnLinks'
  BY <1>4, <1>5
<1>6. CASE RequestIgnored(n, m) \/ ReplyIgnored(n, m)
  BY <1>2, <1>6
  DEF RequestIgnored, ReplyIgnored, TypeInv, TypeOK, OnLinks, SendersAreNeighbours
<1>7. CASE RequestAnswered(n, m)
  <2>1. PICK sent \in MaySend(Reply(n, m.from, m.src, m.dst, PathQuality(m), Best)) :
          net' = (net \ {m}) \cup sent
    BY <1>7 DEF RequestAnswered
  <2>2. net' \subseteq Command /\ OnLinks'
    BY <1>1, <1>3, <1>4, <2>1, ReplyType
  <2>3. route' \in [Nodes -> [Targets -> Nodes \cup {Unknown}]]
    BY <1>1, <1>7 DEF RequestAnswered, UpdateEntry, TypeInv, TypeOK, Targets
  <2> QED
    BY <1>2, <1>7, <2>2, <2>3, EnterRequestType DEF RequestAnswered, TypeInv, TypeOK
<1>8. CASE RequestPassedOn(n, m)
  <2>1. PICK sent \in MaySend(Request(n, m.src, m.dst, PathQuality(m))) :
          net' = (net \ {m}) \cup sent
    BY <1>8 DEF RequestPassedOn
  <2>2. net' \subseteq Command /\ OnLinks'
    BY <1>1, <1>3, <1>4, <2>1, RequestType
  <2> QED
    BY <1>2, <1>8, <2>2, EnterRequestType DEF RequestPassedOn, TypeInv, TypeOK
<1>9. CASE ReplyArrived(n, m)
  <2>1. PICK i \in Improves(n, m) : table' = [table EXCEPT ![n][i].reverse = m.forward]
    BY <1>9 DEF ReplyArrived
  <2>2. table' \in [Nodes -> [Slots -> Entry]] /\ SendersAreNeighbours'
    BY <1>9, <2>1, ImprovesType DEF ReplyArrived
  <2>3. route' \in [Nodes -> [Targets -> Nodes \cup {Unknown}]]
    BY <1>1, <1>9 DEF ReplyArrived, UpdateEntry, TypeInv, TypeOK
  <2> QED
    BY <1>2, <1>9, <2>2, <2>3 DEF ReplyArrived, TypeInv, TypeOK, OnLinks
<1>10. CASE ReplyPassedOn(n, m)
  <2>1. PICK i \in Improves(n, m) :
          /\ table' = [table EXCEPT ![n][i].reverse = m.forward]
          /\ route' = UpdateEntry(UpdateEntry(route, n, m.dst, m.from), n, m.src,
                                  table[n][i].sender)
          /\ \E sent \in MaySend(Reply(n, table[n][i].sender, m.src, m.dst, m.forward,
                                       PathQuality(m))) :
               net' = (net \ {m}) \cup sent
    BY <1>10 DEF ReplyPassedOn
  <2>2. table' \in [Nodes -> [Slots -> Entry]] /\ SendersAreNeighbours'
    BY <1>10, <2>1, ImprovesType DEF ReplyPassedOn
  <2>3. <<table[n][i].sender, n>> \in DOMAIN Quality /\ table[n][i].sender \in Nodes
    <3>1. i \in Slots /\ Live(table[n][i]) /\ table[n][i].src = m.src /\ m.src # n
      BY <1>10, <2>1 DEF Improves, FindEntry, Matches, ReplyPassedOn
    <3> QED
      BY <1>1, <3>1, LinksAssumption DEF TypeInv, SendersAreNeighbours
  <2>4. PICK sent \in MaySend(Reply(n, table[n][i].sender, m.src, m.dst, m.forward,
                                    PathQuality(m))) :
          net' = (net \ {m}) \cup sent
    BY <2>1
  <2>5. m.forward \in Qualities
    BY <1>1, <1>10 DEF ReplyPassedOn
  <2>6. net' \subseteq Command /\ OnLinks'
    BY <1>1, <1>3, <1>4, <2>3, <2>4, <2>5, ReplyType
  <2>7. route' \in [Nodes -> [Targets -> Nodes \cup {Unknown}]]
    BY <1>1, <2>1, <2>3 DEF UpdateEntry, TypeInv, TypeOK, Targets
  <2> QED
    BY <1>2, <1>10, <2>2, <2>6, <2>7 DEF ReplyPassedOn, TypeInv, TypeOK
<1> QED
  BY <1>6, <1>7, <1>8, <1>9, <1>10 DEF Receive

(* The handler changes one slot, whose new value is older or unused.       *)
LEMMA OlderType ==
  ASSUME TypeInv, NEW n \in Nodes, NEW i \in Slots, NEW e \in Entry,
         table' = [table EXCEPT ![n][i] = e],
         Live(e) => e.sender = table[n][i].sender /\ e.src = table[n][i].src
                    /\ Live(table[n][i])
  PROVE  table' \in [Nodes -> [Slots -> Entry]] /\ SendersAreNeighbours'
<1>1. table' \in [Nodes -> [Slots -> Entry]]
  BY DEF TypeInv, TypeOK
<1>2. SendersAreNeighbours'
  <2> SUFFICES ASSUME NEW k \in Nodes, NEW j \in Slots,
                      Live(table'[k][j]), table'[k][j].src # k
               PROVE  <<table'[k][j].sender, k>> \in DOMAIN Quality
    BY DEF SendersAreNeighbours
  <2>1. CASE k = n /\ j = i
    <3>1. table'[k][j] = e
      BY <2>1 DEF TypeInv, TypeOK
    <3> QED
      BY <2>1, <3>1 DEF TypeInv, SendersAreNeighbours
  <2>2. CASE k # n \/ j # i
    <3>1. table'[k][j] = table[k][j]
      BY <2>2 DEF TypeInv, TypeOK
    <3> QED
      BY <3>1 DEF TypeInv, SendersAreNeighbours
  <2> QED
    BY <2>1, <2>2
<1> QED
  BY <1>1, <1>2

LEMMA LookAtSlotType ==
  ASSUME TypeInv, NEW n \in Nodes, NEW i \in Slots, LookAtSlot(n, i)
  PROVE  TypeInv'
<1> DEFINE e == table[n][i]
<1>1. e \in Entry /\ Timeout \in Nat \ {0}
  BY BoundsAssumption DEF TypeInv, TypeOK
<1>2. UNCHANGED <<route, forgot>>
  BY DEF LookAtSlot
<1>3. at' \in {NONE} \cup (Nodes \X Slots)
  BY BoundsAssumption DEF LookAtSlot, NextSlot, Slots
<1>4. ASSUME NEW w, waiting' = w, w \in [Nodes -> [Frames -> Targets \cup {NONE}]],
             UNCHANGED net, timer' \subseteq Nodes,
             NEW new \in Entry, table' = [table EXCEPT ![n][i] = new],
             Live(new) => new.sender = e.sender /\ new.src = e.src /\ Live(e)
      PROVE  TypeInv'
  BY <1>2, <1>3, <1>4, OlderType DEF TypeInv, TypeOK, OnLinks
<1>5. [e EXCEPT !.timeout = 0] \in Entry /\ ~Live([e EXCEPT !.timeout = 0])
  <2>1. [e EXCEPT !.timeout = 0].timeout = 0
    BY <1>1 DEF Entry, Unused
  <2> QED
    BY <1>1, <2>1, EntryKinds DEF Live
<1>6. waiting \in [Nodes -> [Frames -> Targets \cup {NONE}]] /\ timer \subseteq Nodes
  BY DEF TypeInv, TypeOK
<1>7. CASE SlotLives(n, i, e)
  <2>0. e \in RealEntry /\ e.timeout \in 0..Timeout /\ e.timeout > 1
    <3>1. e.timeout > 1
      BY <1>7 DEF SlotLives
    <3>2. e.timeout \in 0..Timeout /\ (Live(e) => e \in RealEntry)
      BY <1>1, EntryKinds
    <3> QED
      BY <1>1, <3>1, <3>2 DEF Live
  <2>1. [e EXCEPT !.timeout = @ - 1] \in Entry
    BY <1>1, <2>0 DEF RealEntry, Entry
  <2>2. table' = [table EXCEPT ![n][i] = [e EXCEPT !.timeout = @ - 1]]
    BY <1>7 DEF SlotLives, TypeInv, TypeOK
  <2>3. Live(e)
    BY <2>0 DEF Live
  <2>4. [e EXCEPT !.timeout = @ - 1].sender = e.sender
        /\ [e EXCEPT !.timeout = @ - 1].src = e.src
    BY <1>1 DEF Entry
  <2> QED
    BY <1>4, <1>6, <1>7, <2>1, <2>2, <2>3, <2>4 DEF SlotLives
<1>8. CASE SlotOfOthers(n, i, e)
  BY <1>4, <1>6, <1>8, UnusedType DEF SlotOfOthers
<1>9. CASE Done(n, i, e)
  <2>1. table' = [table EXCEPT ![n][i] = [e EXCEPT !.timeout = 0]]
    BY <1>9 DEF Done, TypeInv, TypeOK
  <2> DEFINE left == [f \in Frames |-> IF f \in WaitingFor(n, e.dst) THEN NONE
                                       ELSE waiting[n][f]]
  <2>2. left \in [Frames -> Targets \cup {NONE}]
    BY <1>6
  <2>3. waiting' = [waiting EXCEPT ![n] = left]
    BY <1>9 DEF Done
  <2> HIDE DEF left
  <2>4. waiting' \in [Nodes -> [Frames -> Targets \cup {NONE}]]
    BY <1>6, <2>2, <2>3
  <2> QED
    BY <1>4, <1>5, <1>6, <1>9, <2>1, <2>4 DEF Done
<1>10. CASE DoneAgain(n, i, e)
  <2> DEFINE ended == [table[n] EXCEPT ![i].timeout = 0]
  <2>1. ended = [table[n] EXCEPT ![i] = [e EXCEPT !.timeout = 0]]
    BY DEF TypeInv, TypeOK
  <2>2. ended \in [Slots -> Entry]
    BY <1>5, <2>1 DEF TypeInv, TypeOK
  <2>3. \A k \in Slots : Live(ended[k]) => ended[k] = table[n][k]
    BY <1>5, <2>1 DEF TypeInv, TypeOK
  <2> HIDE DEF ended
  <2>4. waiting' \in [Nodes -> [Frames -> Targets \cup {NONE}]]
    <3>1. waiting' = waiting
          \/ \E f \in Frames : waiting' = [waiting EXCEPT ![n][f] = NONE]
      BY <1>10 DEF DoneAgain, WaitingFor
    <3>2. \A f \in Frames : [waiting[n] EXCEPT ![f] = NONE] \in [Frames -> Targets \cup {NONE}]
      BY <1>6
    <3> QED
      BY <1>6, <3>1, <3>2
  <2>5. e.dst \in Targets
    BY <1>1, <1>10, NodesAssumption DEF DoneAgain, Entry, Unused, Targets
  <2>6. ASSUME NEW sent, NEW dst \in Targets, StartDiscovery(n, ended, dst, sent)
        PROVE  TypeInv'
    BY <1>2, <1>3, <2>2, <2>3, <2>4, <2>6, StartDiscoveryType
  <2>7. StartDiscovery(n, ended, e.dst, TRUE) \/ StartDiscovery(n, ended, e.dst, FALSE) => TypeInv'
    BY <2>5, <2>6
  <2>8. CASE table' = [table EXCEPT ![n] = ended] /\ UNCHANGED <<timer, waiting, net>>
    <3>1. table' = [table EXCEPT ![n][i] = [e EXCEPT !.timeout = 0]]
      BY <2>1, <2>8 DEF TypeInv, TypeOK
    <3> QED
      BY <1>4, <1>5, <1>6, <2>4, <2>8, <3>1
  <2> QED
    BY <1>10, <2>7, <2>8 DEF DoneAgain, ended
<1> QED
  BY <1>7, <1>8, <1>9, <1>10 DEF LookAtSlot

LEMMA StepTypeInv == TypeInv /\ [Next]_vars => TypeInv'
<1> SUFFICES ASSUME TypeInv, [Next]_vars
             PROVE  TypeInv'
  OBVIOUS
<1>1. ASSUME NEW n \in Nodes, NEW f \in Frames, NEW dst \in Targets,
             FrameWithoutRoute(n, f, dst)
      PROVE  TypeInv'
  BY <1>1, FrameWithoutRouteType
<1>2. ASSUME NEW m \in net, Receive(m)
      PROVE  TypeInv'
  BY <1>2, ReceiveType
<1>3. ASSUME NEW n \in Nodes, TimerFires(n)
      PROVE  TypeInv'
  BY <1>3, BoundsAssumption
  DEF TimerFires, TypeInv, TypeOK, OnLinks, SendersAreNeighbours, Slots
<1>4. ASSUME NEW n \in Nodes, NEW i \in Slots, LookAtSlot(n, i)
      PROVE  TypeInv'
  BY <1>4, LookAtSlotType
<1>5. ASSUME NEW n \in Nodes, NEW dst \in Targets, Forget(n, dst)
      PROVE  TypeInv'
  <2>1. route' \in [Nodes -> [Targets -> Nodes \cup {Unknown}]]
    <3>1. [route[n] EXCEPT ![dst] = Unknown] \in [Targets -> Nodes \cup {Unknown}]
      BY DEF TypeInv, TypeOK
    <3> QED
      BY <1>5, <3>1 DEF Forget, TypeInv, TypeOK
  <2> QED
    BY <1>5, <2>1 DEF Forget, TypeInv, TypeOK, OnLinks, SendersAreNeighbours
<1>6. CASE UNCHANGED vars
  BY <1>6 DEF vars, TypeInv, TypeOK, OnLinks, SendersAreNeighbours
<1> QED
  BY <1>1, <1>2, <1>3, <1>4, <1>5, <1>6 DEF Next

(* Tables, routes, waiting frames and commands keep their types, whatever  *)
(* the network and the order in which commands arrive.                     *)
THEOREM DiscoveryTypes == Spec => []TypeOK
<1>1. TypeInv => TypeOK
  BY DEF TypeInv
<1> QED
  BY <1>1, InitTypeInv, StepTypeInv, PTL DEF Spec

-------------------------------------------------------------------------------
(* Discoveries                                                             *)
(* Where entries are unique the search finds the one that matches.         *)
LEMMA FoundIsOnly ==
  ASSUME NEW slots, OneEach(slots), NEW i \in Slots, NEW src, NEW dst,
         Matches(slots[i], src, dst)
  PROVE  FindEntry(slots, src, dst) = {i}
<1>1. \A k \in Slots : Matches(slots[k], src, dst) => k = i
  BY DEF OneEach, Matches
<1>2. \A k \in Slots : k < i => k # i
  BY DEF Slots
<1> QED
  BY <1>1, <1>2 DEF FindEntry

LEMMA OneEachKept ==
  ASSUME NEW a, NEW b, OneEach(a),
         \A j \in Slots : Live(b[j]) => /\ Live(a[j])
                                       /\ b[j].src = a[j].src
                                       /\ b[j].dst = a[j].dst
  PROVE  OneEach(b)
BY DEF OneEach, Matches

LEMMA OneEachNew ==
  ASSUME NEW a, NEW b, OneEach(a), NEW i \in Slots,
         FindEntry(a, b[i].src, b[i].dst) = {},
         \A j \in Slots \ {i} : b[j] = a[j]
  PROVE  OneEach(b)
<1>1. \A j \in Slots : ~Matches(a[j], b[i].src, b[i].dst)
  BY FoundIsOnly
<1> QED
  BY <1>1 DEF OneEach, Matches

(* Outside the handler what is pending is what the timer will come to.     *)
LEMMA PendingInTimer ==
  ASSUME at = NONE, NEW n \in Nodes, NEW i \in Slots
  PROVE  Pending(n, i) <=> n \in timer
<1>1. \A k \in 1..i : <<n, k>> \in Nodes \X Slots
  BY BoundsAssumption DEF Slots
<1> QED
  BY <1>1, BoundsAssumption DEF Pending

(* A discovery that starts, from the handler or not, keeps the others.     *)
LEMMA StartDiscoveryInv ==
  ASSUME TypeInv, IInv, NEW n \in Nodes, NEW dst \in Targets, NEW sent,
         NEW slots \in [Slots -> Entry], OneEach(slots),
         StartDiscovery(n, slots, dst, sent),
         \A k \in Nodes \ {n}, j \in Slots : Pending(k, j) => Pending(k, j)',
         \A k \in Nodes \ {n} : waiting'[k] = waiting[k],
         \A f \in Frames : waiting'[n][f] # NONE =>
           waiting'[n][f] = dst \/ \E j \in Slots : Matches(slots[j], n, waiting'[n][f])
  PROVE  IInv'
<1>1. PICK i \in NewEntry(slots) :
        table' = [table EXCEPT ![n] = [slots EXCEPT ![i] = OwnEntry(n, dst)]]
  BY DEF StartDiscovery
<1>2. i \in Slots /\ ~Live(slots[i])
  BY DEF NewEntry
<1>3. table'[n][i] = OwnEntry(n, dst)
  BY <1>1, <1>2 DEF TypeInv, TypeOK
<1>4. \A j \in Slots \ {i} : table'[n][j] = slots[j]
  BY <1>1 DEF TypeInv, TypeOK
<1>5. \A k \in Nodes \ {n} : table'[k] = table[k]
  BY <1>1 DEF TypeInv, TypeOK
<1>6. Matches(table'[n][i], n, dst)
  BY <1>3, BoundsAssumption DEF OwnEntry, Matches, Live
<1>7. LiveArePending'
  <2> SUFFICES ASSUME NEW k \in Nodes, NEW j \in Slots, Live(table'[k][j])
               PROVE  Pending(k, j)'
    BY DEF LiveArePending
  <2>1. CASE k = n
    BY <2>1 DEF StartDiscovery, Pending
  <2>2. CASE k # n
    BY <2>2, <1>5 DEF IInv, LiveArePending
  <2> QED
    BY <2>1, <2>2
<1>8. WaitersMatch'
  <2> SUFFICES ASSUME NEW k \in Nodes, NEW f \in Frames, waiting'[k][f] # NONE
               PROVE  \E j \in Slots : Matches(table'[k][j], k, waiting'[k][f])
    BY DEF WaitersMatch
  <2>1. CASE k = n
    BY <2>1, <1>2, <1>4, <1>6 DEF Matches
  <2>2. CASE k # n
    BY <2>2, <1>5 DEF IInv, WaitersMatch
  <2> QED
    BY <2>1, <2>2
<1>9. OneEntryEach'
  <2>1. FindEntry(slots, table'[n][i].src, table'[n][i].dst) = {}
    BY <1>3 DEF StartDiscovery, OwnEntry
  <2>2. OneEach(table'[n])
    BY <1>2, <1>4, <2>1, OneEachNew
  <2>3. \A k \in Nodes \ {n} : OneEach(table'[k])
    BY <1>5 DEF IInv, OneEntryEach
  <2> QED
    BY <2>2, <2>3 DEF OneEntryEach
<1> QED
  BY <1>7, <1>8, <1>9 DEF IInv

LEMMA FrameWithoutRouteInv ==
  ASSUME TypeInv, IInv, NEW n \in Nodes, NEW f \in Frames, NEW dst \in Targets,
         FrameWithoutRoute(n, f, dst)
  PROVE  IInv'
<1>1. \A k \in Nodes \ {n} : waiting'[k] = waiting[k]
  BY DEF FrameWithoutRoute, TypeInv, TypeOK
<1>2. \A g \in Frames : waiting'[n][g] = waiting[n][g] \/ waiting'[n][g] = dst
  <2>1. waiting' = waiting \/ waiting' = [waiting EXCEPT ![n] = [waiting[n] EXCEPT ![f] = dst]]
    BY DEF FrameWithoutRoute
  <2>2. waiting \in [Nodes -> [Frames -> Targets \cup {NONE}]]
    BY DEF TypeInv, TypeOK
  <2>3. waiting'[n] = waiting[n] \/ waiting'[n] = [waiting[n] EXCEPT ![f] = dst]
    BY <2>1, <2>2
  <2> QED
    BY <2>2, <2>3
<1>3. ASSUME NEW sent, StartDiscovery(n, table[n], dst, sent)
      PROVE  IInv'
  <2>1. OneEach(table[n]) /\ table[n] \in [Slots -> Entry]
    BY DEF IInv, OneEntryEach, TypeInv, TypeOK
  <2>2. \A k \in Nodes \ {n}, j \in Slots : Pending(k, j) => Pending(k, j)'
    BY <1>3 DEF FrameWithoutRoute, StartDiscovery, Pending
  <2>3. \A g \in Frames : waiting'[n][g] # NONE =>
          waiting'[n][g] = dst \/ \E j \in Slots : Matches(table[n][j], n, waiting'[n][g])
    BY <1>2 DEF IInv, WaitersMatch
  <2> QED
    BY <1>1, <1>3, <2>1, <2>2, <2>3, StartDiscoveryInv
<1>4. CASE FindEntry(table[n], n, dst) # {} /\ UNCHANGED <<table, timer, net>>
  <2>1. \E j \in Slots : Matches(table[n][j], n, dst)
    BY <1>4 DEF FindEntry
  <2>2. WaitersMatch'
    <3> SUFFICES ASSUME NEW k \in Nodes, NEW g \in Frames, waiting'[k][g] # NONE
                 PROVE  \E j \in Slots : Matches(table[k][j], k, waiting'[k][g])
      BY <1>4 DEF WaitersMatch
    <3>1. waiting'[k][g] = waiting[k][g] \/ (k = n /\ waiting'[k][g] = dst)
      BY <1>1, <1>2
    <3> QED
      BY <2>1, <3>1 DEF IInv, WaitersMatch
  <2> QED
    BY <1>4, <2>2 DEF FrameWithoutRoute, IInv, LiveArePending, Pending, OneEntryEach
<1> QED
  BY <1>3, <1>4 DEF FrameWithoutRoute

(* A request is entered where it has an entry, or where none is in use.    *)
LEMMA EnterRequestInv ==
  ASSUME TypeInv, IInv, at = NONE, NEW m \in net, EnterRequest(m.to, m),
         UNCHANGED <<at, waiting>>
  PROVE  IInv'
<1> DEFINE n == m.to
<1>1. n \in Nodes /\ m.src \in Nodes /\ m.dst \in Targets
  BY DEF TypeInv, TypeOK, Command
<1> DEFINE found == FindEntry(table[n], m.src, m.dst)
<1>2. PICK i \in IF found # {} THEN found ELSE NewEntry(table[n]) :
        table' = [table EXCEPT ![n][i] = Heard(@, m)]
  BY DEF EnterRequest
<1>3. i \in Slots
  BY <1>2 DEF FindEntry, NewEntry
<1>4. table'[n][i] = Heard(table[n][i], m)
  BY <1>1, <1>2, <1>3 DEF TypeInv, TypeOK
<1>5. \A j \in Slots \ {i} : table'[n][j] = table[n][j]
  BY <1>1, <1>2, <1>3 DEF TypeInv, TypeOK
<1>6. \A k \in Nodes \ {n} : table'[k] = table[k]
  BY <1>1, <1>2 DEF TypeInv, TypeOK
<1>7. table'[n][i].src = m.src /\ table'[n][i].dst = m.dst
  BY <1>4 DEF Heard
<1>8. timer \subseteq timer'
  BY DEF EnterRequest
<1>9. CASE found # {}
  <2>1. Matches(table[n][i], m.src, m.dst)
    BY <1>2, <1>9 DEF FindEntry
  <2>2. Live(table'[n][i]) /\ Live(table[n][i])
        /\ table[n][i].src = m.src /\ table[n][i].dst = m.dst
    BY <1>4, <2>1 DEF Heard, Live, Matches
  <2>3. \A k \in Nodes, j \in Slots :
          /\ Live(table'[k][j]) <=> Live(table[k][j])
          /\ Live(table[k][j]) => /\ table'[k][j].src = table[k][j].src
                                  /\ table'[k][j].dst = table[k][j].dst
    BY <1>5, <1>6, <1>7, <2>2
  <2>4. LiveArePending'
    BY <1>8, <2>3 DEF IInv, LiveArePending, Pending
  <2>5. WaitersMatch'
    BY <2>3 DEF IInv, WaitersMatch, Matches
  <2>6. OneEntryEach'
    BY <2>3, OneEachKept DEF IInv, OneEntryEach
  <2> QED
    BY <2>4, <2>5, <2>6 DEF IInv
<1>10. CASE found = {}
  <2>1. ~Live(table[n][i]) /\ timer' = timer \cup {n}
    BY <1>2, <1>10 DEF EnterRequest, NewEntry
  <2>2. LiveArePending'
    <3> SUFFICES ASSUME NEW k \in Nodes, NEW j \in Slots, Live(table'[k][j])
                 PROVE  Pending(k, j)'
      BY DEF LiveArePending
    <3>1. k # n => Live(table[k][j])
      BY <1>6
    <3> QED
      BY <2>1, <3>1 DEF IInv, LiveArePending, Pending
  <2>3. WaitersMatch'
    <3> SUFFICES ASSUME NEW k \in Nodes, NEW f \in Frames, waiting'[k][f] # NONE
                 PROVE  \E j \in Slots : Matches(table'[k][j], k, waiting'[k][f])
      BY DEF WaitersMatch
    <3>1. PICK j \in Slots : Matches(table[k][j], k, waiting[k][f])
      BY DEF IInv, WaitersMatch
    <3>2. table'[k][j] = table[k][j]
      BY <1>5, <1>6, <2>1, <3>1 DEF Matches
    <3> QED
      BY <3>1, <3>2
  <2>4. OneEach(table'[n])
    <3>1. FindEntry(table[n], table'[n][i].src, table'[n][i].dst) = {}
      BY <1>7, <1>10
    <3>2. OneEach(table[n])
      BY <1>1 DEF IInv, OneEntryEach
    <3> QED
      BY <1>3, <1>5, <3>1, <3>2, OneEachNew
  <2>5. OneEntryEach'
    BY <1>6, <2>4 DEF IInv, OneEntryEach
  <2> QED
    BY <2>2, <2>3, <2>5 DEF IInv
<1> QED
  BY <1>9, <1>10

(* A command changes entries as EnterRequest does, or what a reply found.  *)
LEMMA ReceiveInv ==
  ASSUME TypeInv, IInv, NEW m \in net, Receive(m)
  PROVE  IInv'
<1> DEFINE n == m.to
<1>1. n \in Nodes /\ at = NONE /\ UNCHANGED <<at, waiting>>
  BY DEF Receive, TypeInv, TypeOK, Command
<1>2. CASE UNCHANGED <<table, timer>>
  BY <1>1, <1>2 DEF IInv, LiveArePending, WaitersMatch, OneEntryEach, Pending
<1>3. CASE EnterRequest(n, m)
  BY <1>1, <1>3, EnterRequestInv
<1>4. ASSUME NEW i \in Slots, table' = [table EXCEPT ![n][i].reverse = m.forward],
             UNCHANGED timer
      PROVE  IInv'
  <2>1. \A k \in Nodes, j \in Slots :
          \/ table'[k][j] = table[k][j]
          \/ table'[k][j] = [table[k][j] EXCEPT !.reverse = m.forward]
    BY <1>1, <1>4 DEF TypeInv, TypeOK
  <2>2. \A k \in Nodes, j \in Slots :
          /\ table'[k][j].timeout = table[k][j].timeout
          /\ table'[k][j].src = table[k][j].src
          /\ table'[k][j].dst = table[k][j].dst
    <3> SUFFICES ASSUME NEW k \in Nodes, NEW j \in Slots
                 PROVE  /\ table'[k][j].timeout = table[k][j].timeout
                        /\ table'[k][j].src = table[k][j].src
                        /\ table'[k][j].dst = table[k][j].dst
      OBVIOUS
    <3>1. table[k][j] = Unused \/ table[k][j] \in RealEntry
      BY EntryKinds DEF TypeInv, TypeOK
    <3>2. CASE table'[k][j] = table[k][j]
      BY <3>2
    <3>3. CASE table'[k][j] = [table[k][j] EXCEPT !.reverse = m.forward]
      <4>1. CASE table[k][j] = Unused
        BY <3>3, <4>1 DEF Unused
      <4>2. CASE table[k][j] \in RealEntry
        BY <3>3, <4>2 DEF RealEntry
      <4> QED
        BY <3>1, <4>1, <4>2
    <3> QED
      BY <2>1, <3>2, <3>3
  <2>3. LiveArePending' /\ WaitersMatch'
    BY <1>1, <1>4, <2>2 DEF IInv, LiveArePending, WaitersMatch, Pending, Matches, Live
  <2>4. OneEntryEach'
    BY <2>2, OneEachKept DEF IInv, OneEntryEach, Live
  <2> QED
    BY <2>3, <2>4 DEF IInv
<1>5. CASE RequestIgnored(n, m) \/ ReplyIgnored(n, m)
  BY <1>2, <1>5 DEF RequestIgnored, ReplyIgnored
<1>6. CASE RequestAnswered(n, m) \/ RequestPassedOn(n, m)
  BY <1>3, <1>6 DEF RequestAnswered, RequestPassedOn
<1>7. CASE ReplyArrived(n, m) \/ ReplyPassedOn(n, m)
  <2>1. Improves(n, m) \subseteq Slots
    BY DEF Improves, FindEntry
  <2> QED
    BY <1>4, <1>7, <2>1 DEF ReplyArrived, ReplyPassedOn
<1> QED
  BY <1>5, <1>6, <1>7 DEF Receive

LEMMA TimerFiresInv ==
  ASSUME TypeInv, IInv, NEW n \in Nodes, TimerFires(n)
  PROVE  IInv'
<1>1. at = NONE /\ at' = <<n, 1>> /\ timer' = timer \ {n} /\ UNCHANGED <<table, waiting>>
  BY DEF TimerFires
<1>2. ASSUME NEW k \in Nodes, NEW i \in Slots, Live(table[k][i])
      PROVE  Pending(k, i)'
  <2>1. k \in timer
    BY <1>1, <1>2, PendingInTimer DEF IInv, LiveArePending
  <2>2. 1 \in 1..i
    BY DEF Slots
  <2> QED
    BY <1>1, <2>1, <2>2 DEF Pending
<1> QED
  BY <1>1, <1>2 DEF IInv, LiveArePending, WaitersMatch, OneEntryEach

(* Looking at a slot leaves the other nodes and the later slots pending.   *)
LEMMA LookAtSlotPending ==
  ASSUME TypeInv, NEW n \in Nodes, NEW i \in Slots, LookAtSlot(n, i)
  PROVE  \A k \in Nodes, j \in Slots :
           Pending(k, j) => Pending(k, j)' \/ (k = n /\ j = i)
<1> SUFFICES ASSUME NEW k \in Nodes, NEW j \in Slots, Pending(k, j), ~(k = n /\ j = i)
             PROVE  Pending(k, j)'
  OBVIOUS
<1>1. timer \subseteq timer'
  BY DEF LookAtSlot, SlotLives, SlotOfOthers, Done, DoneAgain, StartDiscovery
<1>2. CASE k \in timer
  BY <1>1, <1>2 DEF Pending
<1>3. CASE k \notin timer
  <2>1. PICK h \in 1..j : at = <<k, h>>
    BY <1>3 DEF Pending
  <2>2. k = n /\ i \in 1..j /\ j # i
    BY <2>1 DEF LookAtSlot
  <2>3. at' = <<n, i + 1>> /\ i + 1 \in 1..j
    BY <2>2 DEF LookAtSlot, NextSlot, Slots
  <2> QED
    BY <2>2, <2>3 DEF Pending
<1> QED
  BY <1>2, <1>3

LEMMA LookAtSlotInv ==
  ASSUME TypeInv, IInv, NEW n \in Nodes, NEW i \in Slots, LookAtSlot(n, i)
  PROVE  IInv'
<1> DEFINE e == table[n][i]
<1>1. e \in Entry /\ OneEach(table[n]) /\ table[n] \in [Slots -> Entry]
  BY DEF TypeInv, TypeOK, IInv, OneEntryEach
<1>2. \A k \in Nodes, j \in Slots :
        Pending(k, j) => Pending(k, j)' \/ (k = n /\ j = i)
  BY LookAtSlotPending
<1>3. waiting \in [Nodes -> [Frames -> Targets \cup {NONE}]]
  BY DEF TypeInv, TypeOK
<1>4. [e EXCEPT !.timeout = 0].timeout = 0 /\ ~Live([e EXCEPT !.timeout = 0])
  <2>1. [e EXCEPT !.timeout = 0].timeout = 0
    BY <1>1 DEF Entry, Unused
  <2> QED
    BY <2>1 DEF Live
<1> HIDE DEF e
(* The slot is no longer in use, and no frame waits for its discovery.     *)
<1>5. ASSUME NEW new, ~Live(new), table' = [table EXCEPT ![n][i] = new],
             \A k \in Nodes, f \in Frames : waiting'[k][f] # NONE =>
               \E j \in Slots : (k # n \/ j # i) /\ Matches(table[k][j], k, waiting'[k][f])
      PROVE  IInv'
  <2>1. table'[n][i] = new
    BY <1>5 DEF TypeInv, TypeOK
  <2>2. \A k \in Nodes, j \in Slots : k # n \/ j # i => table'[k][j] = table[k][j]
    BY <1>5 DEF TypeInv, TypeOK
  <2>3. LiveArePending'
    BY <1>2, <1>5, <2>1, <2>2 DEF IInv, LiveArePending
  <2>4. WaitersMatch'
    BY <1>5, <2>2 DEF WaitersMatch
  <2>5. OneEntryEach'
    <3> SUFFICES ASSUME NEW k \in Nodes
                 PROVE  OneEach(table'[k])
      BY DEF OneEntryEach
    <3>1. \A j \in Slots : Live(table'[k][j]) => table'[k][j] = table[k][j]
      BY <1>5, <2>1, <2>2
    <3>2. OneEach(table[k])
      BY DEF IInv, OneEntryEach
    <3> QED
      BY <3>1, <3>2, OneEachKept
  <2> QED
    BY <2>3, <2>4, <2>5 DEF IInv
<1>6. \A k \in Nodes, f \in Frames : waiting[k][f] # NONE =>
        \E j \in Slots : Matches(table[k][j], k, waiting[k][f])
  BY DEF IInv, WaitersMatch
<1>7. CASE SlotLives(n, i, e)
  <2>1. e.timeout \in Int /\ e.timeout > 1
    <3>1. e.timeout \in 0..Timeout
      BY <1>1, BoundsAssumption DEF Entry, Unused
    <3> QED
      BY <1>7, <3>1, BoundsAssumption DEF SlotLives
  <2>2. table'[n][i] = [e EXCEPT !.timeout = @ - 1]
    BY <1>7 DEF SlotLives, TypeInv, TypeOK, e
  <2>3. /\ table'[n][i].src = e.src /\ table'[n][i].dst = e.dst
        /\ table'[n][i].timeout = e.timeout - 1
    BY <1>1, <2>2 DEF Entry, Unused
  <2>4. Live(e) /\ Live(table'[n][i])
    BY <2>1, <2>3 DEF Live
  <2>5. \A k \in Nodes, j \in Slots :
          /\ Live(table'[k][j]) <=> Live(table[k][j])
          /\ table'[k][j].src = table[k][j].src /\ table'[k][j].dst = table[k][j].dst
    <3>1. \A k \in Nodes, j \in Slots : k # n \/ j # i => table'[k][j] = table[k][j]
      BY <1>7 DEF SlotLives, TypeInv, TypeOK
    <3> QED
      BY <2>3, <2>4, <3>1 DEF e
  <2>6. LiveArePending'
    <3>1. Pending(n, i)'
      BY <1>7 DEF SlotLives, Pending
    <3> QED
      BY <1>2, <2>5, <3>1 DEF IInv, LiveArePending
  <2>7. WaitersMatch'
    BY <1>7, <2>5 DEF SlotLives, IInv, WaitersMatch, Matches
  <2>8. OneEntryEach'
    BY <2>5, OneEachKept DEF IInv, OneEntryEach
  <2> QED
    BY <2>6, <2>7, <2>8 DEF IInv
<1>8. CASE SlotOfOthers(n, i, e)
  <2>1. ~Live(Unused)
    BY DEF Unused, Live
  <2>2. \A k \in Nodes, f \in Frames : waiting'[k][f] # NONE =>
          \E j \in Slots : (k # n \/ j # i) /\ Matches(table[k][j], k, waiting'[k][f])
    BY <1>6, <1>8 DEF SlotOfOthers, Matches, e
  <2> QED
    BY <1>5, <1>8, <2>1, <2>2 DEF SlotOfOthers
(* Frames that wait for another target have their entry elsewhere.         *)
<1>9. ASSUME NEW k \in Nodes, NEW f \in Frames, waiting[k][f] # NONE,
             k = n => waiting[k][f] # e.dst
      PROVE  \E j \in Slots : (k # n \/ j # i) /\ Matches(table[k][j], k, waiting[k][f])
  BY <1>6, <1>9 DEF Matches, e
<1>10. CASE Done(n, i, e)
  <2>1. table' = [table EXCEPT ![n][i] = [e EXCEPT !.timeout = 0]]
    BY <1>10 DEF Done, TypeInv, TypeOK, e
  <2>2. \A k \in Nodes, f \in Frames : waiting'[k][f] # NONE =>
          waiting'[k][f] = waiting[k][f] /\ (k = n => waiting[k][f] # e.dst)
    BY <1>3, <1>10 DEF Done, WaitingFor
  <2>3. \A k \in Nodes, f \in Frames : waiting'[k][f] # NONE =>
          \E j \in Slots : (k # n \/ j # i) /\ Matches(table[k][j], k, waiting'[k][f])
    BY <1>9, <2>2
  <2> QED
    BY <1>4, <1>5, <2>1, <2>3
<1>11. CASE DoneAgain(n, i, e)
  <2> DEFINE ended == [table[n] EXCEPT ![i].timeout = 0]
  <2>1. ended = [table[n] EXCEPT ![i] = [e EXCEPT !.timeout = 0]]
    BY <1>1 DEF e
  <2>2. \A j \in Slots : Live(ended[j]) => j # i
    BY <1>1, <1>4, <2>1
  <2>3. \A j \in Slots \ {i} : ended[j] = table[n][j]
    BY <1>1
  <2>4. OneEach(ended)
    BY <1>1, <2>2, <2>3, OneEachKept
  <2>5. ended \in [Slots -> Entry]
    <3>1. [e EXCEPT !.timeout = 0] \in Entry
      <4>1. CASE e = Unused
        BY <4>1 DEF Entry, Unused
      <4>2. CASE e # Unused
        BY <1>1, <4>2, BoundsAssumption DEF Entry
      <4> QED
        BY <4>1, <4>2
    <3> QED
      BY <1>1, <2>1, <3>1
  <2>6. e.dst \in Targets
    BY <1>1, <1>11, NodesAssumption DEF DoneAgain, Entry, Unused, Targets
  <2>7. \A k \in Nodes, f \in Frames :
          waiting'[k][f] # NONE => waiting'[k][f] = waiting[k][f]
    <3>1. waiting' = waiting \/ \E f \in Frames :
            waiting' = [waiting EXCEPT ![n] = [waiting[n] EXCEPT ![f] = NONE]]
      BY <1>11 DEF DoneAgain, WaitingFor
    <3> QED
      BY <1>3, <3>1
  <2>8. \A k \in Nodes \ {n} : waiting'[k] = waiting[k]
    BY <1>3, <1>11 DEF DoneAgain
  <2>9. \A k \in Nodes \ {n}, j \in Slots : Pending(k, j) => Pending(k, j)'
    BY <1>2
  <2>10. \A f \in Frames : waiting'[n][f] # NONE =>
           waiting'[n][f] = e.dst \/ \E j \in Slots : Matches(ended[j], n, waiting'[n][f])
    BY <1>9, <2>3, <2>7
  <2>11. CASE /\ FindEntry(ended, n, e.dst) # {}
              /\ table' = [table EXCEPT ![n] = ended]
              /\ UNCHANGED <<timer, waiting, net>>
    <3>1. PICK g \in Slots : Matches(ended[g], n, e.dst)
      BY <2>11 DEF FindEntry
    <3>2. g # i /\ Matches(table[n][g], n, e.dst)
      BY <2>2, <2>3, <3>1 DEF Matches
    <3>3. table' = [table EXCEPT ![n][i] = [e EXCEPT !.timeout = 0]]
      BY <1>1, <2>1, <2>11 DEF TypeInv, TypeOK
    <3>4. \A k \in Nodes, f \in Frames : waiting'[k][f] # NONE =>
            \E j \in Slots : (k # n \/ j # i) /\ Matches(table[k][j], k, waiting'[k][f])
      BY <1>9, <2>11, <3>2
    <3> QED
      BY <1>4, <1>5, <3>3, <3>4
  <2> HIDE DEF ended
  <2>12. ASSUME NEW sent, NEW dst \in Targets, dst = e.dst, StartDiscovery(n, ended, dst, sent)
         PROVE  IInv'
    BY <2>4, <2>5, <2>8, <2>9, <2>10, <2>12, StartDiscoveryInv
  <2>13. StartDiscovery(n, ended, e.dst, TRUE) \/ StartDiscovery(n, ended, e.dst, FALSE) => IInv'
    BY <2>6, <2>12
  <2> QED
    BY <1>11, <2>11, <2>13 DEF DoneAgain, ended
<1> QED
  BY <1>7, <1>8, <1>10, <1>11 DEF LookAtSlot, e

LEMMA InitIInv == Init => IInv
<1> SUFFICES ASSUME Init
             PROVE  IInv
  OBVIOUS
<1>1. \A n \in Nodes, i \in Slots : ~Live(table[n][i])
  BY DEF Init, Unused, Live
<1>2. \A n \in Nodes, f \in Frames : waiting[n][f] = NONE
  BY DEF Init
<1> QED
  BY <1>1, <1>2 DEF IInv, LiveArePending, WaitersMatch, OneEntryEach, OneEach

LEMMA StepIInv == TypeInv /\ IInv /\ [Next]_vars => IInv'
<1> SUFFICES ASSUME TypeInv, IInv, [Next]_vars
             PROVE  IInv'
  OBVIOUS
<1>1. ASSUME NEW n \in Nodes, NEW dst \in Targets, Forget(n, dst)
      PROVE  IInv'
  BY <1>1 DEF Forget, IInv, LiveArePending, WaitersMatch, OneEntryEach, Pending
<1>2. CASE UNCHANGED vars
  BY <1>2 DEF vars, IInv, LiveArePending, WaitersMatch, OneEntryEach, Pending
<1> QED
  BY <1>1, <1>2, FrameWithoutRouteInv, ReceiveInv, TimerFiresInv, LookAtSlotInv DEF Next

LEMMA IInvServes == IInv => WaitersHaveDiscovery
<1> SUFFICES ASSUME IInv, NEW n \in Nodes, NEW f \in Frames, waiting[n][f] # NONE
             PROVE  \E i \in FindEntry(table[n], n, waiting[n][f]) :
                      n \in timer \/ \E k \in 1..i : at = <<n, k>>
  BY DEF WaitersHaveDiscovery
<1>1. PICK i \in Slots : Matches(table[n][i], n, waiting[n][f])
  BY DEF IInv, WaitersMatch
<1>2. FindEntry(table[n], n, waiting[n][f]) = {i}
  BY <1>1, FoundIsOnly DEF IInv, OneEntryEach
<1>3. Pending(n, i)
  BY <1>1 DEF IInv, LiveArePending, Matches
<1> QED
  BY <1>2, <1>3 DEF Pending

(* A frame never waits for a discovery that nothing will end, in any       *)
(* network, with any number of slots, frames and discoveries.              *)
THEOREM WaitersHaveTheirs == Spec => []WaitersHaveDiscovery
<1>1. Init => TypeInv /\ IInv
  BY InitTypeInv, InitIInv
<1>2. TypeInv /\ IInv /\ [Next]_vars => (TypeInv /\ IInv)'
  BY StepTypeInv, StepIInv
<1> QED
  BY <1>1, <1>2, IInvServes, PTL DEF Spec

-------------------------------------------------------------------------------
(* Routes                                                                  *)
(* Only what a node looks for is ever in a table or in the air.            *)
OnDemand ==
  /\ \A n \in Nodes, i \in Slots :
       table[n][i].src # NONE => <<table[n][i].src, table[n][i].dst>> \in Demands
  /\ \A m \in net : <<m.src, m.dst>> \in Demands

(* Requests are sent, and replies received, by nodes that do not answer.   *)
AwayFromAnswers ==
  /\ \A n \in Nodes, i \in Slots :
       Live(table[n][i]) /\ table[n][i].src # n =>
         ~Answers(table[n][i].sender, table[n][i].dst)
  /\ \A m \in net : ~Answers(IF m.id = "request" THEN m.from ELSE m.to, m.dst)

AnswerersNeedNoRoute ==
  \A dst \in Sought, n \in Nodes : Answers(n, dst) => route[n][dst] = Unknown

ReplyFor(m, src, dst) == m.id = "reply" /\ m.src = src /\ m.dst = dst

(* While a handler runs no reply is on its way to the entries it may end.  *)
Quiet ==
  \A n \in Nodes, k \in Slots, i \in Slots, m \in net :
    at = <<n, k>> /\ Live(table[n][i]) => ~ReplyFor(m, table[n][i].src, table[n][i].dst)

(* Next hops, of routes and of replies to come, know how to go on, or knew.*)
Leads(n, dst) == Answers(n, dst) \/ route[n][dst] # Unknown \/ <<n, dst>> \in forgot

NoHoles ==
  \A dst \in Sought :
    /\ \A n \in Nodes : route[n][dst] # Unknown => Leads(route[n][dst], dst)
    /\ \A m \in net : m.id = "reply" /\ m.dst = dst => Leads(m.from, dst)

Downhill(dst, rank) ==
  \A n \in Nodes : route[n][dst] # Unknown => rank[route[n][dst]] < rank[n]

(* The nodes that have accepted a reply since an entry of the discovery    *)
(* died last: each has its route from one that has seen as good a reply.   *)
HasSeen(n, src, dst, quality) ==
  \E i \in Slots : Matches(table[n][i], src, dst) /\ table[n][i].reverse >= quality

Closer(n, src, dst, quality, heard) ==
  Answers(n, dst) \/ (n \in heard /\ HasSeen(n, src, dst, quality))

Learnt(src, dst, heard) ==
  /\ \A n \in heard : \E i \in Slots : Matches(table[n][i], src, dst)
  /\ \A n \in heard, i \in Slots :
       route[n][dst] # Unknown /\ Matches(table[n][i], src, dst) =>
         Closer(route[n][dst], src, dst, table[n][i].reverse, heard)
  /\ \A m \in net :
       ReplyFor(m, src, dst) => Closer(m.from, src, dst, m.forward, heard)

NoLoops ==
  \A d \in Demands : d[2] \in Sought =>
    \E heard \in SUBSET Nodes, rank \in [Nodes -> Nat] :
      Learnt(d[1], d[2], heard) /\ Downhill(d[2], rank)

RouteInv ==
  /\ OnDemand /\ AwayFromAnswers /\ AnswerersNeedNoRoute
  /\ Quiet /\ NoHoles /\ NoLoops

-------------------------------------------------------------------------------
(* Walks along the routes                                                  *)
LEMMA LeastNumber ==
  ASSUME NEW T \in SUBSET Nat, T # {}
  PROVE  \E n \in T : \A k \in T : n <= k
<1> DEFINE R == {ss \in Nat \X Nat : ss[1] < ss[2]}
<1>1. IsWellFoundedOn(R, Nat)
  BY NatLessThanWellFounded DEF OpToRel
<1>2. PICK n \in T : \A k \in T : ~(<<k, n>> \in R)
  BY <1>1, WFMin
<1>3. \A k \in T : ~(k < n)
  BY <1>2
<1> QED
  BY <1>3

(* One step of a walk.                                                     *)
Onward(n, dst) == IF Ends(n, dst) THEN n ELSE route[n][dst]

IsWalk(w, n, dst, len) ==
  w = [i \in 0..len |-> IF i = 0 THEN n ELSE Onward(w[i - 1], dst)]

(* The recursive function exists: a walk can be made one step longer.      *)
LEMMA WalkExists ==
  ASSUME NEW n \in Nodes, NEW dst, NEW len \in Nat
  PROVE  \E w : IsWalk(w, n, dst, len)
<1> DEFINE T == {k \in Nat : ~\E w : IsWalk(w, n, dst, k)}
<1> SUFFICES ASSUME T # {}
             PROVE  FALSE
  OBVIOUS
<1>1. PICK k \in T : \A j \in T : k <= j
  BY LeastNumber
<1>2. CASE k = 0
  <2>1. IsWalk([i \in 0..0 |-> n], n, dst, 0)
    BY DEF IsWalk
  <2> QED
    BY <1>2, <2>1
<1>3. CASE k # 0
  <2>1. k - 1 \in Nat /\ ~(k <= k - 1)
    BY <1>3
  <2>2. PICK w : IsWalk(w, n, dst, k - 1)
    BY <1>1, <2>1
  <2> DEFINE v == [i \in 0..k |-> IF i = k THEN Onward(w[k - 1], dst) ELSE w[i]]
  <2>3. \A i \in 0..(k - 1) : v[i] = w[i]
    BY <1>1
  <2>4. ASSUME NEW i \in 0..k
        PROVE  v[i] = IF i = 0 THEN n ELSE Onward(v[i - 1], dst)
    <3>1. CASE i = k
      BY <1>3, <2>1, <2>3, <3>1
    <3>2. CASE i # k
      <4>1. i \in 0..(k - 1) /\ (i # 0 => i - 1 \in 0..(k - 1))
        BY <3>2, <1>1
      <4> HIDE DEF v
      <4>2. w[i] = IF i = 0 THEN n ELSE Onward(w[i - 1], dst)
        BY <2>2, <4>1 DEF IsWalk
      <4> QED
        BY <2>3, <4>1, <4>2
    <3> QED
      BY <3>1, <3>2
  <2>5. IsWalk(v, n, dst, k)
    BY <2>4 DEF IsWalk
  <2> QED
    BY <2>5
<1> QED
  BY <1>2, <1>3

LEMMA WalkSteps ==
  ASSUME NEW n \in Nodes, NEW dst
  PROVE  /\ Walk(n, dst)[0] = n
         /\ \A i \in 1..Cardinality(Nodes) :
              Walk(n, dst)[i] = Onward(Walk(n, dst)[i - 1], dst)
<1>1. Cardinality(Nodes) \in Nat
  BY NodesAssumption, FS_CardinalityType
<1>2. \E w : IsWalk(w, n, dst, Cardinality(Nodes))
  BY <1>1, WalkExists
<1>3. Walk(n, dst) = CHOOSE w : IsWalk(w, n, dst, Cardinality(Nodes))
  BY DEF Walk, IsWalk, Onward
<1>4. IsWalk(Walk(n, dst), n, dst, Cardinality(Nodes))
  BY <1>2, <1>3
<1> HIDE DEF Walk
<1> DEFINE w == Walk(n, dst)
<1>5. w = [i \in 0..Cardinality(Nodes) |-> IF i = 0 THEN n ELSE Onward(w[i - 1], dst)]
  BY <1>4 DEF IsWalk
<1> HIDE DEF w
<1>6. w[0] = n /\ \A i \in 1..Cardinality(Nodes) : w[i] = Onward(w[i - 1], dst)
  BY <1>1, <1>5
<1> QED
  BY <1>6 DEF w

LEMMA WalkStays ==
  ASSUME TypeInv, NEW n \in Nodes, NEW dst \in Targets,
         NEW i \in 0..Cardinality(Nodes)
  PROVE  Walk(n, dst)[i] \in Nodes
<1> DEFINE T == {k \in Nat : k <= Cardinality(Nodes) /\ Walk(n, dst)[k] \notin Nodes}
<1>1. Cardinality(Nodes) \in Nat
  BY NodesAssumption, FS_CardinalityType
<1>2. T = {}
  <2> SUFFICES ASSUME T # {}
               PROVE  FALSE
    OBVIOUS
  <2>1. PICK k \in T : \A j \in T : k <= j
    BY LeastNumber
  <2>2. k # 0
    BY <2>1, WalkSteps
  <2>3. k \in 1..Cardinality(Nodes) /\ k - 1 \in Nat /\ ~(k <= k - 1)
    BY <1>1, <2>1, <2>2
  <2>4. Walk(n, dst)[k - 1] \in Nodes
    BY <1>1, <2>1, <2>3
  <2>5. Walk(n, dst)[k] = Onward(Walk(n, dst)[k - 1], dst)
    BY <2>3, WalkSteps
  <2>6. Onward(Walk(n, dst)[k - 1], dst) \in Nodes
    BY <2>4 DEF Onward, Ends, TypeInv, TypeOK
  <2> QED
    BY <2>5, <2>6
<1>3. i \in Nat /\ i <= Cardinality(Nodes) /\ i \notin T
  BY <1>1, <1>2
<1> QED
  BY <1>3

LEMMA FallingNumbers ==
  ASSUME NEW N \in Nat, NEW f \in [0..N -> Nat], \A i \in 1..N : f[i] < f[i - 1],
         NEW i \in 0..N, NEW j \in 0..N, i < j
  PROVE  f[j] < f[i]
<1> DEFINE T == {k \in Nat : k \in 0..N /\ i < k /\ ~(f[k] < f[i])}
<1> SUFFICES ASSUME ~(f[j] < f[i])
             PROVE  FALSE
  OBVIOUS
<1>0. j \in T
  OBVIOUS
<1>1. PICK k \in T : \A l \in T : k <= l
  BY <1>0, LeastNumber
<1>2. k \in 1..N /\ k - 1 \in 0..N /\ k - 1 \in Nat /\ ~(k <= k - 1)
  BY <1>1
<1>3. f[k] < f[k - 1] /\ f[k] \in Nat /\ f[k - 1] \in Nat /\ f[i] \in Nat
  BY <1>2
<1>4. CASE k - 1 = i
  BY <1>1, <1>3, <1>4
<1>5. CASE k - 1 # i
  <2>1. f[k - 1] < f[i]
    BY <1>1, <1>2, <1>5
  <2> QED
    BY <1>1, <1>3, <2>1
<1> QED
  BY <1>4, <1>5

(* A walk that never ended would meet more nodes than there are.           *)
LEMMA WalkMeetsAnEnd ==
  ASSUME TypeInv, NEW n \in Nodes, NEW dst \in Targets, NEW rank \in [Nodes -> Nat],
         Downhill(dst, rank)
  PROVE  \E i \in 0..Cardinality(Nodes) : Ends(Walk(n, dst)[i], dst)
<1> DEFINE N == Cardinality(Nodes)
           w == [i \in 0..N |-> Walk(n, dst)[i]]
           f == [i \in 0..N |-> rank[w[i]]]
<1> SUFFICES ASSUME \A i \in 0..N : ~Ends(Walk(n, dst)[i], dst)
             PROVE  FALSE
  OBVIOUS
<1>1. N \in Nat /\ IsFiniteSet(Nodes)
  BY NodesAssumption, FS_CardinalityType
<1>2. w \in [0..N -> Nodes] /\ f \in [0..N -> Nat]
  BY WalkStays
<1>3. \A i \in 1..N : f[i] < f[i - 1]
  <2> TAKE i \in 1..N
  <2>1. i \in 0..N /\ i - 1 \in 0..N
    BY <1>1
  <2>2. Walk(n, dst)[i] = Onward(Walk(n, dst)[i - 1], dst) /\ Walk(n, dst)[i - 1] \in Nodes
    BY <2>1, WalkSteps, WalkStays
  <2>3. ~Ends(Walk(n, dst)[i - 1], dst)
    BY <2>1
  <2>4. /\ Walk(n, dst)[i] = route[Walk(n, dst)[i - 1]][dst]
        /\ route[Walk(n, dst)[i - 1]][dst] # Unknown
    BY <2>2, <2>3 DEF Onward, Ends
  <2>5. rank[Walk(n, dst)[i]] < rank[Walk(n, dst)[i - 1]]
    BY <2>2, <2>4 DEF Downhill
  <2> QED
    BY <2>1, <2>5
<1>4. IsFiniteSet(0..N) /\ Cardinality(0..N) = N + 1
  BY <1>1, FS_Interval
<1>5. PICK i, j \in 0..N : i # j /\ w[i] = w[j]
  <2> HIDE DEF w
  <2>1. N < Cardinality(0..N)
    BY <1>1, <1>4
  <2> QED
    BY <1>1, <1>2, <1>4, <2>1, FS_PigeonHole
<1> HIDE DEF w
<1>6. f[i] = f[j] /\ f[i] \in Nat
  BY <1>2, <1>5
<1> HIDE DEF f
<1>7. (i < j => f[j] < f[i]) /\ (j < i => f[i] < f[j])
  BY <1>1, <1>2, <1>3, FallingNumbers
<1> QED
  BY <1>1, <1>5, <1>6, <1>7

(* Once at an end a walk stays there.                                      *)
LEMMA WalkStaysAtEnd ==
  ASSUME NEW n \in Nodes, NEW dst, NEW t \in 0..Cardinality(Nodes),
         Ends(Walk(n, dst)[t], dst)
  PROVE  PathEnd(n, dst) = Walk(n, dst)[t]
<1> DEFINE N == Cardinality(Nodes)
           T == {k \in Nat : k \in t..N /\ Walk(n, dst)[k] # Walk(n, dst)[t]}
<1>1. N \in Nat
  BY NodesAssumption, FS_CardinalityType
<1>2. T = {}
  <2> SUFFICES ASSUME T # {}
               PROVE  FALSE
    OBVIOUS
  <2>1. PICK k \in T : \A j \in T : k <= j
    BY LeastNumber
  <2>2. k # t
    BY <2>1
  <2>3. k \in 1..N /\ k - 1 \in t..N /\ k - 1 \in Nat /\ ~(k <= k - 1)
    BY <1>1, <2>1, <2>2
  <2>4. Walk(n, dst)[k - 1] = Walk(n, dst)[t]
    BY <2>1, <2>3
  <2>5. Walk(n, dst)[k] = Onward(Walk(n, dst)[k - 1], dst)
    BY <2>3, WalkSteps
  <2> QED
    BY <2>1, <2>4, <2>5 DEF Onward
<1>3. N \in t..N
  BY <1>1
<1> QED
  BY <1>1, <1>2, <1>3 DEF PathEnd

LEMMA SourceOf ==
  ASSUME NEW dst \in Sought
  PROVE  /\ dst \in Targets
         /\ \E d \in Demands : d[2] = dst /\ \A c \in Demands : c[2] = dst => c = d
         /\ \A d \in Demands : d[1] # dst
BY DEF Sought

LEMMA RouteInvLeads == TypeInv /\ RouteInv => RoutesLead
<1> SUFFICES ASSUME TypeInv, RouteInv, NEW n \in Nodes, NEW dst \in Sought,
                    route[n][dst] # Unknown
             PROVE  \/ Answers(PathEnd(n, dst), dst)
                    \/ /\ route[PathEnd(n, dst)][dst] = Unknown
                       /\ <<PathEnd(n, dst), dst>> \in forgot
  BY DEF RoutesLead
<1>1. dst \in Targets /\ \E d \in Demands : d[2] = dst
  BY SourceOf
<1>2. PICK rank \in [Nodes -> Nat] : Downhill(dst, rank)
  BY <1>1 DEF RouteInv, NoLoops
<1> DEFINE w == Walk(n, dst)
           N == Cardinality(Nodes)
           T == {i \in Nat : i \in 0..N /\ Ends(w[i], dst)}
<1>3. T # {}
  BY <1>1, <1>2, WalkMeetsAnEnd
<1>4. PICK t \in T : \A j \in T : t <= j
  BY <1>3, LeastNumber
<1>5. PathEnd(n, dst) = w[t] /\ Ends(w[t], dst) /\ w[t] \in Nodes /\ N \in Nat
  BY <1>1, <1>4, WalkStaysAtEnd, WalkStays, NodesAssumption, FS_CardinalityType
<1>6. w[0] = n /\ ~Ends(n, dst)
  BY WalkSteps DEF Ends, RouteInv, AnswerersNeedNoRoute
<1>7. t \in 1..N /\ t - 1 \in 0..N /\ t - 1 \in Nat /\ ~(t <= t - 1)
  BY <1>4, <1>5, <1>6
<1>8. ~Ends(w[t - 1], dst)
  BY <1>4, <1>7
<1>9. w[t - 1] \in Nodes /\ w[t] = Onward(w[t - 1], dst)
  BY <1>1, <1>7, WalkSteps, WalkStays
<1>10. route[w[t - 1]][dst] # Unknown /\ route[w[t - 1]][dst] = w[t]
  BY <1>8, <1>9 DEF Onward, Ends
<1>11. Leads(w[t], dst)
  BY <1>9, <1>10 DEF RouteInv, NoHoles
<1> QED
  BY <1>5, <1>11 DEF Leads, Ends

-------------------------------------------------------------------------------
(* What a step does to the tables, the commands and the routes             *)
Own(n, i) == \E dst \in Targets : <<n, dst>> \in Demands /\ table'[n][i] = OwnEntry(n, dst)

Aged(n, i) ==
  /\ Live(table'[n][i]) => Live(table[n][i])
  /\ table'[n][i].src = table[n][i].src /\ table'[n][i].dst = table[n][i].dst
  /\ table'[n][i].sender = table[n][i].sender
  /\ table'[n][i].reverse = table[n][i].reverse

Entered(n, i) ==
  \E m \in net : /\ m.id = "request" /\ m.to = n
                 /\ table'[n][i] = Heard(table[n][i], m)

Replied(n, i) ==
  \E m \in net : /\ m.id = "reply" /\ m.to = n /\ i \in Improves(n, m)
                 /\ table'[n][i] = [table[n][i] EXCEPT !.reverse = m.forward]

EntryStep(n, i) ==
  \/ table'[n][i] = table[n][i] \/ table'[n][i] = Unused
  \/ Own(n, i) \/ Aged(n, i) \/ Entered(n, i) \/ Replied(n, i)

LEMMA StartDiscoveryEntries ==
  ASSUME TypeInv, NEW n \in Nodes, NEW dst \in Targets, NEW sent, NEW slots,
         slots \in [Slots -> Entry], StartDiscovery(n, slots, dst, sent)
  PROVE  \E j \in Slots :
           /\ ~Live(slots[j])
           /\ table'[n][j] = OwnEntry(n, dst)
           /\ \A i \in Slots \ {j} : table'[n][i] = slots[i]
           /\ \A k \in Nodes \ {n} : table'[k] = table[k]
<1>1. PICK j \in NewEntry(slots) :
        table' = [table EXCEPT ![n] = [slots EXCEPT ![j] = OwnEntry(n, dst)]]
  BY DEF StartDiscovery
<1>2. j \in Slots /\ ~Live(slots[j])
  BY DEF NewEntry
<1> QED
  BY <1>1, <1>2 DEF TypeInv, TypeOK

LEMMA FrameWithoutRouteEntries ==
  ASSUME TypeInv, NEW n \in Nodes, NEW f \in Frames, NEW dst \in Targets,
         FrameWithoutRoute(n, f, dst), NEW k \in Nodes, NEW i \in Slots
  PROVE  EntryStep(k, i)
<1>1. CASE UNCHANGED table
  BY <1>1 DEF EntryStep
<1>2. CASE \E sent : StartDiscovery(n, table[n], dst, sent)
  <2>1. table[n] \in [Slots -> Entry]
    BY DEF TypeInv, TypeOK
  <2>2. PICK j \in Slots :
          /\ table'[n][j] = OwnEntry(n, dst)
          /\ \A l \in Slots \ {j} : table'[n][l] = table[n][l]
          /\ \A l \in Nodes \ {n} : table'[l] = table[l]
    BY <1>2, <2>1, StartDiscoveryEntries
  <2>3. CASE k = n /\ i = j
    BY <2>2, <2>3 DEF FrameWithoutRoute, EntryStep, Own
  <2>4. CASE k # n \/ i # j
    BY <2>2, <2>4 DEF EntryStep
  <2> QED
    BY <2>3, <2>4
<1> QED
  BY <1>1, <1>2 DEF FrameWithoutRoute

LEMMA ReceiveEntries ==
  ASSUME TypeInv, NEW m \in net, Receive(m), NEW k \in Nodes, NEW i \in Slots
  PROVE  EntryStep(k, i)
<1> DEFINE n == m.to
<1>1. n \in Nodes
  BY DEF TypeInv, TypeOK, Command
<1>2. CASE UNCHANGED table
  BY <1>2 DEF EntryStep
<1>3. CASE m.id = "request" /\ EnterRequest(n, m)
  <2>1. PICK j \in Slots : table' = [table EXCEPT ![n][j] = Heard(@, m)]
    BY <1>3 DEF EnterRequest, FindEntry, NewEntry
  <2>2. CASE k = n /\ i = j
    <3>1. table'[k][i] = Heard(table[k][i], m)
      BY <1>1, <2>1, <2>2 DEF TypeInv, TypeOK
    <3> QED
      BY <1>3, <2>2, <3>1 DEF EntryStep, Entered
  <2>3. CASE k # n \/ i # j
    <3>1. table'[k][i] = table[k][i]
      BY <2>1, <2>3 DEF TypeInv, TypeOK
    <3> QED
      BY <3>1 DEF EntryStep
  <2> QED
    BY <2>2, <2>3
<1>4. CASE /\ m.id = "reply"
           /\ \E j \in Improves(n, m) : table' = [table EXCEPT ![n][j].reverse = m.forward]
  <2>1. PICK j \in Improves(n, m) : table' = [table EXCEPT ![n][j].reverse = m.forward]
    BY <1>4
  <2>2. CASE k = n /\ i = j
    <3>1. table'[k][i] = [table[k][i] EXCEPT !.reverse = m.forward]
      BY <1>1, <2>1, <2>2 DEF TypeInv, TypeOK
    <3> QED
      BY <1>4, <2>1, <2>2, <3>1 DEF EntryStep, Replied
  <2>3. CASE k # n \/ i # j
    <3>1. table'[k][i] = table[k][i]
      BY <2>1, <2>3 DEF TypeInv, TypeOK
    <3> QED
      BY <3>1 DEF EntryStep
  <2> QED
    BY <2>2, <2>3
<1>5. CASE RequestIgnored(n, m) \/ ReplyIgnored(n, m)
  BY <1>2, <1>5 DEF RequestIgnored, ReplyIgnored
<1>6. CASE RequestAnswered(n, m) \/ RequestPassedOn(n, m)
  BY <1>3, <1>6 DEF RequestAnswered, RequestPassedOn
<1>7. CASE ReplyArrived(n, m) \/ ReplyPassedOn(n, m)
  BY <1>4, <1>7 DEF ReplyArrived, ReplyPassedOn
<1> QED
  BY <1>5, <1>6, <1>7 DEF Receive

(* The slot the handler has come to is the one that changes; a discovery   *)
(* that starts anew may take it or another one that is not in use.         *)
Ended(n, i) == [table[n] EXCEPT ![i].timeout = 0]

Renewed(n, i) ==
  /\ table[n][i].src = n
  /\ WaitingFor(n, table[n][i].dst) # {}
  /\ \E sent : StartDiscovery(n, Ended(n, i), table[n][i].dst, sent)

LEMMA EndedSlots ==
  ASSUME TypeInv, NEW n \in Nodes, NEW i \in Slots
  PROVE  /\ Ended(n, i) \in [Slots -> Entry]
         /\ \A j \in Slots \ {i} : Ended(n, i)[j] = table[n][j]
         /\ ~Live(Ended(n, i)[i])
         /\ Ended(n, i)[i].src = table[n][i].src
         /\ Ended(n, i)[i].dst = table[n][i].dst
         /\ Ended(n, i)[i].sender = table[n][i].sender
         /\ Ended(n, i)[i].reverse = table[n][i].reverse
<1> DEFINE e == table[n][i]
<1>1. e \in Entry /\ table[n] \in [Slots -> Entry]
  BY DEF TypeInv, TypeOK
<1>2. Ended(n, i) = [table[n] EXCEPT ![i] = [e EXCEPT !.timeout = 0]]
  BY <1>1 DEF Ended
<1>3. [e EXCEPT !.timeout = 0] \in Entry
  BY <1>1, EntryKinds
<1> HIDE DEF e
<1>4. /\ [e EXCEPT !.timeout = 0].timeout = 0 /\ [e EXCEPT !.timeout = 0].src = e.src
      /\ [e EXCEPT !.timeout = 0].dst = e.dst /\ [e EXCEPT !.timeout = 0].sender = e.sender
      /\ [e EXCEPT !.timeout = 0].reverse = e.reverse
  BY <1>1 DEF Entry, Unused
<1> QED
  BY <1>1, <1>2, <1>3, <1>4 DEF Live, e

LEMMA LookAtSlotCases ==
  ASSUME TypeInv, NEW n \in Nodes, NEW i \in Slots, LookAtSlot(n, i)
  PROVE  \/ Renewed(n, i)
         \/ /\ UNCHANGED net
            /\ \A j \in Slots \ {i} : table'[n][j] = table[n][j]
            /\ \A k \in Nodes \ {n} : table'[k] = table[k]
            /\ \/ table[n][i].timeout > 1 /\ Live(table'[n][i]) /\ Aged(n, i)
               \/ table[n][i].timeout <= 1 /\ ~Live(table'[n][i])
                  /\ (table'[n][i] = Unused \/ Aged(n, i))
<1> DEFINE e == table[n][i]
<1>1. e \in Entry /\ table[n] \in [Slots -> Entry]
  BY DEF TypeInv, TypeOK
<1>2. ASSUME UNCHANGED net, table' = [table EXCEPT ![n] = Ended(n, i)], e.timeout <= 1
      PROVE  /\ UNCHANGED net
             /\ \A j \in Slots \ {i} : table'[n][j] = table[n][j]
             /\ \A k \in Nodes \ {n} : table'[k] = table[k]
             /\ table[n][i].timeout <= 1 /\ ~Live(table'[n][i]) /\ Aged(n, i)
  <2>1. table'[n] = Ended(n, i) /\ \A k \in Nodes \ {n} : table'[k] = table[k]
    BY <1>2 DEF TypeInv, TypeOK
  <2> QED
    BY <1>2, <2>1, EndedSlots DEF Aged
<1>3. CASE SlotLives(n, i, e)
  <2>1. e \in RealEntry /\ e.timeout \in Nat
    BY <1>1, <1>3, EntryKinds, BoundsAssumption DEF SlotLives, Entry, Unused, RealEntry
  <2>2. table'[n][i] = [e EXCEPT !.timeout = @ - 1]
    BY <1>1, <1>3 DEF SlotLives, TypeInv, TypeOK
  <2>3. /\ table'[n][i].src = e.src /\ table'[n][i].dst = e.dst
        /\ table'[n][i].sender = e.sender /\ table'[n][i].reverse = e.reverse
        /\ table'[n][i].timeout = e.timeout - 1
    BY <2>1, <2>2 DEF RealEntry
  <2>4. Live(table'[n][i]) /\ Live(e)
    BY <1>3, <2>1, <2>3 DEF Live, SlotLives
  <2>5. /\ \A j \in Slots \ {i} : table'[n][j] = table[n][j]
        /\ \A k \in Nodes \ {n} : table'[k] = table[k]
    BY <1>3 DEF SlotLives, TypeInv, TypeOK
  <2> QED
    BY <1>3, <2>3, <2>4, <2>5 DEF SlotLives, Aged
<1>4. CASE SlotOfOthers(n, i, e)
  <2>1. table'[n][i] = Unused /\ ~Live(Unused)
    BY <1>1, <1>4, UnusedType DEF SlotOfOthers, TypeInv, TypeOK
  <2>2. /\ \A j \in Slots \ {i} : table'[n][j] = table[n][j]
        /\ \A k \in Nodes \ {n} : table'[k] = table[k]
    BY <1>4 DEF SlotOfOthers, TypeInv, TypeOK
  <2> QED
    BY <1>4, <2>1, <2>2 DEF SlotOfOthers
<1>5. CASE Done(n, i, e)
  <2>1. table' = [table EXCEPT ![n] = Ended(n, i)]
    BY <1>5 DEF Done, Ended, TypeInv, TypeOK
  <2> QED
    BY <1>2, <1>5, <2>1 DEF Done
<1>6. CASE DoneAgain(n, i, e)
  <2>1. CASE table' = [table EXCEPT ![n] = Ended(n, i)] /\ UNCHANGED net
    BY <1>2, <1>6, <2>1 DEF DoneAgain
  <2>2. CASE \E sent : StartDiscovery(n, Ended(n, i), e.dst, sent)
    <3>1. e.src = n /\ WaitingFor(n, e.dst) # {}
      BY <1>6 DEF DoneAgain
    <3> QED
      BY <2>2, <3>1 DEF Renewed
  <2> QED
    BY <1>6, <2>1, <2>2 DEF DoneAgain, Ended
<1> QED
  BY <1>3, <1>4, <1>5, <1>6 DEF LookAtSlot

LEMMA SoughtByEntry ==
  ASSUME TypeInv, OnDemand, NEW n \in Nodes, NEW i \in Slots, table[n][i].src \in Nodes
  PROVE  /\ <<table[n][i].src, table[n][i].dst>> \in Demands
         /\ table[n][i].dst \in Targets
BY NodesAssumption, DemandsAssumption DEF OnDemand, Targets

LEMMA LookAtSlotEntries ==
  ASSUME TypeInv, OnDemand, NEW n \in Nodes, NEW i \in Slots, LookAtSlot(n, i),
         NEW k \in Nodes, NEW j \in Slots
  PROVE  EntryStep(k, j)
<1>1. CASE Renewed(n, i)
  <2> DEFINE dst == table[n][i].dst
  <2>1. <<n, dst>> \in Demands /\ dst \in Targets
    BY <1>1, SoughtByEntry DEF Renewed
  <2>2. PICK sent : StartDiscovery(n, Ended(n, i), dst, sent)
    BY <1>1 DEF Renewed
  <2> HIDE DEF dst
  <2>3. PICK l \in Slots :
          /\ table'[n][l] = OwnEntry(n, dst)
          /\ \A h \in Slots \ {l} : table'[n][h] = Ended(n, i)[h]
          /\ \A h \in Nodes \ {n} : table'[h] = table[h]
    BY <2>1, <2>2, EndedSlots, StartDiscoveryEntries
  <2>4. CASE k = n /\ j = l
    BY <2>1, <2>3, <2>4 DEF EntryStep, Own
  <2>5. CASE k = n /\ j # l /\ j = i
    BY <2>3, <2>5, EndedSlots DEF EntryStep, Aged
  <2>6. CASE k = n /\ j # l /\ j # i
    BY <2>3, <2>6, EndedSlots DEF EntryStep
  <2>7. CASE k # n
    BY <2>3, <2>7 DEF EntryStep
  <2> QED
    BY <2>4, <2>5, <2>6, <2>7
<1>2. CASE ~Renewed(n, i)
  <2>1. CASE k = n /\ j = i
    BY <1>2, <2>1, LookAtSlotCases DEF EntryStep, Aged
  <2>2. CASE k # n \/ j # i
    BY <1>2, <2>2, LookAtSlotCases DEF EntryStep
  <2> QED
    BY <2>1, <2>2
<1> QED
  BY <1>1, <1>2

LEMMA EntrySteps ==
  ASSUME TypeInv, OnDemand, [Next]_vars, NEW n \in Nodes, NEW i \in Slots
  PROVE  EntryStep(n, i)
<1>1. CASE UNCHANGED table
  BY <1>1 DEF EntryStep
<1> QED
  BY <1>1, FrameWithoutRouteEntries, ReceiveEntries, LookAtSlotEntries
  DEF Next, TimerFires, Forget, vars

(* A command that was not in the air before.                               *)
FirstRequest(m) == m.id = "request" /\ m.from = m.src /\ <<m.src, m.dst>> \in Demands

RequestSentOn(m) ==
  \E h \in net : /\ h.id = "request" /\ m.id = "request"
                 /\ m.src = h.src /\ m.dst = h.dst
                 /\ m.from = h.to /\ ~Answers(h.to, h.dst)

ReplyStarted(m) ==
  \E h \in net : /\ h.id = "request" /\ m.id = "reply"
                 /\ m.src = h.src /\ m.dst = h.dst
                 /\ m.from = h.to /\ Answers(h.to, h.dst) /\ m.to = h.from

ReplySentOn(m) ==
  \E h \in net : \E i \in Improves(h.to, h) :
    /\ h.id = "reply" /\ m.id = "reply" /\ h.to # h.src
    /\ m.src = h.src /\ m.dst = h.dst
    /\ m.from = h.to /\ m.to = table[h.to][i].sender
    /\ m.forward = h.forward
    /\ route'[h.to][h.dst] = h.from
    /\ table'[h.to][i] = [table[h.to][i] EXCEPT !.reverse = h.forward]

CommandStep(m) ==
  m \in net \/ FirstRequest(m) \/ RequestSentOn(m) \/ ReplyStarted(m) \/ ReplySentOn(m)

LEMMA SentRequests ==
  ASSUME NEW n, NEW src, NEW dst, NEW lq, NEW sent \in MaySend(Request(n, src, dst, lq)),
         NEW m \in sent
  PROVE  m.id = "request" /\ m.from = n /\ m.src = src /\ m.dst = dst
BY DEF MaySend, Request

LEMMA SentReplies ==
  ASSUME NEW n, NEW to, NEW src, NEW dst, NEW forward, NEW reverse,
         NEW sent \in MaySend(Reply(n, to, src, dst, forward, reverse)), NEW m \in sent
  PROVE  /\ m.id = "reply" /\ m.from = n /\ m.to = to /\ m.src = src /\ m.dst = dst
         /\ m.forward = forward
BY DEF MaySend, Reply

LEMMA StartDiscoveryCommands ==
  ASSUME NEW n, NEW slots, NEW dst, NEW sent, StartDiscovery(n, slots, dst, sent),
         NEW m \in net', m \notin net
  PROVE  m.id = "request" /\ m.from = n /\ m.src = n /\ m.dst = dst
<1>1. CASE sent
  <2>1. PICK heard \in MaySend(Request(n, n, dst, Best)) : net' = net \cup heard
    BY <1>1 DEF StartDiscovery
  <2> QED
    BY <2>1, SentRequests
<1>2. CASE ~sent
  BY <1>2 DEF StartDiscovery
<1> QED
  BY <1>1, <1>2

LEMMA NoSelfDemand ==
  ASSUME TypeInv, OnDemand, NEW m \in net
  PROVE  m.src # m.dst
BY DemandsAssumption, MembersAssumption DEF OnDemand, TypeInv, TypeOK, Command

LEMMA ReceiveCommands ==
  ASSUME TypeInv, OnDemand, NEW h \in net, Receive(h), NEW m \in net'
  PROVE  CommandStep(m)
<1> DEFINE n == h.to
<1>1. CASE m \in net
  BY <1>1 DEF CommandStep
<1>2. CASE m \notin net
  <2>1. CASE net' = net \ {h}
    BY <1>2, <2>1
  <2>2. CASE RequestAnswered(n, h)
    <3>1. PICK sent \in MaySend(Reply(n, h.from, h.src, h.dst, PathQuality(h), Best)) :
            net' = (net \ {h}) \cup sent
      BY <2>2 DEF RequestAnswered
    <3>2. m \in sent
      BY <1>2, <3>1
    <3> QED
      BY <2>2, <3>2, SentReplies DEF RequestAnswered, CommandStep, ReplyStarted
  <2>3. CASE RequestPassedOn(n, h)
    <3>1. PICK sent \in MaySend(Request(n, h.src, h.dst, PathQuality(h))) :
            net' = (net \ {h}) \cup sent
      BY <2>3 DEF RequestPassedOn
    <3>2. m \in sent
      BY <1>2, <3>1
    <3> QED
      BY <2>3, <3>2, SentRequests DEF RequestPassedOn, CommandStep, RequestSentOn
  <2>4. CASE ReplyPassedOn(n, h)
    <3>1. PICK i \in Improves(n, h) :
            /\ table' = [table EXCEPT ![n][i].reverse = h.forward]
            /\ route' = UpdateEntry(UpdateEntry(route, n, h.dst, h.from), n, h.src,
                                    table[n][i].sender)
            /\ \E sent \in MaySend(Reply(n, table[n][i].sender, h.src, h.dst, h.forward,
                                         PathQuality(h))) :
                 net' = (net \ {h}) \cup sent
      BY <2>4 DEF ReplyPassedOn
    <3>2. PICK sent \in MaySend(Reply(n, table[n][i].sender, h.src, h.dst, h.forward,
                                      PathQuality(h))) :
            net' = (net \ {h}) \cup sent
      BY <3>1
    <3>3. m \in sent
      BY <1>2, <3>2
    <3>4. i \in Slots /\ n \in Nodes /\ h.dst \in Targets
      BY DEF Improves, FindEntry, TypeInv, TypeOK, Command
    <3>5. table'[n][i] = [table[n][i] EXCEPT !.reverse = h.forward]
      BY <3>1, <3>4 DEF TypeInv, TypeOK
    <3>6. h.src # h.dst
      BY NoSelfDemand
    <3>7. route'[n][h.dst] = h.from
      BY <3>1, <3>4, <3>6 DEF UpdateEntry, TypeInv, TypeOK, Targets
    <3>8. /\ m.id = "reply" /\ m.src = h.src /\ m.dst = h.dst
          /\ m.from = n /\ m.to = table[n][i].sender /\ m.forward = h.forward
      BY <3>2, <3>3, SentReplies
    <3>9. h.id = "reply" /\ n # h.src
      BY <2>4 DEF ReplyPassedOn
    <3> QED
      BY <3>1, <3>5, <3>7, <3>8, <3>9 DEF CommandStep, ReplySentOn
  <2> QED
    BY <2>1, <2>2, <2>3, <2>4 DEF Receive, RequestIgnored, ReplyIgnored, ReplyArrived
<1> QED
  BY <1>1, <1>2

LEMMA CommandSteps ==
  ASSUME TypeInv, OnDemand, [Next]_vars, NEW m \in net'
  PROVE  CommandStep(m)
<1>1. CASE m \in net
  BY <1>1 DEF CommandStep
<1>2. CASE m \notin net
  <2>1. ASSUME NEW n \in Nodes, NEW f \in Frames, NEW dst \in Targets,
               FrameWithoutRoute(n, f, dst)
        PROVE  CommandStep(m)
    BY <1>2, <2>1, StartDiscoveryCommands
    DEF FrameWithoutRoute, CommandStep, FirstRequest
  <2>2. ASSUME NEW n \in Nodes, NEW i \in Slots, LookAtSlot(n, i)
        PROVE  CommandStep(m)
    <3>1. Renewed(n, i)
      BY <1>2, <2>2, LookAtSlotCases
    <3>2. <<n, table[n][i].dst>> \in Demands
      BY <3>1, SoughtByEntry DEF Renewed
    <3> QED
      BY <1>2, <3>1, <3>2, StartDiscoveryCommands DEF Renewed, CommandStep, FirstRequest
  <2>3. ASSUME NEW h \in net, Receive(h)
        PROVE  CommandStep(m)
    BY <2>3, ReceiveCommands
  <2> QED
    BY <1>2, <2>1, <2>2, <2>3 DEF Next, vars, TimerFires, Forget
<1> QED
  BY <1>1, <1>2

(* A route to a target that is looked for is lost, or learnt from a reply. *)
LearntRoute(n, dst) ==
  \E m \in net : m.id = "reply" /\ m.to = n /\ m.dst = dst /\ route'[n][dst] = m.from

RouteStep(n, dst) ==
  \/ route'[n][dst] = route[n][dst]
  \/ route'[n][dst] = Unknown /\ <<n, dst>> \in forgot'
  \/ LearntRoute(n, dst)

LEMMA ReceiveRoutes ==
  ASSUME TypeInv, OnDemand, NEW m \in net, Receive(m), NEW n \in Nodes, NEW dst \in Sought
  PROVE  RouteStep(n, dst)
<1>1. /\ m.to \in Nodes /\ m.src \in Targets /\ m.dst \in Targets /\ dst \in Targets
      /\ m.src # dst
  BY SourceOf DEF OnDemand, TypeInv, TypeOK, Command, Targets
<1>2. route \in [Nodes -> [Targets -> Nodes \cup {Unknown}]]
  BY DEF TypeInv, TypeOK
<1>3. CASE UNCHANGED route
  BY <1>3 DEF RouteStep
<1>4. CASE RequestAnswered(m.to, m)
  <2>1. route'[n][dst] = route[n][dst]
    BY <1>1, <1>2, <1>4 DEF RequestAnswered, UpdateEntry
  <2> QED
    BY <2>1 DEF RouteStep
<1>5. CASE m.id = "reply" /\ \E hop : route' =
             UpdateEntry(UpdateEntry(route, m.to, m.dst, m.from), m.to, m.src, hop)
  <2>1. route'[n][dst] = IF n = m.to /\ dst = m.dst THEN m.from ELSE route[n][dst]
    BY <1>1, <1>2, <1>5 DEF UpdateEntry
  <2> QED
    BY <1>5, <2>1 DEF RouteStep, LearntRoute
<1>6. CASE ReplyArrived(m.to, m)
  <2>1. route'[n][dst] = IF n = m.to /\ dst = m.dst THEN m.from ELSE route[n][dst]
    BY <1>1, <1>2, <1>6 DEF UpdateEntry, ReplyArrived
  <2> QED
    BY <1>6, <2>1 DEF RouteStep, LearntRoute, ReplyArrived
<1> QED
  BY <1>3, <1>4, <1>5, <1>6
  DEF Receive, RequestIgnored, RequestPassedOn, ReplyIgnored, ReplyPassedOn

LEMMA RouteSteps ==
  ASSUME TypeInv, OnDemand, [Next]_vars, NEW n \in Nodes, NEW dst \in Sought
  PROVE  RouteStep(n, dst) /\ forgot \subseteq forgot'
<1>1. forgot \subseteq forgot'
  BY DEF Next, vars, FrameWithoutRoute, Receive, TimerFires, LookAtSlot, Forget
<1>2. ASSUME NEW k \in Nodes, NEW d \in Targets, Forget(k, d)
      PROVE  RouteStep(n, dst)
  <2>1. dst \in Targets
    BY SourceOf
  <2>2. route'[n][dst] = IF n = k /\ dst = d THEN Unknown ELSE route[n][dst]
    BY <1>2, <2>1 DEF Forget, TypeInv, TypeOK
  <2> QED
    BY <1>2, <2>2 DEF Forget, RouteStep
<1>3. CASE UNCHANGED route
  BY <1>1, <1>3 DEF RouteStep
<1>4. ASSUME NEW m \in net, Receive(m)
      PROVE  RouteStep(n, dst)
  BY <1>4, ReceiveRoutes
<1>5. UNCHANGED route \/ (\E m \in net : Receive(m))
      \/ (\E k \in Nodes, d \in Targets : Forget(k, d))
  BY DEF Next, vars, FrameWithoutRoute, TimerFires, LookAtSlot
<1> QED
  BY <1>1, <1>2, <1>3, <1>4, <1>5

-------------------------------------------------------------------------------
(* Every step keeps RouteInv                                               *)
LEMMA HeardEntry ==
  ASSUME NEW e, NEW m
  PROVE  /\ Heard(e, m).src = m.src /\ Heard(e, m).dst = m.dst
         /\ Heard(e, m).sender = m.from
         /\ Matches(e, m.src, m.dst) =>
              Heard(e, m).reverse = e.reverse /\ Heard(e, m).timeout = e.timeout
BY DEF Heard

LEMMA RepliedEntry ==
  ASSUME TypeInv, NEW n \in Nodes, NEW i \in Slots, NEW q,
         NEW e, e = [table[n][i] EXCEPT !.reverse = q]
  PROVE  /\ e.src = table[n][i].src /\ e.dst = table[n][i].dst
         /\ e.sender = table[n][i].sender /\ e.timeout = table[n][i].timeout
         /\ e.reverse = q
<1>1. table[n][i] = Unused \/ table[n][i] \in RealEntry
  BY EntryKinds DEF TypeInv, TypeOK
<1> QED
  BY <1>1 DEF Unused, RealEntry

LEMMA OnDemandKept == TypeInv /\ OnDemand /\ [Next]_vars => OnDemand'
<1> SUFFICES ASSUME TypeInv, OnDemand, [Next]_vars
             PROVE  OnDemand'
  OBVIOUS
<1>1. ASSUME NEW n \in Nodes, NEW i \in Slots, table'[n][i].src # NONE
      PROVE  <<table'[n][i].src, table'[n][i].dst>> \in Demands
  <2>1. EntryStep(n, i)
    BY EntrySteps
  <2>2. CASE table'[n][i] = table[n][i] \/ Aged(n, i)
    BY <1>1, <2>2 DEF OnDemand, Aged
  <2>3. CASE table'[n][i] = Unused
    BY <1>1, <2>3 DEF Unused
  <2>4. CASE Own(n, i)
    BY <2>4 DEF Own, OwnEntry
  <2>5. CASE Entered(n, i)
    BY <2>5, HeardEntry DEF Entered, OnDemand
  <2>6. CASE Replied(n, i)
    BY <1>1, <2>6, RepliedEntry DEF Replied, OnDemand
  <2> QED
    BY <2>1, <2>2, <2>3, <2>4, <2>5, <2>6 DEF EntryStep
<1>2. ASSUME NEW m \in net'
      PROVE  <<m.src, m.dst>> \in Demands
  BY CommandSteps
  DEF CommandStep, FirstRequest, RequestSentOn, ReplyStarted, ReplySentOn, OnDemand
<1> QED
  BY <1>1, <1>2 DEF OnDemand

LEMMA AwayFromAnswersKept ==
  TypeInv /\ OnDemand /\ AwayFromAnswers /\ [Next]_vars => AwayFromAnswers'
<1> SUFFICES ASSUME TypeInv, OnDemand, AwayFromAnswers, [Next]_vars
             PROVE  AwayFromAnswers'
  OBVIOUS
<1>1. ASSUME NEW n \in Nodes, NEW i \in Slots,
             Live(table'[n][i]), table'[n][i].src # n
      PROVE  ~Answers(table'[n][i].sender, table'[n][i].dst)
  <2>1. EntryStep(n, i)
    BY EntrySteps
  <2>2. CASE table'[n][i] = table[n][i] \/ Aged(n, i)
    BY <1>1, <2>2 DEF AwayFromAnswers, Aged
  <2>3. CASE table'[n][i] = Unused
    BY <1>1, <2>3, UnusedType
  <2>4. CASE Own(n, i)
    BY <1>1, <2>4 DEF Own, OwnEntry
  <2>5. CASE Entered(n, i)
    BY <2>5, HeardEntry DEF Entered, AwayFromAnswers
  <2>6. CASE Replied(n, i)
    <3>1. /\ table'[n][i].src = table[n][i].src /\ table'[n][i].dst = table[n][i].dst
          /\ table'[n][i].sender = table[n][i].sender
          /\ table'[n][i].timeout = table[n][i].timeout
      BY <2>6, RepliedEntry DEF Replied
    <3> QED
      BY <1>1, <3>1 DEF AwayFromAnswers, Live
  <2> QED
    BY <2>1, <2>2, <2>3, <2>4, <2>5, <2>6 DEF EntryStep
<1>2. ASSUME NEW m \in net'
      PROVE  ~Answers(IF m.id = "request" THEN m.from ELSE m.to, m.dst)
  <2>1. CommandStep(m)
    BY CommandSteps
  <2>2. CASE m \in net
    BY <2>2 DEF AwayFromAnswers
  <2>3. CASE FirstRequest(m)
    BY <2>3, DemandsAssumption DEF FirstRequest, Answers
  <2>4. CASE RequestSentOn(m)
    BY <2>4 DEF RequestSentOn
  <2>5. CASE ReplyStarted(m)
    BY <2>5 DEF ReplyStarted, AwayFromAnswers
  <2>6. CASE ReplySentOn(m)
    <3>1. PICK h \in net : \E i \in Improves(h.to, h) :
            /\ h.id = "reply" /\ m.id = "reply" /\ h.to # h.src
            /\ m.src = h.src /\ m.dst = h.dst /\ m.to = table[h.to][i].sender
      BY <2>6 DEF ReplySentOn
    <3>2. PICK i \in Improves(h.to, h) : m.to = table[h.to][i].sender
      BY <3>1
    <3>3. /\ h.to \in Nodes /\ i \in Slots /\ Live(table[h.to][i])
          /\ table[h.to][i].src = h.src /\ table[h.to][i].dst = h.dst
      BY DEF Improves, FindEntry, Matches, TypeInv, TypeOK, Command
    <3> QED
      BY <3>1, <3>2, <3>3 DEF AwayFromAnswers
  <2> QED
    BY <2>1, <2>2, <2>3, <2>4, <2>5, <2>6 DEF CommandStep
<1> QED
  BY <1>1, <1>2 DEF AwayFromAnswers, Answers

LEMMA AnswerersNeedNoRouteKept ==
  TypeInv /\ OnDemand /\ AwayFromAnswers /\ AnswerersNeedNoRoute /\ [Next]_vars
    => AnswerersNeedNoRoute'
<1> SUFFICES ASSUME TypeInv, OnDemand, AwayFromAnswers, AnswerersNeedNoRoute, [Next]_vars,
                    NEW dst \in Sought, NEW n \in Nodes, Answers(n, dst)
             PROVE  route'[n][dst] = Unknown
  BY DEF AnswerersNeedNoRoute, Answers
<1>1. ~LearntRoute(n, dst)
  BY DEF LearntRoute, AwayFromAnswers
<1> QED
  BY <1>1, RouteSteps DEF RouteStep, AnswerersNeedNoRoute

LEMMA NoHolesKept ==
  TypeInv /\ OnDemand /\ NoHoles /\ [Next]_vars => NoHoles'
<1> DEFINE LeadsNow(n, dst) ==
      Answers(n, dst) \/ route'[n][dst] # Unknown \/ <<n, dst>> \in forgot'
<1> SUFFICES ASSUME TypeInv, OnDemand, NoHoles, [Next]_vars, NEW dst \in Sought
             PROVE  /\ \A n \in Nodes : route'[n][dst] # Unknown => LeadsNow(route'[n][dst], dst)
                    /\ \A m \in net' : m.id = "reply" /\ m.dst = dst => LeadsNow(m.from, dst)
  BY DEF NoHoles, Leads, Answers
<1>1. \A m \in net : m.from \in Nodes /\ m.from # Unknown
  BY NodesAssumption DEF TypeInv, TypeOK, Command
<1>2. ASSUME NEW n \in Nodes, Leads(n, dst)
      PROVE  LeadsNow(n, dst)
  <2>1. RouteStep(n, dst) /\ forgot \subseteq forgot'
    BY RouteSteps
  <2> QED
    BY <1>1, <1>2, <2>1 DEF Leads, RouteStep, LearntRoute
<1> HIDE DEF LeadsNow
<1>3. ASSUME NEW n \in Nodes, route'[n][dst] # Unknown
      PROVE  LeadsNow(route'[n][dst], dst)
  <2>1. \/ route'[n][dst] = route[n][dst] \/ LearntRoute(n, dst)
    BY <1>3, RouteSteps DEF RouteStep
  <2>2. CASE route'[n][dst] = route[n][dst]
    <3>1. Leads(route[n][dst], dst) /\ route[n][dst] \in Nodes
      BY <1>3, <2>2, SourceOf DEF NoHoles, TypeInv, TypeOK
    <3> QED
      BY <1>2, <2>2, <3>1
  <2>3. CASE LearntRoute(n, dst)
    <3>1. PICK m \in net : m.id = "reply" /\ m.dst = dst /\ route'[n][dst] = m.from
      BY <2>3 DEF LearntRoute
    <3>2. LeadsNow(m.from, dst)
      BY <1>1, <1>2, <3>1 DEF NoHoles
    <3> QED
      BY <3>1, <3>2
  <2> QED
    BY <2>1, <2>2, <2>3
<1>4. ASSUME NEW m \in net', m.id = "reply", m.dst = dst
      PROVE  LeadsNow(m.from, dst)
  <2>1. m \in net \/ ReplyStarted(m) \/ ReplySentOn(m)
    BY <1>4, CommandSteps DEF CommandStep, FirstRequest, RequestSentOn
  <2>2. CASE m \in net
    BY <1>1, <1>2, <1>4, <2>2 DEF NoHoles
  <2>3. CASE ReplyStarted(m)
    BY <1>4, <2>3 DEF ReplyStarted, LeadsNow
  <2>4. CASE ReplySentOn(m)
    BY <1>1, <1>4, <2>4 DEF ReplySentOn, LeadsNow
  <2> QED
    BY <2>1, <2>2, <2>3, <2>4
<1> QED
  BY <1>3, <1>4

(* A discovery starts anew only where one has just ended.                  *)
LEMMA RenewedWasLive ==
  ASSUME TypeInv, IInv, OnDemand, NEW n \in Nodes, NEW i \in Slots, Renewed(n, i)
  PROVE  Live(table[n][i])
<1> DEFINE dst == table[n][i].dst
<1>1. dst \in Targets /\ dst # NONE
  BY SoughtByEntry, NodesAssumption DEF Renewed
<1>2. FindEntry(Ended(n, i), n, dst) = {}
  BY DEF Renewed, StartDiscovery
<1>3. PICK f \in Frames : waiting[n][f] = dst
  BY DEF Renewed, WaitingFor
<1>4. PICK j \in Slots : Matches(table[n][j], n, dst)
  BY <1>1, <1>3 DEF IInv, WaitersMatch
<1>5. OneEach(Ended(n, i))
  <2>1. OneEach(table[n])
    BY DEF IInv, OneEntryEach
  <2> QED
    BY <2>1, EndedSlots, OneEachKept
<1>6. CASE j = i
  BY <1>4, <1>6 DEF Matches
<1>7. CASE j # i
  <2>1. Matches(Ended(n, i)[j], n, dst)
    BY <1>4, <1>7, EndedSlots
  <2> QED
    BY <1>2, <1>5, <2>1, FoundIsOnly
<1> QED
  BY <1>6, <1>7

LEMMA LookAtSlotReplies ==
  ASSUME TypeInv, NEW n \in Nodes, NEW i \in Slots, LookAtSlot(n, i),
         NEW m \in net', m.id = "reply"
  PROVE  m \in net
<1> SUFFICES ASSUME m \notin net
             PROVE  FALSE
  OBVIOUS
<1>1. Renewed(n, i)
  BY LookAtSlotCases
<1>2. m.id = "request"
  BY <1>1, StartDiscoveryCommands DEF Renewed
<1> QED
  BY <1>2

LEMMA LookAtSlotQuiet ==
  ASSUME TypeInv, IInv, OnDemand, Quiet, NEW n \in Nodes, NEW i \in Slots, LookAtSlot(n, i),
         NEW j \in Slots, Live(table'[n][j]), NEW m \in net'
  PROVE  ~ReplyFor(m, table'[n][j].src, table'[n][j].dst)
<1> SUFFICES ASSUME m \in net
             PROVE  ~ReplyFor(m, table'[n][j].src, table'[n][j].dst)
  BY LookAtSlotReplies DEF ReplyFor
<1>1. \A k \in Slots : Live(table[n][k]) => ~ReplyFor(m, table[n][k].src, table[n][k].dst)
  BY DEF Quiet, LookAtSlot
<1>2. CASE Renewed(n, i)
  <2> DEFINE dst == table[n][i].dst
  <2>1. Live(table[n][i]) /\ table[n][i].src = n /\ dst \in Targets
    BY <1>2, RenewedWasLive, SoughtByEntry DEF Renewed
  <2>2. PICK sent : StartDiscovery(n, Ended(n, i), dst, sent)
    BY <1>2 DEF Renewed
  <2> HIDE DEF dst
  <2>3. PICK l \in Slots :
          /\ table'[n][l] = OwnEntry(n, dst)
          /\ \A h \in Slots \ {l} : table'[n][h] = Ended(n, i)[h]
    BY <2>1, <2>2, EndedSlots, StartDiscoveryEntries
  <2>4. CASE j = l
    BY <1>1, <2>1, <2>3, <2>4 DEF OwnEntry, dst
  <2>5. CASE j # l
    <3>1. table'[n][j] = table[n][j]
      BY <2>3, <2>5, EndedSlots
    <3> QED
      BY <1>1, <3>1
  <2> QED
    BY <2>4, <2>5
<1>3. CASE ~Renewed(n, i)
  <2>1. \/ table'[n][j] = table[n][j]
        \/ j = i /\ Aged(n, i)
    BY <1>3, LookAtSlotCases DEF Aged
  <2>2. table'[n][j].src = table[n][j].src /\ table'[n][j].dst = table[n][j].dst
        /\ Live(table[n][j])
    BY <2>1 DEF Aged
  <2> QED
    BY <1>1, <2>2
<1> QED
  BY <1>2, <1>3

LEMMA QuietKept == TypeInv /\ IInv /\ OnDemand /\ Quiet /\ [Next]_vars => Quiet'
<1> SUFFICES ASSUME TypeInv, IInv, OnDemand, Quiet, [Next]_vars,
                    NEW n \in Nodes, NEW k \in Slots, NEW i \in Slots, NEW m \in net',
                    at' = <<n, k>>, Live(table'[n][i])
             PROVE  ~ReplyFor(m, table'[n][i].src, table'[n][i].dst)
  BY DEF Quiet
<1>1. at' # NONE
  BY BoundsAssumption
<1>2. CASE UNCHANGED vars
  BY <1>2 DEF vars, Quiet
<1>3. ASSUME NEW h \in Nodes, TimerFires(h)
      PROVE  ~ReplyFor(m, table'[n][i].src, table'[n][i].dst)
  <2>1. h = n /\ UNCHANGED <<table, net>> /\ Settled(n)
    BY <1>3 DEF TimerFires
  <2> QED
    BY <2>1 DEF Settled, ReplyFor
<1>4. ASSUME NEW h \in Nodes, NEW l \in Slots, LookAtSlot(h, l)
      PROVE  ~ReplyFor(m, table'[n][i].src, table'[n][i].dst)
  <2>1. h = n
    BY <1>1, <1>4 DEF LookAtSlot, NextSlot
  <2> QED
    BY <1>4, <2>1, LookAtSlotQuiet
<1>5. UNCHANGED vars \/ (\E h \in Nodes : TimerFires(h))
      \/ (\E h \in Nodes, l \in Slots : LookAtSlot(h, l))
  BY <1>1 DEF Next, FrameWithoutRoute, Receive, Forget
<1> QED
  BY <1>2, <1>3, <1>4, <1>5

(* Routes that stay or get lost, entries that keep what they have seen and *)
(* replies of nodes that answer leave the order of the nodes as it is.     *)
LEMMA OrderKept ==
  ASSUME TypeInv, NEW src, NEW dst \in Targets, NEW heard \in SUBSET Nodes, NEW rank,
         Learnt(src, dst, heard), Downhill(dst, rank),
         \A n \in Nodes : route'[n][dst] = route[n][dst] \/ route'[n][dst] = Unknown,
         \A n \in heard, i \in Slots :
           /\ Matches(table'[n][i], src, dst) <=> Matches(table[n][i], src, dst)
           /\ Matches(table[n][i], src, dst) => table'[n][i].reverse = table[n][i].reverse,
         \A m \in net' : ReplyFor(m, src, dst) => m \in net \/ Answers(m.from, dst)
  PROVE  Learnt(src, dst, heard)' /\ Downhill(dst, rank)'
<1> DEFINE SeenNow(n, q) ==
             \E i \in Slots : Matches(table'[n][i], src, dst) /\ table'[n][i].reverse >= q
           CloserNow(n, q) == Answers(n, dst) \/ (n \in heard /\ SeenNow(n, q))
<1>1. ASSUME NEW n, NEW q, Closer(n, src, dst, q, heard)
      PROVE  CloserNow(n, q)
  BY <1>1 DEF Closer, HasSeen
<1>2. \A n \in heard : \E i \in Slots : Matches(table'[n][i], src, dst)
  BY DEF Learnt
<1>3. ASSUME NEW n \in heard, NEW i \in Slots, route'[n][dst] # Unknown,
             Matches(table'[n][i], src, dst)
      PROVE  CloserNow(route'[n][dst], table'[n][i].reverse)
  <2>1. route'[n][dst] = route[n][dst] /\ table'[n][i].reverse = table[n][i].reverse
        /\ Matches(table[n][i], src, dst)
    BY <1>3
  <2> HIDE DEF CloserNow
  <2>2. CloserNow(route[n][dst], table[n][i].reverse)
    BY <1>1, <1>3, <2>1 DEF Learnt
  <2> QED
    BY <2>1, <2>2
<1>4. ASSUME NEW m \in net', ReplyFor(m, src, dst)
      PROVE  CloserNow(m.from, m.forward)
  <2>1. CASE m \in net
    BY <1>1, <1>4, <2>1 DEF Learnt
  <2>2. CASE Answers(m.from, dst)
    BY <2>2
  <2> QED
    BY <1>4, <2>1, <2>2
<1>5. Learnt(src, dst, heard)'
  BY <1>2, <1>3, <1>4 DEF Learnt, Closer, HasSeen, Answers
<1>6. Downhill(dst, rank)'
  BY DEF Downhill
<1> QED
  BY <1>5, <1>6

(* The end of an entry, with no reply on its way, makes a clean start.     *)
LEMMA OrderRestarts ==
  ASSUME TypeInv, NEW src, NEW dst \in Targets, NEW rank, Downhill(dst, rank),
         UNCHANGED route, \A m \in net' : ~ReplyFor(m, src, dst)
  PROVE  Learnt(src, dst, {})' /\ Downhill(dst, rank)'
BY DEF Learnt, Downhill

LEMMA ReplyFields ==
  ASSUME TypeInv, NEW m \in net, m.id = "reply"
  PROVE  /\ m.from \in Nodes /\ m.to \in Nodes /\ m.src \in Nodes /\ m.dst \in Targets
         /\ m.forward \in Int /\ m.from # Unknown
<1>1. m \in [id : {"reply"}, from : Nodes, to : Nodes, src : Nodes, dst : Targets,
             forward : Qualities, reverse : Qualities]
  BY DEF TypeInv, TypeOK, Command
<1>2. Qualities \subseteq Int
  BY DEF Qualities, NoLink, Best
<1> QED
  BY <1>1, <1>2, NodesAssumption

LEMMA SeenQualities ==
  ASSUME TypeInv, NEW n \in Nodes, NEW i \in Slots
  PROVE  table[n][i].reverse \in Int
<1>1. Qualities \subseteq Int
  BY DEF Qualities, NoLink, Best
<1>2. table[n][i] \in Entry
  BY DEF TypeInv, TypeOK
<1>3. table[n][i].reverse \in Qualities
  BY <1>2, EntryKinds
<1> QED
  BY <1>1, <1>3

(* A reply that counts: the nodes that have seen as good a one stay where  *)
(* they are and lead to one another; all the others move uphill, with the  *)
(* node that takes its new route.                                          *)
LEMMA OrderLearns ==
  ASSUME TypeInv, IInv, AwayFromAnswers, AnswerersNeedNoRoute,
         NEW m \in net, m.id = "reply", m.dst \in Sought,
         NEW i \in Improves(m.to, m),
         table' = [table EXCEPT ![m.to][i].reverse = m.forward],
         \A k \in Nodes : route'[k][m.dst] = IF k = m.to THEN m.from ELSE route[k][m.dst],
         \A h \in net' : ReplyFor(h, m.src, m.dst) =>
                           h \in net \/ (h.from = m.to /\ h.forward = m.forward),
         NEW heard \in SUBSET Nodes, NEW rank \in [Nodes -> Nat],
         Learnt(m.src, m.dst, heard), Downhill(m.dst, rank)
  PROVE  \E heard2 \in SUBSET Nodes, rank2 \in [Nodes -> Nat] :
           Learnt(m.src, m.dst, heard2)' /\ Downhill(m.dst, rank2)'
<1> DEFINE n == m.to
           x == m.from
           src == m.src
           dst == m.dst
           heard2 == heard \cup {n}
<1>0. PICK D : D = {k \in Nodes : Closer(k, src, dst, m.forward, heard)}
  OBVIOUS
<1> DEFINE rank2 == [k \in Nodes |-> IF k \in D THEN rank[k] ELSE rank[k] + rank[x] + 1]
<1>1. /\ n \in Nodes /\ x \in Nodes /\ dst \in Targets /\ i \in Slots
      /\ m.forward \in Int /\ x # Unknown
      /\ Matches(table[n][i], src, dst) /\ m.forward > table[n][i].reverse
  BY ReplyFields DEF Improves, FindEntry
<1>2. \A k \in Nodes, j \in Slots : table[k][j].reverse \in Int
  BY SeenQualities
<1>3. \A j \in Slots : Matches(table[n][j], src, dst) => j = i
  BY <1>1 DEF IInv, OneEntryEach, OneEach, Matches
<1>4. ~Answers(n, dst)
  BY DEF AwayFromAnswers
<1>5. n \notin D
  <2>1. ~HasSeen(n, src, dst, m.forward)
    BY <1>1, <1>2, <1>3 DEF HasSeen
  <2> QED
    BY <1>0, <1>4, <2>1 DEF Closer
<1>6. x \in D
  BY <1>0, <1>1 DEF Learnt, ReplyFor
<1>7. ASSUME NEW k \in D, route[k][dst] # Unknown
      PROVE  route[k][dst] \in D
  <2>1. ~Answers(k, dst) /\ k \in heard
    BY <1>0, <1>7 DEF AnswerersNeedNoRoute, Closer
  <2>2. PICK j \in Slots : /\ Matches(table[k][j], src, dst)
                           /\ table[k][j].reverse >= m.forward
    BY <1>0, <2>1 DEF Closer, HasSeen
  <2>3. Closer(route[k][dst], src, dst, table[k][j].reverse, heard)
    BY <1>7, <2>1, <2>2 DEF Learnt
  <2>4. route[k][dst] \in Nodes
    BY <1>0, <1>1, <1>7 DEF TypeInv, TypeOK
  <2>5. ASSUME NEW l \in Slots, table[route[k][dst]][l].reverse >= table[k][j].reverse
        PROVE  table[route[k][dst]][l].reverse >= m.forward
    <3>1. /\ table[route[k][dst]][l].reverse \in Int /\ table[k][j].reverse \in Int
          /\ m.forward \in Int
      BY <1>0, <1>1, <1>2, <2>4
    <3> QED
      BY <2>2, <2>5, <3>1
  <2> QED
    BY <1>0, <2>3, <2>4, <2>5 DEF Closer, HasSeen
<1>8. Downhill(dst, rank2)'
  <2> SUFFICES ASSUME NEW k \in Nodes, route'[k][dst] # Unknown
               PROVE  rank2[route'[k][dst]] < rank2[k]
    BY DEF Downhill
  <2>1. CASE k = n
    BY <1>1, <1>5, <1>6, <2>1
  <2>2. CASE k # n
    <3> DEFINE h == route[k][dst]
    <3>1. route'[k][dst] = h /\ h \in Nodes /\ rank[h] < rank[k]
      BY <1>1, <2>2 DEF Downhill, TypeInv, TypeOK
    <3>2. k \in D => h \in D
      BY <1>7, <3>1
    <3> HIDE DEF h
    <3> QED
      BY <1>1, <3>1, <3>2
  <2> QED
    BY <2>1, <2>2
<1>9. rank2 \in [Nodes -> Nat]
  BY <1>1
<1> DEFINE SeenNow(k, q) ==
             \E j \in Slots : Matches(table'[k][j], src, dst) /\ table'[k][j].reverse >= q
           CloserNow(k, q) == Answers(k, dst) \/ (k \in heard2 /\ SeenNow(k, q))
<1>10. \A k \in Nodes, j \in Slots :
         /\ Matches(table'[k][j], src, dst) <=> Matches(table[k][j], src, dst)
         /\ table'[k][j].reverse =
              IF k = n /\ j = i THEN m.forward ELSE table[k][j].reverse
  <2> SUFFICES ASSUME NEW k \in Nodes, NEW j \in Slots
               PROVE  /\ Matches(table'[k][j], src, dst) <=> Matches(table[k][j], src, dst)
                      /\ table'[k][j].reverse =
                           IF k = n /\ j = i THEN m.forward ELSE table[k][j].reverse
    OBVIOUS
  <2>1. CASE k = n /\ j = i
    <3>1. table'[k][j] = [table[k][j] EXCEPT !.reverse = m.forward]
      BY <1>1, <2>1 DEF TypeInv, TypeOK
    <3>2. /\ table'[k][j].src = table[k][j].src /\ table'[k][j].dst = table[k][j].dst
          /\ table'[k][j].timeout = table[k][j].timeout
          /\ table'[k][j].reverse = m.forward
      <4>1. table[k][j] \in Entry /\ Live(table[k][j])
        BY <1>1, <2>1 DEF Matches, TypeInv, TypeOK
      <4>2. table[k][j] \in RealEntry
        BY <4>1, EntryKinds
      <4> QED
        BY <3>1, <4>2 DEF RealEntry
    <3> QED
      BY <2>1, <3>2 DEF Matches, Live
  <2>2. CASE k # n \/ j # i
    <3>1. table'[k][j] = table[k][j]
      BY <1>1, <2>2 DEF TypeInv, TypeOK
    <3> QED
      BY <2>2, <3>1
  <2> QED
    BY <2>1, <2>2
<1>11. ASSUME NEW k \in Nodes, NEW q \in Int, Closer(k, src, dst, q, heard)
       PROVE  CloserNow(k, q)
  <2>1. ASSUME NEW j \in Slots, Matches(table[k][j], src, dst), table[k][j].reverse >= q
        PROVE  Matches(table'[k][j], src, dst) /\ table'[k][j].reverse >= q
    BY <1>1, <1>2, <1>10, <2>1
  <2> QED
    BY <1>11, <2>1 DEF Closer, HasSeen
<1>12. CloserNow(n, m.forward)
  BY <1>1, <1>10
<1>13. ASSUME NEW k \in heard2
       PROVE  \E j \in Slots : Matches(table'[k][j], src, dst)
  BY <1>1, <1>10 DEF Learnt
<1>14. ASSUME NEW k \in heard2, NEW j \in Slots, route'[k][dst] # Unknown,
              Matches(table'[k][j], src, dst)
       PROVE  CloserNow(route'[k][dst], table'[k][j].reverse)
  <2>1. CASE k = n
    <3>1. j = i /\ route'[k][dst] = x /\ table'[k][j].reverse = m.forward
      BY <1>1, <1>3, <1>10, <1>14, <2>1
    <3> HIDE DEF CloserNow
    <3> QED
      BY <1>0, <1>1, <1>6, <1>11, <3>1
  <2>2. CASE k # n
    <3>1. k \in heard /\ k \in Nodes
      BY <2>2
    <3>2. route'[k][dst] = route[k][dst] /\ table'[k][j].reverse = table[k][j].reverse
          /\ Matches(table[k][j], src, dst)
      BY <1>10, <1>14, <2>2, <3>1
    <3>3. Closer(route[k][dst], src, dst, table[k][j].reverse, heard)
      BY <1>14, <3>1, <3>2 DEF Learnt
    <3>4. route[k][dst] \in Nodes
      BY <1>1, <1>14, <3>1, <3>2 DEF TypeInv, TypeOK
    <3> HIDE DEF CloserNow
    <3> QED
      BY <1>2, <1>11, <3>1, <3>2, <3>3, <3>4
  <2> QED
    BY <2>1, <2>2
<1>15. ASSUME NEW h \in net', ReplyFor(h, src, dst)
       PROVE  CloserNow(h.from, h.forward)
  <2>1. CASE h \in net
    <3>1. h.from \in Nodes /\ h.forward \in Int
      BY <1>15, <2>1, ReplyFields DEF ReplyFor
    <3>2. Closer(h.from, src, dst, h.forward, heard)
      BY <1>15, <2>1 DEF Learnt
    <3> QED
      BY <1>11, <3>1, <3>2
  <2>2. CASE h.from = n /\ h.forward = m.forward
    BY <1>12, <2>2
  <2> QED
    BY <1>15, <2>1, <2>2
<1>16. Learnt(src, dst, heard2)'
  BY <1>13, <1>14, <1>15 DEF Learnt, Closer, HasSeen, Answers
<1>17. heard2 \in SUBSET Nodes
  BY <1>1
<1> HIDE DEF heard2, rank2
<1> QED
  BY <1>8, <1>9, <1>16, <1>17

Ordered(src, dst) ==
  \E heard \in SUBSET Nodes, rank \in [Nodes -> Nat] :
    Learnt(src, dst, heard) /\ Downhill(dst, rank)

LEMMA HeardHaveEntry ==
  ASSUME IInv, NEW src, NEW dst, NEW heard \in SUBSET Nodes, Learnt(src, dst, heard),
         NEW n \in heard
  PROVE  FindEntry(table[n], src, dst) # {}
<1>1. PICK i \in Slots : Matches(table[n][i], src, dst)
  BY DEF Learnt
<1>2. OneEach(table[n])
  BY DEF IInv, OneEntryEach
<1> QED
  BY <1>1, <1>2, FoundIsOnly

(* One node makes an entry where none was in use, for a discovery it had   *)
(* no entry for.                                                           *)
LEMMA OrderWithNewEntry ==
  ASSUME TypeInv, IInv, NEW src, NEW dst \in Targets, Ordered(src, dst),
         \A k \in Nodes : route'[k][dst] = route[k][dst],
         NEW n \in Nodes, NEW j \in Slots, ~Live(table[n][j]),
         FindEntry(table[n], table'[n][j].src, table'[n][j].dst) = {},
         \A i \in Slots \ {j} : table'[n][i] = table[n][i],
         \A k \in Nodes \ {n} : table'[k] = table[k],
         \A m \in net' : ReplyFor(m, src, dst) => m \in net \/ Answers(m.from, dst)
  PROVE  Ordered(src, dst)'
<1>1. PICK heard \in SUBSET Nodes, rank \in [Nodes -> Nat] :
        Learnt(src, dst, heard) /\ Downhill(dst, rank)
  BY DEF Ordered
<1>2. ASSUME NEW k \in heard, NEW i \in Slots
      PROVE  /\ Matches(table'[k][i], src, dst) <=> Matches(table[k][i], src, dst)
             /\ Matches(table[k][i], src, dst) => table'[k][i].reverse = table[k][i].reverse
  <2>1. CASE k = n /\ i = j
    <3>1. ~Matches(table[k][i], src, dst)
      BY <2>1 DEF Matches
    <3>2. FindEntry(table[n], src, dst) # {}
      BY <1>1, <2>1, HeardHaveEntry
    <3>3. ~Matches(table'[k][i], src, dst)
      BY <2>1, <3>2 DEF Matches
    <3> QED
      BY <3>1, <3>3
  <2>2. CASE k # n \/ i # j
    BY <2>2
  <2> QED
    BY <2>1, <2>2
<1>3. Learnt(src, dst, heard)' /\ Downhill(dst, rank)'
  BY <1>1, <1>2, OrderKept
<1> QED
  BY <1>3 DEF Ordered

LEMMA OrderWithSameEntries ==
  ASSUME TypeInv, NEW src, NEW dst \in Targets, Ordered(src, dst),
         \A k \in Nodes : route'[k][dst] = route[k][dst] \/ route'[k][dst] = Unknown,
         \A k \in Nodes, i \in Slots :
           /\ Matches(table'[k][i], src, dst) <=> Matches(table[k][i], src, dst)
           /\ Matches(table[k][i], src, dst) => table'[k][i].reverse = table[k][i].reverse,
         \A m \in net' : ReplyFor(m, src, dst) => m \in net \/ Answers(m.from, dst)
  PROVE  Ordered(src, dst)'
<1>1. PICK heard \in SUBSET Nodes, rank \in [Nodes -> Nat] :
        Learnt(src, dst, heard) /\ Downhill(dst, rank)
  BY DEF Ordered
<1>2. Learnt(src, dst, heard)' /\ Downhill(dst, rank)'
  BY <1>1, OrderKept
<1> QED
  BY <1>2 DEF Ordered

LEMMA FrameWithoutRouteOrder ==
  ASSUME TypeInv, IInv, OnDemand, NEW n \in Nodes, NEW f \in Frames, NEW t \in Targets,
         FrameWithoutRoute(n, f, t),
         NEW src, NEW dst \in Targets, Ordered(src, dst)
  PROVE  Ordered(src, dst)'
<1>1. UNCHANGED route
  BY DEF FrameWithoutRoute
<1>2. CASE UNCHANGED <<table, net>>
  BY <1>1, <1>2, OrderWithSameEntries
<1>3. CASE \E sent : StartDiscovery(n, table[n], t, sent)
  <2>1. PICK sent : StartDiscovery(n, table[n], t, sent)
    BY <1>3
  <2>2. \A m \in net' : ReplyFor(m, src, dst) => m \in net \/ Answers(m.from, dst)
    BY <2>1, StartDiscoveryCommands DEF ReplyFor
  <2>3. table[n] \in [Slots -> Entry]
    BY DEF TypeInv, TypeOK
  <2>4. PICK j \in Slots :
          /\ ~Live(table[n][j])
          /\ table'[n][j] = OwnEntry(n, t)
          /\ \A i \in Slots \ {j} : table'[n][i] = table[n][i]
          /\ \A k \in Nodes \ {n} : table'[k] = table[k]
    BY <2>1, <2>3, StartDiscoveryEntries
  <2>5. FindEntry(table[n], table'[n][j].src, table'[n][j].dst) = {}
    BY <2>1, <2>4 DEF StartDiscovery, OwnEntry
  <2> QED
    BY <1>1, <2>2, <2>4, <2>5, OrderWithNewEntry
<1> QED
  BY <1>2, <1>3 DEF FrameWithoutRoute

LEMMA EnterRequestOrder ==
  ASSUME TypeInv, IInv, NEW m \in net, EnterRequest(m.to, m),
         NEW src, NEW dst \in Targets, Ordered(src, dst),
         \A k \in Nodes : route'[k][dst] = route[k][dst],
         \A h \in net' : ReplyFor(h, src, dst) => h \in net \/ Answers(h.from, dst)
  PROVE  Ordered(src, dst)'
<1> DEFINE n == m.to
           found == FindEntry(table[n], m.src, m.dst)
<1>1. n \in Nodes
  BY DEF TypeInv, TypeOK, Command
<1>2. PICK j \in IF found # {} THEN found ELSE NewEntry(table[n]) :
        table' = [table EXCEPT ![n][j] = Heard(@, m)]
  BY DEF EnterRequest
<1>3. j \in Slots
  BY <1>2 DEF FindEntry, NewEntry
<1>4. table'[n][j] = Heard(table[n][j], m)
  BY <1>1, <1>2, <1>3 DEF TypeInv, TypeOK
<1>5. /\ \A i \in Slots \ {j} : table'[n][i] = table[n][i]
      /\ \A k \in Nodes \ {n} : table'[k] = table[k]
  BY <1>1, <1>2, <1>3 DEF TypeInv, TypeOK
<1>6. CASE found # {}
  <2>1. Matches(table[n][j], m.src, m.dst)
    BY <1>2, <1>6 DEF FindEntry
  <2>2. /\ table'[n][j].src = table[n][j].src /\ table'[n][j].dst = table[n][j].dst
        /\ table'[n][j].timeout = table[n][j].timeout
        /\ table'[n][j].reverse = table[n][j].reverse
    BY <1>4, <2>1, HeardEntry DEF Matches
  <2>3. \A k \in Nodes, i \in Slots :
          /\ Matches(table'[k][i], src, dst) <=> Matches(table[k][i], src, dst)
          /\ Matches(table[k][i], src, dst) => table'[k][i].reverse = table[k][i].reverse
    BY <1>5, <2>2 DEF Matches, Live
  <2> QED
    BY <2>3, OrderWithSameEntries
<1>7. CASE found = {}
  <2>1. ~Live(table[n][j])
    BY <1>2, <1>7 DEF NewEntry
  <2>2. FindEntry(table[n], table'[n][j].src, table'[n][j].dst) = {}
    BY <1>4, <1>7, HeardEntry
  <2> QED
    BY <1>1, <1>3, <1>5, <2>1, <2>2, OrderWithNewEntry
<1> QED
  BY <1>6, <1>7

LEMMA SameSource ==
  ASSUME TypeInv, OnDemand, NEW m \in net, NEW d \in Demands, d[2] \in Sought, m.dst = d[2]
  PROVE  m.src = d[1]
<1>1. <<m.src, m.dst>> \in Demands /\ <<m.src, m.dst>>[2] = d[2]
  BY DEF OnDemand
<1>2. <<m.src, m.dst>> = d
  BY <1>1, SourceOf
<1>3. <<m.src, m.dst>>[1] = d[1]
  BY <1>2
<1> QED
  BY <1>3

(* A reply that counts, at the node that asked or on the way to it.        *)
LEMMA ReplyOrder ==
  ASSUME TypeInv, IInv, OnDemand, AwayFromAnswers, AnswerersNeedNoRoute,
         NEW m \in net, m.id = "reply",
         NEW i \in Improves(m.to, m),
         table' = [table EXCEPT ![m.to][i].reverse = m.forward],
         \A k \in Nodes, t \in Targets : t # m.src \/ k # m.to =>
           route'[k][t] = IF k = m.to /\ t = m.dst THEN m.from ELSE route[k][t],
         \A h \in net' : h.id = "reply" =>
           \/ h \in net
           \/ h.from = m.to /\ h.forward = m.forward /\ h.dst = m.dst,
         NEW d \in Demands, d[2] \in Sought, Ordered(d[1], d[2])
  PROVE  Ordered(d[1], d[2])'
<1> DEFINE n == m.to
           src == d[1]
           dst == d[2]
<1>1. n \in Nodes /\ i \in Slots /\ dst \in Targets /\ m.src # dst
      /\ Matches(table[n][i], m.src, m.dst)
  BY ReplyFields, SourceOf DEF Improves, FindEntry, OnDemand
<1>2. CASE m.dst = dst
  <2>1. m.src = src
    BY <1>2, SameSource
  <2>2. PICK heard \in SUBSET Nodes, rank \in [Nodes -> Nat] :
          Learnt(src, dst, heard) /\ Downhill(dst, rank)
    BY DEF Ordered
  <2>3. \A k \in Nodes : route'[k][m.dst] = IF k = n THEN m.from ELSE route[k][m.dst]
    BY <1>1, <1>2
  <2>4. \A h \in net' : ReplyFor(h, m.src, m.dst) =>
                          h \in net \/ (h.from = n /\ h.forward = m.forward)
    BY DEF ReplyFor
  <2>5. \E heard2 \in SUBSET Nodes, rank2 \in [Nodes -> Nat] :
          Learnt(m.src, m.dst, heard2)' /\ Downhill(m.dst, rank2)'
    BY <1>2, <2>1, <2>2, <2>3, <2>4, OrderLearns
  <2> QED
    BY <1>2, <2>1, <2>5 DEF Ordered
<1>3. CASE m.dst # dst
  <2>1. \A k \in Nodes : route'[k][dst] = route[k][dst]
    BY <1>1, <1>3
  <2>2. \A h \in net' : ReplyFor(h, src, dst) => h \in net \/ Answers(h.from, dst)
    BY <1>3 DEF ReplyFor
  <2>3. ASSUME NEW k \in Nodes, NEW j \in Slots
        PROVE  /\ Matches(table'[k][j], src, dst) <=> Matches(table[k][j], src, dst)
               /\ Matches(table[k][j], src, dst) => table'[k][j].reverse = table[k][j].reverse
    <3>1. CASE k = n /\ j = i
      <4>1. table'[k][j] = [table[k][j] EXCEPT !.reverse = m.forward]
        BY <1>1, <3>1 DEF TypeInv, TypeOK
      <4>2. table[k][j] \in RealEntry
        <5>1. table[k][j] \in Entry /\ Live(table[k][j])
          BY <1>1, <3>1 DEF Matches, TypeInv, TypeOK
        <5> QED
          BY <5>1, EntryKinds
      <4>3. table'[k][j].dst = table[k][j].dst /\ table[k][j].dst = m.dst
        BY <1>1, <3>1, <4>1, <4>2 DEF RealEntry, Matches
      <4> QED
        BY <1>3, <4>3 DEF Matches
    <3>2. CASE k # n \/ j # i
      <4>1. table'[k][j] = table[k][j]
        BY <1>1, <3>2 DEF TypeInv, TypeOK
      <4> QED
        BY <4>1
    <3> QED
      BY <3>1, <3>2
  <2> QED
    BY <1>1, <2>1, <2>2, <2>3, OrderWithSameEntries
<1> QED
  BY <1>2, <1>3

LEMMA ReceiveOrder ==
  ASSUME TypeInv, IInv, OnDemand, AwayFromAnswers, AnswerersNeedNoRoute,
         NEW m \in net, Receive(m),
         NEW d \in Demands, d[2] \in Sought, Ordered(d[1], d[2])
  PROVE  Ordered(d[1], d[2])'
<1> DEFINE n == m.to
           src == d[1]
           dst == d[2]
<1>1. /\ n \in Nodes /\ m.src \in Targets /\ m.dst \in Targets /\ dst \in Targets
      /\ m.src # dst /\ m.src # m.dst
  BY SourceOf, NoSelfDemand DEF OnDemand, TypeInv, TypeOK, Command, Targets
<1>2. route \in [Nodes -> [Targets -> Nodes \cup {Unknown}]]
  BY DEF TypeInv, TypeOK
<1>3. CASE RequestIgnored(n, m) \/ ReplyIgnored(n, m)
  <2>1. UNCHANGED <<table, route>> /\ net' \subseteq net
    BY <1>3 DEF RequestIgnored, ReplyIgnored
  <2> QED
    BY <1>1, <2>1, OrderWithSameEntries
<1>4. CASE RequestAnswered(n, m)
  <2>1. \A k \in Nodes : route'[k][dst] = route[k][dst]
    BY <1>1, <1>2, <1>4 DEF RequestAnswered, UpdateEntry
  <2>2. PICK sent \in MaySend(Reply(n, m.from, m.src, m.dst, PathQuality(m), Best)) :
          net' = (net \ {m}) \cup sent
    BY <1>4 DEF RequestAnswered
  <2>3. ASSUME NEW h \in net', ReplyFor(h, src, dst)
        PROVE  h \in net \/ Answers(h.from, dst)
    <3>1. h \in net \/ (h.from = n /\ h.dst = m.dst)
      BY <2>2, SentReplies
    <3> QED
      BY <1>4, <2>3, <3>1 DEF ReplyFor, RequestAnswered
  <2> QED
    BY <1>1, <1>4, <2>1, <2>3, EnterRequestOrder DEF RequestAnswered
<1>5. CASE RequestPassedOn(n, m)
  <2>1. PICK sent \in MaySend(Request(n, m.src, m.dst, PathQuality(m))) :
          net' = (net \ {m}) \cup sent
    BY <1>5 DEF RequestPassedOn
  <2>2. ASSUME NEW h \in net', ReplyFor(h, src, dst)
        PROVE  h \in net \/ Answers(h.from, dst)
    BY <2>1, <2>2, SentRequests DEF ReplyFor
  <2> QED
    BY <1>1, <1>5, <2>2, EnterRequestOrder DEF RequestPassedOn
<1>6. CASE ReplyArrived(n, m)
  <2>1. m.id = "reply" /\ net' = net \ {m}
    BY <1>6 DEF ReplyArrived
  <2>2. PICK i \in Improves(n, m) : table' = [table EXCEPT ![n][i].reverse = m.forward]
    BY <1>6 DEF ReplyArrived
  <2>3. \A k \in Nodes, t \in Targets :
          route'[k][t] = IF k = n /\ t = m.dst THEN m.from ELSE route[k][t]
    BY <1>1, <1>2, <1>6 DEF ReplyArrived, UpdateEntry
  <2> QED
    BY <2>1, <2>2, <2>3, ReplyOrder
<1>7. CASE ReplyPassedOn(n, m)
  <2>1. PICK i \in Improves(n, m) :
          /\ table' = [table EXCEPT ![n][i].reverse = m.forward]
          /\ route' = UpdateEntry(UpdateEntry(route, n, m.dst, m.from), n, m.src,
                                  table[n][i].sender)
          /\ \E sent \in MaySend(Reply(n, table[n][i].sender, m.src, m.dst, m.forward,
                                       PathQuality(m))) :
               net' = (net \ {m}) \cup sent
    BY <1>7 DEF ReplyPassedOn
  <2>2. PICK sent \in MaySend(Reply(n, table[n][i].sender, m.src, m.dst, m.forward,
                                    PathQuality(m))) :
          net' = (net \ {m}) \cup sent
    BY <2>1
  <2>3. ASSUME NEW h \in net', h \notin net
        PROVE  h.from = n /\ h.forward = m.forward /\ h.dst = m.dst
    BY <2>2, <2>3, SentReplies
  <2>4. \A k \in Nodes, t \in Targets : t # m.src \/ k # n =>
          route'[k][t] = IF k = n /\ t = m.dst THEN m.from ELSE route[k][t]
    BY <1>1, <1>2, <2>1 DEF UpdateEntry
  <2>5. m.id = "reply"
    BY <1>7 DEF ReplyPassedOn
  <2> QED
    BY <2>1, <2>3, <2>4, <2>5, ReplyOrder
<1> QED
  BY <1>3, <1>4, <1>5, <1>6, <1>7 DEF Receive

LEMMA LookAtSlotOrder ==
  ASSUME TypeInv, IInv, OnDemand, Quiet, NEW n \in Nodes, NEW i \in Slots, LookAtSlot(n, i),
         NEW src, NEW dst \in Targets, Ordered(src, dst)
  PROVE  Ordered(src, dst)'
<1>1. UNCHANGED route
  BY DEF LookAtSlot
<1>2. \A m \in net' : ReplyFor(m, src, dst) => m \in net
  BY LookAtSlotReplies DEF ReplyFor
(* The entry that ends is one of this discovery: there are no replies.     *)
<1>3. CASE Matches(table[n][i], src, dst) /\ (~Live(table'[n][i]) \/ Renewed(n, i))
  <2>1. \A m \in net' : ~ReplyFor(m, src, dst)
    BY <1>2, <1>3 DEF Quiet, LookAtSlot, Matches
  <2>2. PICK rank \in [Nodes -> Nat] : Downhill(dst, rank)
    BY DEF Ordered
  <2>3. Learnt(src, dst, {})' /\ Downhill(dst, rank)'
    BY <1>1, <2>1, <2>2, OrderRestarts
  <2> QED
    BY <2>3 DEF Ordered
<1>4. CASE Renewed(n, i) /\ ~Matches(table[n][i], src, dst)
  <2> DEFINE t == table[n][i].dst
  <2>1. Live(table[n][i]) /\ table[n][i].src = n /\ t \in Targets
    BY <1>4, RenewedWasLive, SoughtByEntry DEF Renewed
  <2>2. PICK sent : StartDiscovery(n, Ended(n, i), t, sent)
    BY <1>4 DEF Renewed
  <2>3. n # src \/ t # dst
    BY <1>4, <2>1 DEF Matches
  <2> HIDE DEF t
  <2>4. PICK l \in Slots :
          /\ ~Live(Ended(n, i)[l])
          /\ table'[n][l] = OwnEntry(n, t)
          /\ \A h \in Slots \ {l} : table'[n][h] = Ended(n, i)[h]
          /\ \A k \in Nodes \ {n} : table'[k] = table[k]
    BY <2>1, <2>2, EndedSlots, StartDiscoveryEntries
  <2>5. ASSUME NEW k \in Nodes, NEW j \in Slots
        PROVE  /\ Matches(table'[k][j], src, dst) <=> Matches(table[k][j], src, dst)
               /\ Matches(table[k][j], src, dst) => table'[k][j].reverse = table[k][j].reverse
    <3>1. CASE k = n /\ j = l
      <4>1. ~Matches(table'[k][j], src, dst)
        BY <2>3, <2>4, <3>1 DEF OwnEntry, Matches
      <4>2. ~Matches(table[k][j], src, dst)
        <5>1. CASE j = i
          BY <1>4, <3>1, <5>1
        <5>2. CASE j # i
          BY <2>4, <3>1, <5>2, EndedSlots DEF Matches
        <5> QED
          BY <5>1, <5>2
      <4> QED
        BY <4>1, <4>2
    <3>2. CASE k = n /\ j # l /\ j = i
      <4>1. ~Matches(table'[k][j], src, dst)
        BY <2>4, <3>2, EndedSlots DEF Matches
      <4> QED
        BY <1>4, <3>2, <4>1
    <3>3. CASE k = n /\ j # l /\ j # i
      BY <2>4, <3>3, EndedSlots
    <3>4. CASE k # n
      BY <2>4, <3>4
    <3> QED
      BY <3>1, <3>2, <3>3, <3>4
  <2> QED
    BY <1>1, <1>2, <2>5, OrderWithSameEntries
<1>5. CASE ~Renewed(n, i) /\ ~(Matches(table[n][i], src, dst) /\ ~Live(table'[n][i]))
  <2>1. ASSUME NEW k \in Nodes, NEW j \in Slots
        PROVE  /\ Matches(table'[k][j], src, dst) <=> Matches(table[k][j], src, dst)
               /\ Matches(table[k][j], src, dst) => table'[k][j].reverse = table[k][j].reverse
    <3>1. CASE k = n /\ j = i
      <4>1. CASE Live(table'[n][i]) /\ Aged(n, i)
        BY <3>1, <4>1 DEF Matches, Aged
      <4>2. CASE ~Live(table'[n][i])
        BY <1>5, <3>1, <4>2 DEF Matches
      <4> QED
        BY <1>5, <4>1, <4>2, LookAtSlotCases
    <3>2. CASE k # n \/ j # i
      <4>1. table'[k][j] = table[k][j]
        BY <1>5, <3>2, LookAtSlotCases
      <4> QED
        BY <4>1
    <3> QED
      BY <3>1, <3>2
  <2> QED
    BY <1>1, <1>2, <2>1, OrderWithSameEntries
<1> QED
  BY <1>3, <1>4, <1>5

LEMMA NoLoopsKept ==
  TypeInv /\ IInv /\ RouteInv /\ [Next]_vars => NoLoops'
<1> SUFFICES ASSUME TypeInv, IInv, RouteInv, [Next]_vars,
                    NEW d \in Demands, d[2] \in Sought
             PROVE  Ordered(d[1], d[2])'
  BY DEF NoLoops, Ordered, Sought
<1>1. Ordered(d[1], d[2]) /\ d[2] \in Targets
  BY SourceOf DEF RouteInv, NoLoops, Ordered
<1>2. ASSUME UNCHANGED <<table, net>>,
             \A k \in Nodes : route'[k][d[2]] = route[k][d[2]] \/ route'[k][d[2]] = Unknown
      PROVE  Ordered(d[1], d[2])'
  BY <1>1, <1>2, OrderWithSameEntries
<1>3. ASSUME NEW n \in Nodes, NEW f \in Frames, NEW t \in Targets,
             FrameWithoutRoute(n, f, t)
      PROVE  Ordered(d[1], d[2])'
  BY <1>1, <1>3, FrameWithoutRouteOrder DEF RouteInv
<1>4. ASSUME NEW m \in net, Receive(m)
      PROVE  Ordered(d[1], d[2])'
  BY <1>1, <1>4, ReceiveOrder DEF RouteInv
<1>5. ASSUME NEW n \in Nodes, NEW i \in Slots, LookAtSlot(n, i)
      PROVE  Ordered(d[1], d[2])'
  BY <1>1, <1>5, LookAtSlotOrder DEF RouteInv
<1>6. ASSUME NEW n \in Nodes, NEW t \in Targets, Forget(n, t)
      PROVE  Ordered(d[1], d[2])'
  <2>1. \A k \in Nodes : route'[k][d[2]] = route[k][d[2]] \/ route'[k][d[2]] = Unknown
    BY <1>1, <1>6 DEF Forget, TypeInv, TypeOK
  <2> QED
    BY <1>2, <1>6, <2>1 DEF Forget
<1>7. ASSUME NEW n \in Nodes, TimerFires(n)
      PROVE  Ordered(d[1], d[2])'
  BY <1>2, <1>7 DEF TimerFires
<1>8. CASE UNCHANGED vars
  BY <1>2, <1>8 DEF vars
<1> QED
  BY <1>3, <1>4, <1>5, <1>6, <1>7, <1>8 DEF Next

LEMMA InitRouteInv == Init => RouteInv
<1> SUFFICES ASSUME Init
             PROVE  RouteInv
  OBVIOUS
<1>1. \A n \in Nodes, i \in Slots : table[n][i] = Unused
  BY DEF Init
<1>2. OnDemand /\ AwayFromAnswers /\ Quiet
  BY <1>1, UnusedType DEF Init, OnDemand, AwayFromAnswers, Quiet, Unused
<1>3. \A n \in Nodes, dst \in Targets : route[n][dst] = Unknown
  BY DEF Init
<1>4. AnswerersNeedNoRoute /\ NoHoles
  BY <1>3, SourceOf DEF Init, AnswerersNeedNoRoute, NoHoles
<1>5. ASSUME NEW d \in Demands, d[2] \in Sought
      PROVE  Learnt(d[1], d[2], {}) /\ Downhill(d[2], [n \in Nodes |-> 0])
  BY <1>3, <1>5, SourceOf DEF Init, Learnt, Downhill
<1>6. [n \in Nodes |-> 0] \in [Nodes -> Nat]
  OBVIOUS
<1>7. NoLoops
  BY <1>5, <1>6 DEF NoLoops
<1> QED
  BY <1>2, <1>4, <1>7 DEF RouteInv

(* Routes to a target that one node looks for neither close a loop nor     *)
(* leave a hole, in a network of any shape, size and link quality, with    *)
(* any number of slots, however replies are lost, late or out of order.    *)
THEOREM RoutesAlwaysLead == Spec => []RoutesLead
<1>1. Init => TypeInv /\ IInv /\ RouteInv
  BY InitTypeInv, InitIInv, InitRouteInv
<1>2. TypeInv /\ IInv /\ RouteInv /\ [Next]_vars => (TypeInv /\ IInv /\ RouteInv)'
  BY StepTypeInv, StepIInv, OnDemandKept, AwayFromAnswersKept, AnswerersNeedNoRouteKept,
     QuietKept, NoHolesKept, NoLoopsKept DEF RouteInv
<1> QED
  BY <1>1, <1>2, RouteInvLeads, PTL DEF Spec
===============================================================================
