---------------------------- MODULE NwkRouteDiscovery ----------------------------
(***************************************************************************)
(* Route discovery in a network of several nodes (nwkRouteDiscovery.c).    *)
(* A frame that has no route waits while its node broadcasts a request,    *)
(* which the others pass on with the quality of the path so far; a node    *)
(* that answers for the destination sends a reply back along the senders   *)
(* of the request, and every node on the way learns the route from it.     *)
(* Commands may be lost and overtake each other.                           *)
(*                                                                         *)
(* A destination is a node or, with the multicast flag, a group: both are  *)
(* targets here, and Members[t] are the nodes that answer for t.           *)
(* NWK_ENABLE_ROUTE_DISCOVERY is off in the BitStorm builds; with it on    *)
(* the routing table learns from discovery alone.  A node's table of       *)
(* routes is what NWK_RouteNextHop() finds in it; NwkRoute is its detail.  *)
(***************************************************************************)
EXTENDS Integers, FiniteSets

CONSTANTS
  Nodes,         \* addresses
  Groups,        \* group numbers (NWK_GroupIsMember() of the members is true)
  Members,       \* for each target, the nodes that answer for it
  NonRouting,    \* nodes whose address has the bit NWK_ROUTE_NON_ROUTING
  Quality,       \* ind->lqi of each pair of nodes that hear each other
  Lossy,         \* bound: the pairs between which commands may be lost
  NSlots,        \* NWK_ROUTE_DISCOVERY_TABLE_SIZE
  Timeout,       \* NWK_ROUTE_DISCOVERY_TIMEOUT in ticks of 100 ms
  Frames,        \* buffers of a node that may hold a frame to send
  Demands,       \* which node has frames for which target
  MayForget,     \* bound: the routes that may be lost, each of them once
  Broadcast,     \* NWK_BROADCAST_ADDR, as the sender of a node's own request
  Unknown,       \* NWK_ROUTE_UNKNOWN
  NONE           \* not a target: the buffer does not wait; outside the handler

Targets == Nodes \cup Groups
Slots == 1..NSlots
Best == 255                    \* NWK_ROUTE_DISCOVERY_BEST_LINK_QUALITY
NoLink == 0                    \* NWK_ROUTE_DISCOVERY_NO_LINK
Qualities == NoLink..Best

ASSUME NodesAssumption ==
  /\ IsFiniteSet(Nodes)
  /\ Nodes \cap Groups = {} /\ NonRouting \subseteq Nodes
  /\ Broadcast \notin Nodes /\ Unknown \notin Nodes /\ NONE \notin Targets
ASSUME MembersAssumption ==
  /\ Members \in [Targets -> SUBSET Nodes]
  /\ \A n \in Nodes : Members[n] = {n}
(* A member of a group sends to it link-locally, without a route.          *)
ASSUME DemandsAssumption ==
  /\ Demands \subseteq Nodes \X Targets
  /\ \A d \in Demands : d[1] \notin Members[d[2]]
ASSUME LinksAssumption ==
  /\ DOMAIN Quality \subseteq Nodes \X Nodes
  /\ \A l \in DOMAIN Quality : Quality[l] \in Qualities /\ <<l[2], l[1]>> \in DOMAIN Quality
  /\ Lossy \subseteq DOMAIN Quality
ASSUME BoundsAssumption ==
  /\ NSlots \in Nat \ {0} /\ NONE \notin Nodes \X Slots
  /\ Timeout \in Nat \ {0} /\ MayForget \subseteq Nodes \X Targets

VARIABLES
  table,       \* nwkRouteDiscoveryTable[] of each node
  timer,       \* nodes whose nwkRouteDiscoveryTimer is started
  at,          \* the node in its timer handler and the slot it has got to
  route,       \* next hop of each node for each target, or Unknown
  waiting,     \* targets of frames in NWK_RD_STATE_WAIT_FOR_ROUTE
  net,         \* commands on their way
  forgot       \* history: routes that have been lost, by <<node, target>>

vars == <<table, timer, at, route, waiting, net, forgot>>

Unused ==
  [src |-> NONE, dst |-> NONE, sender |-> Broadcast, forward |-> NoLink,
   reverse |-> NoLink, timeout |-> 0]

(* NwkRouteDiscoveryTableEntry_t; dst also stands for multicast.           *)
Entry ==
  {Unused}
  \cup
  [src : Nodes, dst : Targets, sender : Nodes \cup {Broadcast},
   forward : Qualities, reverse : Qualities, timeout : 0..Timeout]

(* NwkCommandRouteRequest_t and NwkCommandRouteReply_t.                    *)
Command ==
  [id : {"request"}, from : Nodes, to : Nodes, src : Nodes, dst : Targets,
   lq : Qualities]
  \cup
  [id : {"reply"}, from : Nodes, to : Nodes, src : Nodes, dst : Targets,
   forward : Qualities, reverse : Qualities]

Init ==
  /\ table = [n \in Nodes |-> [i \in Slots |-> Unused]]
  /\ timer = {}
  /\ at = NONE
  /\ route = [n \in Nodes |-> [d \in Targets |-> Unknown]]
  /\ waiting = [n \in Nodes |-> [f \in Frames |-> NONE]]
  /\ net = {}
  /\ forgot = {}

(* nwkRouteDiscoveryUpdateLq() *)
UpdateLq(a, b) == (a * b) \div 256

Live(e) == e.timeout > 0
Matches(e, src, dst) == Live(e) /\ e.src = src /\ e.dst = dst

(* nwkRouteDiscoveryFindEntry(): the first match, if there is one.         *)
FindEntry(slots, src, dst) ==
  {i \in Slots : /\ Matches(slots[i], src, dst)
                 /\ \A k \in Slots : k < i => ~Matches(slots[k], src, dst)}

(* nwkRouteDiscoveryNewEntry() takes the first slot with no time left.     *)
NewEntry(slots) ==
  {i \in Slots : ~Live(slots[i]) /\ \A k \in Slots : k < i => Live(slots[k])}

(* nwkRouteDiscoverySendRequest() reaches every neighbour (but the node    *)
(* that looks for the route, which ignores its own request at once);       *)
(* nwkRouteDiscoverySendReply() goes to one.                               *)
Neighbours(n) == {k \in Nodes : <<n, k>> \in DOMAIN Quality}

Request(n, src, dst, lq) ==
  {[id |-> "request", from |-> n, to |-> k, src |-> src, dst |-> dst,
    lq |-> lq] : k \in Neighbours(n) \ {src}}

Reply(n, to, src, dst, forward, reverse) ==
  {[id |-> "reply", from |-> n, to |-> to, src |-> src, dst |-> dst,
    forward |-> forward, reverse |-> reverse]}

(* nwkRouteUpdateEntry(): the route is made or overwritten.                *)
UpdateEntry(routes, n, dst, hop) == [routes EXCEPT ![n][dst] = hop]

(* Both ways of sending give up silently when nwkFrameAlloc() finds no     *)
(* buffer, and a copy of what is sent may be lost in the air.              *)
MaySend(commands) ==
  {{}} \cup {sent \in SUBSET commands :
              \A m \in commands \ sent : <<m.from, m.to>> \in Lossy}

-------------------------------------------------------------------------------
(* nwkRouteDiscoveryRequest() when a discovery of n for dst has to start.  *)
(* An entry is made, and stays, even if its request is not sent.           *)
OwnEntry(n, dst) ==
  [src |-> n, dst |-> dst, sender |-> Broadcast, forward |-> NoLink,
   reverse |-> NoLink, timeout |-> Timeout]

(* Bug for mutation runs: the timer is not started.                        *)
StartDiscoveryUntimed(n, slots, dst, sent) ==
  /\ FindEntry(slots, n, dst) = {}
  /\ \E i \in NewEntry(slots) :
       table' = [table EXCEPT ![n] = [slots EXCEPT ![i] = OwnEntry(n, dst)]]
  /\ IF sent THEN \E heard \in MaySend(Request(n, n, dst, Best)) : net' = net \cup heard
             ELSE UNCHANGED net
  /\ UNCHANGED timer

StartDiscovery(n, slots, dst, sent) ==
  /\ FindEntry(slots, n, dst) = {}
  /\ \E i \in NewEntry(slots) :
       table' = [table EXCEPT ![n] = [slots EXCEPT ![i] = OwnEntry(n, dst)]]
  /\ timer' = timer \cup {n}
  /\ IF sent THEN \E heard \in MaySend(Request(n, n, dst, Best)) : net' = net \cup heard
             ELSE UNCHANGED net

(* A frame of n for dst finds no route (nwkRoutePrepareTx()): it waits for *)
(* the discovery that is on, or for a new one.  Without a free slot, or a  *)
(* buffer for the request, it is confirmed with NWK_NO_ROUTE_STATUS.       *)
FrameWithoutRoute(n, f, dst) ==
  /\ at = NONE
  /\ <<n, dst>> \in Demands
  /\ route[n][dst] = Unknown
  /\ waiting[n][f] = NONE
  /\ \/ /\ FindEntry(table[n], n, dst) # {}
        /\ waiting' = [waiting EXCEPT ![n][f] = dst]
        /\ UNCHANGED <<table, timer, net>>
     \/ /\ StartDiscovery(n, table[n], dst, TRUE)
        /\ waiting' = [waiting EXCEPT ![n][f] = dst]
     \/ /\ StartDiscovery(n, table[n], dst, FALSE)
        /\ UNCHANGED waiting
  /\ UNCHANGED <<at, route, forgot>>

-------------------------------------------------------------------------------
(* nwkRouteDiscoveryRequestReceived() *)
Answers(n, dst) == n \in Members[dst]

PathQuality(m) ==
  UpdateLq(IF m.id = "request" THEN m.lq ELSE m.reverse, Quality[<<m.from, m.to>>])

(* A request is worth an entry when it comes by a better path than before. *)
Better(e, m) == PathQuality(m) > e.forward

Accepts(n, m) ==
  /\ Answers(n, m.dst) \/ n \notin NonRouting
  /\ \/ \E i \in FindEntry(table[n], m.src, m.dst) : Better(table[n][i], m)
     \/ FindEntry(table[n], m.src, m.dst) = {} /\ NewEntry(table[n]) # {}

(* The entry is filled in: a new one gets its time, an old one keeps it.   *)
Heard(e, m) ==
  [src |-> m.src, dst |-> m.dst, sender |-> m.from, forward |-> PathQuality(m),
   reverse |-> IF Matches(e, m.src, m.dst) THEN e.reverse ELSE NoLink,
   timeout |-> IF Matches(e, m.src, m.dst) THEN e.timeout ELSE Timeout]

EnterRequest(n, m) ==
  LET found == FindEntry(table[n], m.src, m.dst)
  IN  /\ \E i \in IF found # {} THEN found ELSE NewEntry(table[n]) :
           table' = [table EXCEPT ![n][i] = Heard(@, m)]
      /\ timer' = IF found # {} THEN timer ELSE timer \cup {n}

RequestIgnored(n, m) ==
  /\ m.id = "request" /\ ~Accepts(n, m)
  /\ net' = net \ {m}
  /\ UNCHANGED <<table, timer, route>>

RequestAnswered(n, m) ==
  /\ m.id = "request" /\ Accepts(n, m) /\ Answers(n, m.dst)
  /\ EnterRequest(n, m)
  /\ route' = UpdateEntry(route, n, m.src, m.from)
  /\ \E sent \in MaySend(Reply(n, m.from, m.src, m.dst, PathQuality(m), Best)) :
       net' = (net \ {m}) \cup sent

RequestPassedOn(n, m) ==
  /\ m.id = "request" /\ Accepts(n, m) /\ ~Answers(n, m.dst)
  /\ EnterRequest(n, m)
  /\ \E sent \in MaySend(Request(n, m.src, m.dst, PathQuality(m))) :
       net' = (net \ {m}) \cup sent
  /\ UNCHANGED route

-------------------------------------------------------------------------------
(* Bug for mutation runs: every reply counts.                              *)
ImprovesAlways(n, m) == FindEntry(table[n], m.src, m.dst)

(* nwkRouteDiscoveryReplyReceived(): only the reply of a better path than  *)
(* the last one counts.                                                    *)
Improves(n, m) ==
  {i \in FindEntry(table[n], m.src, m.dst) : m.forward > table[n][i].reverse}

ReplyIgnored(n, m) ==
  /\ m.id = "reply" /\ Improves(n, m) = {}
  /\ net' = net \ {m}
  /\ UNCHANGED <<table, timer, route>>

ReplyArrived(n, m) ==
  /\ m.id = "reply" /\ m.src = n
  /\ \E i \in Improves(n, m) :
       table' = [table EXCEPT ![n][i].reverse = m.forward]
  /\ route' = UpdateEntry(route, n, m.dst, m.from)
  /\ net' = net \ {m}
  /\ UNCHANGED timer

ReplyPassedOn(n, m) ==
  /\ m.id = "reply" /\ m.src # n
  /\ \E i \in Improves(n, m) :
       LET e == table[n][i]
       IN  /\ table' = [table EXCEPT ![n][i].reverse = m.forward]
           /\ route' = UpdateEntry(UpdateEntry(route, n, m.dst, m.from), n, m.src, e.sender)
           /\ \E sent \in MaySend(Reply(n, e.sender, m.src, m.dst, m.forward,
                                        PathQuality(m))) :
                net' = (net \ {m}) \cup sent
  /\ UNCHANGED timer

Receive(m) ==
  /\ at = NONE
  /\ \/ RequestIgnored(m.to, m)
     \/ RequestAnswered(m.to, m)
     \/ RequestPassedOn(m.to, m)
     \/ ReplyIgnored(m.to, m)
     \/ ReplyArrived(m.to, m)
     \/ ReplyPassedOn(m.to, m)
  /\ UNCHANGED <<at, waiting, forgot>>

-------------------------------------------------------------------------------
(* nwkRouteDiscoveryTimerHandler(), slot by slot, while the other nodes,   *)
(* which neither see nor change what it works on, stand still.  The        *)
(* assumption on time: the commands of a discovery are gone before the     *)
(* first of its entries dies; to keep the model small the ticks before     *)
(* that wait for them, too.                                                *)
Settled(n) ==
  \A i \in Slots, m \in net :
    Live(table[n][i]) => m.src # table[n][i].src \/ m.dst # table[n][i].dst

TimerFires(n) ==
  /\ n \in timer /\ at = NONE
  /\ Settled(n)
  /\ timer' = timer \ {n}
  /\ at' = <<n, 1>>
  /\ UNCHANGED <<table, route, waiting, net, forgot>>

NextSlot(n, i) == at' = IF i = NSlots THEN NONE ELSE <<n, i + 1>>

(* The local variable restart is the timer itself: nothing looks at it     *)
(* before the handler starts it in the end.                                *)
SlotLives(n, i, e) ==
  /\ e.timeout > 1
  /\ table' = [table EXCEPT ![n][i].timeout = @ - 1]
  /\ timer' = timer \cup {n}
  /\ UNCHANGED <<waiting, net>>

(* (Nothing reads what a dead entry of another node's discovery holds.)    *)
SlotOfOthers(n, i, e) ==
  /\ e.timeout <= 1 /\ e.src # n
  /\ table' = [table EXCEPT ![n][i] = Unused]
  /\ UNCHANGED <<timer, waiting, net>>

(* nwkRouteDiscoveryDone() for an own slot, in use until now or not: with  *)
(* a reply the waiting frames are sent, without one they are confirmed     *)
(* with NWK_NO_ROUTE_STATUS.                                               *)
WaitingFor(n, dst) == {f \in Frames : waiting[n][f] = dst}

(* Bug for mutation runs: without a reply the frames are forgotten.        *)
DoneWhenReplied(n, i, e) ==
  /\ e.timeout <= 1 /\ e.src = n
  /\ e.reverse = NoLink \/ route[n][e.dst] # Unknown \/ WaitingFor(n, e.dst) = {}
  /\ table' = [table EXCEPT ![n][i].timeout = 0]
  /\ waiting' = [waiting EXCEPT ![n] =
       [f \in Frames |-> IF f \in WaitingFor(n, e.dst) /\ e.reverse # NoLink
                         THEN NONE ELSE waiting[n][f]]]
  /\ UNCHANGED <<timer, net>>

Done(n, i, e) ==
  /\ e.timeout <= 1 /\ e.src = n
  /\ e.reverse = NoLink \/ route[n][e.dst] # Unknown \/ WaitingFor(n, e.dst) = {}
  /\ table' = [table EXCEPT ![n][i].timeout = 0]
  /\ waiting' = [waiting EXCEPT ![n] =
       [f \in Frames |-> IF f \in WaitingFor(n, e.dst) THEN NONE ELSE waiting[n][f]]]
  /\ UNCHANGED <<timer, net>>

(* The route has been lost again: nwkTxFrame() asks for it once more.      *)
DoneAgain(n, i, e) ==
  /\ e.timeout <= 1 /\ e.src = n
  /\ e.reverse # NoLink /\ route[n][e.dst] = Unknown
  /\ LET ended == [table[n] EXCEPT ![i].timeout = 0]
     IN  \/ /\ WaitingFor(n, e.dst) # {} /\ FindEntry(ended, n, e.dst) # {}
            /\ table' = [table EXCEPT ![n] = ended]
            /\ UNCHANGED <<timer, waiting, net>>
         \/ /\ WaitingFor(n, e.dst) # {}
            /\ StartDiscovery(n, ended, e.dst, TRUE)
            /\ UNCHANGED waiting
         \/ \E f \in WaitingFor(n, e.dst) :
              /\ StartDiscovery(n, ended, e.dst, FALSE)
              /\ waiting' = [waiting EXCEPT ![n][f] = NONE]

LookAtSlot(n, i) ==
  /\ at = <<n, i>>
  /\ LET e == table[n][i]
     IN  SlotLives(n, i, e) \/ SlotOfOthers(n, i, e) \/ Done(n, i, e) \/ DoneAgain(n, i, e)
  /\ NextSlot(n, i)
  /\ UNCHANGED <<route, forgot>>

(* A route is lost to failures, a route error or another destination.      *)
Forget(n, dst) ==
  /\ at = NONE
  /\ route[n][dst] # Unknown
  /\ <<n, dst>> \in MayForget \ forgot
  /\ route' = [route EXCEPT ![n][dst] = Unknown]
  /\ forgot' = forgot \cup {<<n, dst>>}
  /\ UNCHANGED <<table, timer, at, waiting, net>>

Next ==
  \/ \E n \in Nodes, f \in Frames, dst \in Targets : FrameWithoutRoute(n, f, dst)
  \/ \E m \in net : Receive(m)
  \/ \E n \in Nodes : TimerFires(n)
  \/ \E n \in Nodes, i \in Slots : LookAtSlot(n, i)
  \/ \E n \in Nodes, dst \in Targets : Forget(n, dst)

(* What is not lost arrives; timers fire and their handlers end.           *)
Fairness ==
  /\ WF_vars(\E m \in net : Receive(m))
  /\ \A n \in Nodes : WF_vars(TimerFires(n))
  /\ WF_vars(\E n \in Nodes, i \in Slots : LookAtSlot(n, i))

Spec == Init /\ [][Next]_vars /\ Fairness

-------------------------------------------------------------------------------
TypeOK ==
  /\ table \in [Nodes -> [Slots -> Entry]]
  /\ timer \subseteq Nodes
  /\ at \in {NONE} \cup (Nodes \X Slots)
  /\ route \in [Nodes -> [Targets -> Nodes \cup {Unknown}]]
  /\ waiting \in [Nodes -> [Frames -> Targets \cup {NONE}]]
  /\ net \subseteq Command
  /\ forgot \subseteq MayForget

(* A frame that waits for a route waits for a discovery that is on, and    *)
(* the timer that will end it is running or its handler has yet to come to *)
(* it: whatever entries are reused, however often a discovery starts anew  *)
(* from within the handler, and although the handler also looks at slots   *)
(* that are no longer in use.                                              *)
WaitersHaveDiscovery ==
  \A n \in Nodes, f \in Frames :
    waiting[n][f] # NONE =>
      \E i \in FindEntry(table[n], n, waiting[n][f]) :
        n \in timer \/ \E k \in 1..i : at = <<n, k>>

(* Following the next hops to a target that one node looks for ends at one *)
(* that answers for it, or where a route has been lost: replies of better  *)
(* and worse paths, late, lost and out of order, never close a loop and    *)
(* never leave a hole, not even when a discovery is repeated while some    *)
(* nodes still remember the last one.                                      *)
Sought ==
  {dst \in Targets : /\ \E d \in Demands : \A c \in Demands : c[2] = dst <=> c = d
                     /\ \A d \in Demands : d[1] # dst}

Ends(n, dst) == Answers(n, dst) \/ route[n][dst] = Unknown

Walk(n, dst) ==
  LET walk[i \in 0..Cardinality(Nodes)] ==
        IF i = 0 THEN n
        ELSE IF Ends(walk[i - 1], dst) THEN walk[i - 1] ELSE route[walk[i - 1]][dst]
  IN  walk

PathEnd(n, dst) == Walk(n, dst)[Cardinality(Nodes)]

RoutesLead ==
  \A n \in Nodes, dst \in Sought :
    route[n][dst] # Unknown =>
      \/ Answers(PathEnd(n, dst), dst)
      \/ route[PathEnd(n, dst)][dst] = Unknown /\ <<PathEnd(n, dst), dst>> \in forgot

(* Every frame that waits for a route is sent or confirmed in the end.     *)
WaitersServed ==
  \A d \in Demands, f \in Frames : waiting[d[1]][f] = d[2] ~> waiting[d[1]][f] # d[2]
===============================================================================
