# Verification of the BitStorm wireless stack

The repository is the firmware of a small mesh of ATmega256RFR2 nodes: a
network stack in C (`src/stack/{hal,phy,sys,nwk}`) and one application that runs
as coordinator, router or end device (`src/stack/apps/BitStorm_LM`).  There are
no tests in the repository.  This directory models the stack in TLA+, checks
small instances with TLC and proves the invariants that matter most for every
instance with TLAPS.

Contents: 1 inventory, 2 plan, 3 the modules and the code, 4 the runs,
5 fairness, 6 the proofs, 7 what is only model-checked, 8 what is not modelled.

## 1. Inventory

Everything runs in one endless loop (`main.c:102-115`):

    SYS_TaskHandler   = PHY_TaskHandler          radio: one reception, or the end of a transmission
                        NWK_TaskHandler          nwkRx, nwkTx, nwkDataReq, each once
                        SYS_TimerTaskHandler     timers that expired, their handlers called
    HAL_UartTaskHandler                          received bytes to the AT parser
    APP_TaskHandler                              the application's state machine

Interrupts (radio, timer, UART) only leave flags, counts and bytes for the loop.
So the hard part of the network layer is not preemption.  It is that every
handler takes each object only one state further per pass, that one pool, one
radio, one timer and one list are shared by everything in flight, and that
pointers and flags written in one handler are trusted in another many passes
later.

| Component | State | Operations | Talks to | What is hard |
|---|---|---|---|---|
| Frame pool and lock (`nwkFrame.c`, `nwk.c`) | `nwkFrameFrames[]`, `nwkIb.lock` | alloc, free, next, command init; `NWK_Busy` | everything in `nwk/` | exhaustion in the middle of an operation; the lock in step on all paths |
| Transmitter (`nwkTx.c`) | frame states DELAY...CONFIRM, `nwkTxPhyActiveFrame`, two timers | frame, broadcast, acknowledgement received, task handler, two timer handlers, `PHY_DataConf` | pool, radio, timers, route table, data requests | one timer for many frames that stops itself; late acknowledgements; who owns the radio |
| Receiver (`nwkRx.c`) | frame states RECEIVED...FINISH | `PHY_DataInd`, filter, indicate, acknowledge, task handler | pool, transmitter, route table, endpoints | a second buffer is needed and may not be there |
| Duplicate rejection (`nwkRx.c:80-254`) | table of source, newest number, mask, time | reject, timer handler | receiver, timers | byte arithmetic that wraps, late and lost frames, shifts past the width of an int |
| Routing table (`nwkRoute.c`) | table of destination, next hop, score, rank, quality | learn, use, blame, remove, find, new, free, normalize | receiver, transmitter | bit fields that wrap, eviction, fixed entries |
| Data request service (`nwkDataReq.c`) | linked list, state and frame of each request | `NWK_DataReq`, send, confirm, task handler | application, transmitter, pool | stale frame pointers in the list, no buffer |
| Radio driver (`phy/atmegarfr2`) | `phyState`, receive flag; state, interrupt flags and frame buffer of the transceiver | data request, sleep, wakeup, receiver on and off, random number, task handler | transmitter, receiver | polled: a reception ends between any two steps; the driver waits without limit for a state of the transceiver |
| Alternative radio driver (`phy/atmega256rfr2`) | the same, with requests that wait for a safe moment | the same, an interrupt | the same | not in the makefiles; the interrupt and the forced change of state |
| Software timers (`sysTimer.c`, `halTimer.c`) | list of differences, tick byte | start, stop, task handler | everything | handlers change the list while it is walked |
| Route discovery (`nwkRouteDiscovery.c`) | table of pending discoveries, timer, frames that wait for a route | request, reply, timer handler, done | transmitter, route table, other nodes | replies that are late, lost and out of order; a handler that starts discoveries from its own loop; not built by BitStorm |
| Frame security (`nwkSecurity.c`), groups (`nwkGroup.c`) | frame states; group table | encrypt, decrypt; add, remove | transmitter, receiver | not built by BitStorm |
| Router application (`Router.c`) | slots of proximity records, send state, flags | UART packet, send, timer, aging | data requests, timers, UART | a timer that fires between two steps of a send |
| Node configuration (`main.c`, `eeprom.c`) | `AppConfig` in memory and in EEPROM, the operation of the EEPROM under way | read, write byte by byte, defaults | applications, AT commands | power that fails between two bytes; programming that outlasts the driver |
| End device application (`EndDevice.c`) | application state | send, sleep, wake | `NWK_Busy`, radio, sleep driver | sleeping only when nothing is in hand; the arithmetic of the interval |
| Coordinator (`Coordinator.c`) | none beyond the UART | data indication, checksum, COBS encoding | UART | bytes dropped when the buffer is full; zeros next to one another; frames of another size than that of a message |
| Base node helpers (`BaseNode.c`) | one request, `AckByte` | send, confirm, set up | data requests, configuration | the acknowledgement byte of an unacknowledged frame, 16-bit overflow |
| AT parser and commands (`at.c`) | command buffer and index | receive byte; commands that set the configuration | UART, applications, EEPROM | an 8-bit index compared with 256; commands that store without applying |
| UART driver (`halUart.c`) | two ring buffers | write, read, interrupts | main loop and interrupts | shared indexes |
| Sleep driver (`halSleep.c`) | compare register, flag | sleep for a time | end device | ticks of the timer against milliseconds |
| Board support | registers | | | none of its own |

What makes each of them correct, as the modules state it:

* pool and lock: the lock is the work in hand, and a buffer has one owner;
* transmitter: the radio has at most the one frame the transmitter thinks it
  has; no frame waits for a timer that does not run; a wait ends with success
  only by an acknowledgement of that number;
* receiver: every received frame gives its buffer back or becomes an outgoing
  one, whether or not there is a second buffer;
* duplicate rejection: the table is the history, within what the network may do;
* routing table: one route per destination, scores and ranks in range, evictions
  only of the least used, fixed entries stay, failing routes are forgotten;
* data requests: every request comes back once, with the truth about its frame;
* sleep: a sleeping node has nothing in hand;
* timers: a timer fires at its deadline, whatever else is started or stopped, and
  no tick is lost;
* router: its one request is never handed over twice, a tag has one record, and it
  always comes back to its report timer (it does); a record is marked as sent exactly
  when it is sent (it is not, see section 4);
* UART and parser: both buffers are queues whatever the interrupts do, reception
  never stops for good, and a line is parsed without remains of the one before;
* radio: one confirmation for every transmission and with its result, no frame indicated
  twice, altered or while a transmission is going on, and an idle driver listens;
* route discovery: a frame that waits waits for something that will end, and next hops
  lead to the destination;
* configuration: what is stored is what the node works with, and what transmit power and
  interval were set from; after a failure of the power the stored bytes are new up to one and
  old behind it;
* end device: it sleeps as long as it was told to, with nothing in hand, and comes round to
  sending for ever;
* coordinator: what it writes can be taken apart again.

`PROJECT.json` lists the hazards at their lines with the properties that would
catch them, or the reason why none does.  A hazard that is a behaviour of the code which no text
of the repository excludes has no property: naming one that leaves it out would only hide it.

## 2. Plan

Done in this order, since the network layer is the core and its parts are only
interesting together:

1. `NwkFrame`, `NwkTx`, `NwkRx`, `NwkDataReq`: one module per file, actions per
   handler case; `Nwk` composes them into the loop.
2. `NwkService`: what the data request service promises; `Nwk` implements it.
3. `NwkRoute`, `NwkDuplicates`: the two tables, by themselves.  In `NwkRx` and
   `NwkTx` their answers are open, so `Nwk` holds for any table content.
4. `NwkProofs`, `NwkRouteProofs`.
5. `Deadlines`, `SysTimer`, `TimedTablesProofs`: the list of differences against
   absolute deadlines, with `halTimer`'s count of ticks.
6. `Router`, `RouterProofs`: slots, report timer, the request in flight.
7. `ByteQueue`, `HalUart`, `AtParser`, `AtParserProofs`: ring buffers with
   interrupts between any two steps of the loop, the command buffer.

8. `NwkRouteDiscovery`, `NwkRouteDiscoveryProofs`: several nodes, commands that are lost
   and overtake each other.
9. `Transceiver`, `PhyAtmegarfr2`, `PhyAtmega256rfr2`, `PhyService`, `Phy`, `PhyProofs`:
   both radio drivers over one transceiver, against one promise.
10. `Bytes`, `Eeprom`, `CobsFrames`, `Device`, `DeviceProofs`: a node from reset to sleep
    with its configuration, commands, acknowledgement byte and failures of the power.
11. The rest of the proofs: who owns which buffer and the refinement of `NwkService`
    (`NwkProofs`), the radio drivers (`PhyProofs`), the ring buffers and the line
    (`AtParserProofs`), duplicate rejection (`TimedTablesProofs`), sleep (`DeviceProofs`).
12. The safety properties that are about recursive functions: routes that never close a loop
    (`NwkRouteDiscoveryProofs`), the list of timers as deadlines (`TimedTablesProofs`), frames
    that decode (`DeviceProofs`).

Abstract specifications: `NwkService`, `Deadlines`, `ByteQueue` and `PhyService` are stated
and implemented.

What could still be added, in this order:

* the learning of routes from data frames (`NwkRoute`) in a mesh of several nodes, where next
  hops that point in circles are only broken by failures and route errors;
* `RoutesLead` for several sources of the same destination, where it is not expected to hold.

## 3. The modules and the code

`NwkFrame` (`nwkFrame.c`, `nwkFrame.h`).  `frame` is the array of buffers: state,
the header fields that some handler reads, status, timeout, and the confirm
callback.  `nwkFrameAlloc(g)` says that `g` is what the function returns: the first
free buffer.  A freed buffer is reset to `FreeFrame`; the code clears it on the next
allocation, and nothing reads it between.  `lock` is `nwkIb.lock`.

`NwkTx` (`nwkTx.c`).  One action per case of `nwkTxTaskHandler()`
(`TxDelay` ... `TxConfirmFree`), the two timer handlers, and `PHY_DataConf` with the
radio driver's state change.  `nwkTxFrame` is the function of that name with
`nwkRoutePrepareTx`; the route table's answer (`hop`) and the random delay
(`jitter`) are parameters that the actions choose.  Time is counted in ticks of the
two interval timers: `AckTicks` is `NWK_ACK_WAIT_TIME /
NWK_TX_ACK_WAIT_TIMER_INTERVAL + 1`, `JitterMax` the jitter mask plus one.

`NwkRx` (`nwkRx.c`, `nwkRoute.c:299-340`).  `RxReceived`/`RxReceivedPassOn` are
`nwkRxHandleReceivedFrame()` without and with a broadcast copy, `RxIndicate`/
`RxIndicateAck` are `nwkRxHandleIndication()` without and with `nwkRxSendAck()`, and
`RxRoute`/`RxRouteUnknown`/`RxRouteError` are `nwkRouteFrame()` when the next hop is
known, when it is not and there is no second buffer, and when there is one.
`Waiter(w, h)` is the search in `nwkTxAckReceived()`.

`NwkDataReq` (`nwkDataReq.c`).  `queue` is the linked list, head first, `req` the
service fields of each request.  The application may hand over only a request that
is its own (`IDLE`).  `Returned` keeps the pointer to the frame, because the code
does: that is the stale pointer `ConfirmFindsOwner` is about.

`Nwk` composes these into the loop.  `phase` and `cursor` are the program counter: a
pass visits PHY, RX, TX, REQ, TIMER, APP, and within RX and TX the walk over the
frames (`nwkFrameNext()`) is by ascending index, so that a buffer taken behind the
cursor waits for the next pass and one taken before it does not.  The radio, the
timers and the application are nondeterministic: a reception, the end of a
transmission and the expiry of a running timer may happen in their phase or not.
Indications and confirmations call the application, which in BitStorm sends
nothing from there, so the callbacks have no action of their own.

`NwkService` is the abstract data request service: `stage`, `asked` and `result` of
each request.  `Nwk!Service` maps the stage to that of the request's frame.

`NwkRoute` (`nwkRoute.c`).  `table` with one action per outcome: `LearnKnown`,
`LearnNew` (`nwkRouteFrameReceived`), `FrameSentOK`, `FrameSentFailed`
(`nwkRouteFrameSent`), `Remove` (`nwkRouteRemove`).  Entries keep their old fields when
freed, as in the code, since `NWK_RouteNewEntry()` reads the rank of free ones.  Fixed
entries are a constant, `Pinned`: only an application could set the bit, and
BitStorm does not.

`NwkDuplicates` (`nwkRx.c:181-254`).  `slot` and `running` are the table and its timer.
`newest` and `accepted` are history variables that no guard of an accepting or rejecting
action reads; only `Deliverable`, which describes the network, does.  The mask is
the set of distances whose bit is set.

`SysTimer` (`sysTimer.c`, `halTimer.c`).  The linked list is the sequence `timers`,
`timeout` the fields of that name, `irqCount` the byte that the interrupt counts in.
`SYS_TimerTaskHandler()` is several actions because it calls handlers on the way:
`TakeTicks` (the count is read and cleared), `Expire` for each timer that is due,
`HandlerReturns`, `Finish`; `elapsed` is its local and `firing` the handler that is
running.  `Start` and `Stop` are possible outside of it and in handlers, not between
the steps of its own loop.  `Place` is `placeTimer()`: its `p` is the number of timers
that the loop walks past, and `Due` the sum it has subtracted by then.  `Deadlines`
is what users of the timers expect: each started timer has the time `left` to its
deadline, `lag` is time the program has not looked at yet, and a timer is called when
its time is within the lag, the earliest first.  A timer that is started while there
is lag is charged with it and may run that much too short by the clock, in the code as in
`Deadlines`.

`Router` (`Router.c`).  A pass visits `NWK` (the confirmation), `TIMER` (any of the two
timers), `UART` (at most one packet) and `APP` (one case of `APP_TaskHandler()`).
`record` is `router_id_list[]`: the tag, the age and `is_sent`; the readings are left
out, since nothing is decided by them.  A slot that dies becomes `Empty`; the code
leaves its old bytes, which are all overwritten when it is filled.  `out` is a history
variable that no guard reads: the record has been given to the network.  Packets
before `onInit()` are not modelled, since it clears the slots.

`HalUart` (`halUart.c`) and `AtParser` (`at.c`).  `UdreInterrupt` and `RxInterrupt` may
come between any two steps of the loop; what the code does with interrupts off is one
step.  A `Fifo` has the fields of `FifoBuffer_t`.  `Put` writes a burst of bytes, of
which those that do not fit are dropped, as `HAL_UartWriteByte()` does byte by byte;
the commands' answers and the applications' messages are such bursts, members of
`Messages`, whatever their text.  `unread` is the rest of the loop in
`HAL_UartBytesReceived()`, whose bound is read once.  `line` is history: the bytes since the
last end of line, only as long as they fit.  `ByteQueue` is a bounded queue of which
a suffix may be refused on writing and the first byte is taken on reading.

`NwkRouteDiscovery` (`nwkRouteDiscovery.c`).  `table` is the table of each node, `net` the
commands on their way; a command that is sent may be lost on the links of `Lossy`, or never
be sent because there is no buffer.  `FrameWithoutRoute` is `nwkRouteDiscoveryRequest()`,
`Receive` the two command handlers, `TimerFires` and `LookAtSlot` the timer handler slot by
slot (`at`), since it confirms and sends frames on the way and may start a discovery
again (`DoneAgain`).  `Forget` is what the routing table does elsewhere.  A node's routes are
its next hops; `NwkRoute` has their detail.

`Transceiver` is the hardware that both drivers share: `trx` is `TRX_STATUS`, `flags` the bits of
`IRQ_STATUS` that the drivers read, `buffer` the one frame buffer, `guarded` its dynamic
protection, `acking` a reception that is still being acknowledged.  It is modelled from what
the drivers' comments and waits rely on.  `PhyAtmegarfr2` and `PhyAtmega256rfr2` have one action
per step of `PHY_TaskHandler()` between which the hardware may move (`pc`), and one per
call of the upper layer.  A wait for a state is a guard: an endless wait is a step that is never
possible.  Settings (`PHY_SetChannel()` and its like) matter only as requests that the second
driver puts off.  `Phy` chooses the driver once (`build`) and maps either to `PhyService`: how
far a transmission is, whether the radio is awake, and the frame that is yet to be indicated.

`Eeprom` (`eeprom.c`).  A byte is a set of bits (`Bytes`), so that the three modes are
union, removal and assignment: `EEPROM_PutChar()` picks the mode by comparing the old and
the new byte, and `eecr` is the operation that goes on when it has returned.  A failure
of the power leaves the byte in the works with any value.  `Settled` is the array as it
will be.

`Device` (`main.c`, `at.c`, `BaseNode.c`, `EndDevice.c`, `Coordinator.c`, `halSleep.c`).  `pc`
is the place in a pass, `then` where `write_config()` returns to, since it is called from `main()`,
from a confirmation and from commands.  `applied` is the byte `baseNode_setAckByte()` was
last called for.  The interval is computed as in the code, with the width of `int` and
the range of `rand()`; `UNKNOWN` stands for what overflows.  `payload`, `before` and
`commanded` are history variables.  The network layer is reduced to `request` and `others`.
`CobsFrames` is the encoding of a message, byte by byte as in the code, and `Decoded` what any
receiver of such frames does.  `Width` is the width of a byte (8 in the code), from which
the longest block follows, and `MessageSize` is `sizeof(AppMessage_t)` (37): it says where the
checksum goes, whatever came, and how long `cobs_buffer` is.  `cobs_size` is a byte, so that
`appSendMessage` writes as many bytes as it can count.  What the recursive functions of these modules are for all
inputs is proved, so none of them is a `RECURSIVE` operator.

The `MC*` modules hold nothing but values for the constants.  Definitions whose
comment says "for mutation runs" are the wrong versions of a definition, one per
property; no specification uses them.

## 4. The runs

| Run | Instance | What it checks and shows |
|---|---|---|
| `nwk_paths` | 2 buffers, 1 request of every kind, 12 headers: one per path through the receiver, 2 sequence numbers, 2 ticks | `LockCounts`, `RadioOwnsOneFrame`, `TimersArmed`, `SleepsWithoutWork`: on every path, with a second buffer and without, the lock is the work in hand |
| `nwk_requests` | 2 buffers, 2 requests, acknowledged or broadcast, acknowledgements of both numbers at any time | `RequestsOwnFrames`, `ConfirmFindsOwner`, `SuccessMeansAcknowledged`, `ImplementsService`: buffers are recycled while pointers to them remain, numbers repeat, and still every request gets its own outcome |
| `nwk_live` | 2 buffers, 2 requests, a frame to route, acknowledgements | `LayerDrains`, `RequestsConfirmed`: when traffic stops both requests come back, and the lock goes to 0 and stays there |
| `routes` | 3 entries, one fixed, 4 destinations, one that does not route | `UniqueRoutes`, `ScoresAndRanks`, `EvictsOnlyWhenFull`, `FailingRouteForgotten` |
| `duplicates` | 2 entries, 2 sources, bytes of 6 values, masks of 2 bits, 8 frames per source | `MaskIsHistory`, `AcceptedOnce`, `SilentSourcesForgotten` |
| `timers` | 3 timers, one periodic, one with two intervals, a tick of 2, passes of up to 3 ticks counted in 2 bits | `ListedOnce`, `ImplementsDeadlines`, `TimersExpire`: handlers start and stop any timer in the middle of the walk, and every deadline is kept |
| `router` | 2 slots, 3 tags, ages up to 2 | `OneRequestAtATime`, `NothingLeftBehind`, `UniqueRecords`, `RouterKeepsReporting`: a report timer at any point of a send, slots that die while they are chosen |
| `router_lost` | the same | `MarkedRecordsGoOut` is violated |
| `uart` | buffers of 2 bytes, a line buffer of 2, 3 kinds of bytes, bursts of 1 and 3 | `ReceiverNeverStuck`, `LineIsWhatCame`, `FifosAreQueues`, `EveryByteMoves`: interrupts anywhere, buffers full and wrapped, lines that do not fit |
| `discovery` | 4 nodes in a ring with a chord, 1 slot, 2 ticks, losses on 3 links, 1 route that is lost once | `WaitersHaveDiscovery`, `RoutesLead`, `WaitersServed`: weak short paths are answered before good long ones, replies are lost and late, the discovery is repeated |
| `radio` | both drivers, 2 frames in the air, 2 results, 1 setting | `IdleListens`, `WaitEnds`, `ImplementsPhyService`, `TransmissionsConfirmed`: receptions and ends of transmissions between any two steps of the task handler |
| `device` | bytes of 3 bits (`Width`), a configuration of 5 bytes, 1 failure of the power, 2 commands, three acknowledgement bytes, messages of 5 bytes (`MessageSize`) with every pattern of zeros | `ConfigInForce`, `TornInOrder`, `SleepsAsSet`, `FramesDecode`, `DeviceKeepsSending`: each type of node through boots, writes, torn writes, commands, resets and sleeps |

Each property of a passing run has a wrong version of one definition in `PROJECT.json`
that violates it.  The type invariants are not among the runs' properties: each was
confirmed with TLC on the same instances and is proved (section 6).

Bounds.  Two buffers are enough for the cases that need "one more buffer" and "no
more buffer", and for a frame before and one behind the cursor; a third only adds
bystanders, which the proofs cover for any number.  Two sequence numbers make the
number repeat while an earlier frame still waits; with one, in `nwk_live`, all
acknowledgements match everything.  Two ticks distinguish the last tick from one that is
not.  Two requests give the list an order, and two requests with two buffers compete
for both.  In `routes` there are more destinations than reusable entries, the rank
limit 4 is reached in two successes, and scores of 2 distinguish the last failure.
`MaxLqi` is 0 there: link quality only decides between next hops, and the discovery
case, which does not read it, changes them as well.  In `duplicates` numbers wrap once
(8 frames, 6 values); `Leap` is the longest run of lost frames, and `IntBits` the width at
which a shift becomes undefined (`Shifted` says what the compiler's loop does then).
In `timers` intervals are and are not multiples of the tick, two deadlines may
coincide, and one interval (2) is shorter than a pass, so that a handler restarts a timer
that is due again in the same pass.  In `router` there are more tags than slots, and a
slot can die and be filled again while a send is under way.  In `uart` the longer burst
does not fit into any buffer, every index wraps, and the parser's index wraps at the
length of its buffer as 256 does in the code.

In `discovery` four nodes are what it takes for a path of three hops to be better than one
of two, so that the second request improves an entry that has been answered; with one slot
a new discovery needs the place of the last; the three links with losses are one near the
source, one near the destination and the one between the two paths.  `Settled` is assumed
of time there: when the timer of a node fires, the commands of the discoveries it remembers
are no longer on their way, as commands take milliseconds and a discovery seconds; those of
other discoveries may be.  In `radio` two frames
tell a frame from the one before it, two results tell a confirmation from another's.
In `device` the bytes have three bits: the three modes of programming differ on the same
byte, the interval of one acknowledgement byte overflows, and a message is, as in the code, shorter
than the longest block and short enough for a byte to count its frame (`MessageAssumption`).  Messages
have zeros first, last, next to one another, everywhere and nowhere, among the smallest and the
largest of the other bytes; none fills a longest block, which 37 bytes never do.  The second
command may undo the first one.

Deadlock is checked in all runs but two.  In `discovery` nothing is left to do when all
frames are served and no route is lost any more.  In `radio` the interrupt-driven driver really can stop: when a reception ends
between the test of `phyState` and `phyHandleSetRequests()` (`atmega256rfr2/src/phy.c:507`), the
forced `TRX_OFF` takes back the `PLL_ON` that the handler is to wait for, and it waits
until another frame comes, for ever if the receiver is off.  `WaitEnds` says that the
driver of the builds never waits in vain.

What the violation shows.  `onWaitSendTimer()` marks a record as sent, stores its
slot and leaves the sending to `onSend()` one pass later (`Router.c:178-190`).

In `router_lost` the report timer fires in that pass.  `onSend()` prefers the
report, and `onSendingDone()` clears `slot_to_send` (`Router.c:156`).  The
record stays marked and is never sent, in spite of "Collect the attributes. Message
will be sent next pass." (`Router.c:324`).  It is heard of again only when the slot has
died of age and the tag is stored anew.

The other thing that can happen in that pass is not stated as a property, since no text
of the repository promises otherwise: the record dies of age and another tag takes its
slot, unmarked; `onSend()` sends the new record, and the next search finds it once more.

The instances without symmetry are deliberate: buffers are ordered by index, and the
runs with liveness could not use it.

## 5. Fairness

`Nwk!Fairness` assumes

* weak fairness of the steps of the loop, since `main()` never leaves it;
* strong fairness of `RadioSent`: the transceiver ends every transmission it has
  begun, with success or not, and `PHY_TaskHandler()` finds the interrupt flag in
  some pass.  The action is only enabled in the PHY phase, hence strong;
* strong fairness of the two timers: a software timer that is running expires;
  again the action is enabled in one phase of each pass only.

The premise `TrafficStops` is part of the properties: from some time on neither the
radio nor the application brings anything new.  It is needed.  Frames in low
buffers get the radio first, and the list of requests is newest first, so an endless
stream can hold back an old frame or request for ever; no text of the repository
promises otherwise.  Reception and the application are under no fairness at all.

`FailingRouteForgotten` carries its own premise: no success and no news of the
destination any more, and frames to it go on failing while there is a route.
`SilentSourcesForgotten` assumes weak fairness of the timer, and that receptions stop.

`RequestsConfirmed` and `LayerDrains` are about the layer alone; `Router` uses the
first as an assumption: `SF_vars(Confirm)`, strong because a confirmation is possible in
the `NWK` phase only, and the router's own request is the one piece of traffic it then
waits for.  `SF_vars(ReportTimer)` is `TimersExpire` seen from the router.
`NoConfirm`, `TimersDone`, `NothingStored` and `App` are the loop.

`SysTimer!FairSpec`: the hardware timer goes on counting, the loop returns to the task
handler, and handlers return.  Starting and stopping is under no fairness.  That a
handler may start timers for ever inside one call of the task handler does no harm,
since each such timer uses up some of the time that call has taken.  The assumption
`PassAssumption` is part of the model: a pass of the loop takes fewer than 256 ticks,
since `halTimerIrqCount` is a byte and has no answer to an overflow.

`AtParser!FairSpec`: the loop goes on, and an enabled "register empty" interrupt
comes.  Nothing need ever be received, nor written.

`NwkRouteDiscovery!Fairness`: what is not lost arrives, timers fire, and a handler that
has begun comes to its end.  Frames need not come and routes need not be lost.

`Phy!Fairness`: the loop goes on, what the transceiver has begun ends, an interrupt that
is up is served.  Nothing is assumed of frames from others: `TransmissionsConfirmed` holds
with none, although the second driver may wait for `PLL_ON`, because it does so only when
no transmission has been asked for.

`Device!Fairness`: the processor goes on, the EEPROM and the sleep timer finish, the
watchdog ends a loop.  `SF_vars(Confirm)` is `RequestsConfirmed` and `SF_vars(ReportTimer)`
`TimersExpire`, both seen from the application and possible in one place of a pass
only.  The premise of `DeviceKeepsSending` is that traffic of other nodes pauses when the
application looks: a device that hears traffic without end does not sleep.

## 6. The proofs

`NwkProofs` proves for every number of buffers, requests, peers, sequence numbers and
ticks and for every set of headers received, `Spec => []P` for

    TypeOK, LockCounts, RadioOwnsOneFrame, TimersArmed, QueueHoldsRequests, SleepsWithoutWork

from the assumptions on the constants (`NBufAssumption`, `SeqCountAssumption`,
`AddrAssumption`, `NeighboursAssumption`, `TicksAssumption`, `IncomingAssumption`,
`ReqsAssumption`, `ReqParamsAssumption`).  None of these invariants except the type is
inductive by itself.  `RadioOwnsOneFrame` survives the node's sleep only because a
sleeping node has no active frame (`SleepsWithoutWork`); that holds when the node falls
asleep because the lock is 0 only if nothing is in hand (`LockCounts`) and the list
holds exactly the requests in service (`QueueHoldsRequests`); the lock is counted down
rightly at the end of a transmission because the radio owns a frame then
(`RadioOwnsOneFrame`); and counters never go below zero because a waiting frame has
ticks left (`TimersArmed`).  So their conjunction `CoreInv` is the invariant.

The argument is made once for most steps.  A step is `Quiet` when whatever frame
it changes was not with the radio and waits for nothing afterwards, and a `FrameStep`
when it is quiet, keeps the types, leaves the transmitter's variables alone and moves
the lock with the number of busy buffers.  `FrameStepInv` shows that a `FrameStep`
that does not change the set of requests in service keeps `CoreInv`; the lemmas
`MoveStep`, `TakeStep`, `FreeStep` and `QuietTake` show that moving a frame, taking
a buffer and giving one back are such steps, and one lemma per handler case reduces
it to them.  The steps that are not quiet (`TxDelay`, `TxSend`, `TxSent`, the end of a
transmission, the two timers, the application) have a lemma of their own.

Its second part is about whose a buffer is.  The invariant is `CoreInv` with `OwnInv`:

* `FrameKinds`: a buffer in use is `Plain` (it confirms no request, does not wait for an
  acknowledgement, and does not leave this node asking for one) or `ForRequest` (it will
  confirm one, is in the transmitter's hands, and waits for an acknowledgement only if its
  request asked for it);
* `WaitersHaveFrames`: a request that waits for the transmitter has a buffer of the second
  kind, with its own `ackRequest`;
* `FramesHaveOwners`: such a buffer has exactly one request;
* `LaterStandsBefore`: a confirmed request keeps its pointer to a buffer that may be reused;
  of two requests in the list with the same pointer the one behind is not waiting, since new
  requests are put in front.

`RequestsOwnFrames` and `ConfirmFindsOwner` follow at once, the second from the last part
alone.  Every step is classified once, by `NextEffect`: it does nothing that can be seen of
the buffers that stand for requests (silent), moves one of them, ends the waiting of one
by its acknowledgement, lets the waiting time of some go by, or it is a step of the data
request service.  `OwnStep` (the invariant), `SuccessStep` (`SuccessMeansAcknowledged`)
and `RefinementStep` (`ImplementsService`: each step is one of `NwkService` or a stutter under
the stage of a request) are all read off from this classification.

`NwkRouteProofs` proves for every table size, set of peers, score and rank limit, and set
of fixed entries that is not the whole table: `TypeOK`, `UniqueRoutes`,
`ScoresAndRanks`, `NoRouteThroughNonRouting` (a route to or through a node that does not route
is to that node itself), and the action properties
`EvictsOnlyWhenFull` and `PinnedStay`.  The invariant is the conjunction of the
first four; its core is `ScoresAndRanks`, that every live route ranks above every
free entry although normalizing raises the rank of free ones to 1: that is why the
choice by rank never throws out a live route while there is room.

`TimedTablesProofs` holds the proofs of the two small tables that lose time tick by tick.

* Of `NwkDuplicates`: `MaskIsHistory` and `AcceptedOnce` for every width of the sequence
  number and of the mask, size of the table, lifetime and number of frames (`MaxNumber` is a
  bound for TLC only), and the types of the table (`TableTypes`).  The invariant adds that no two live entries have the same source
  (`OneEntryEach`) and that the history of a source is its newest frame and those within the mask
  (`History`).  Of the unsigned arithmetic it needs two lemmas: a frame that is late by
  less than `Reach` is exactly so far behind (`BehindWhenLate`), and one that is newer by at most
  `Leap` seems at least `Window` behind and so is not taken for late (`BehindWhenNewer`).  Both
  rest on `RemainderIsUnique`.  The second is where `Leap <= SeqCount - Window` is used, and
  the shift of the mask where `Leap < IntBits` is; neither can be given up.
* Of `SysTimer`: `ListedOnce` for any number of timers, intervals and any length of a pass:
  inserting a timer that is not in the list, removing one and moving the first one keep the
  list free of repetitions (`InsertOnce`, `RemoveOnce`, `TailOnce`).
* Of `SysTimer` also `ImplementsDeadlines`: every step of the list is a step of the absolute
  deadlines or leaves them.  The time left of a timer is the sum of the timeouts up to its own
  (`LeftOf`); the time that has passed and has not been taken off the list yet is `Lag`.
  Each way in which the code changes the list has one lemma that says what becomes of these
  sums: a timer that is placed gets its interval and no other notices (`PlaceLeft`: the
  timer behind it is reduced by what it is put in front of), one that is stopped gives its
  timeout to the one behind (`StopLeft`), when the first one leaves, the others have its timeout
  less to go (`TailLeft`), and taking time off the first takes it off all (`FinishLeft`).  That
  no handler is called before that of a timer with less time left comes from these sums growing along
  the list.  Its `TypeOK` (`TimeoutsInRange`), that no timeout is negative or longer than an
  interval, comes from the same sums: a timeout is a share of the time its timer has left
  (`ShareOfLeft`), and no step of the deadlines makes that longer than an interval
  (`LeftsWithinTimes`).

`RouterProofs` proves `TypeOK`, `OneRequestAtATime`, `NothingLeftBehind` and
`UniqueRecords` for any number of slots, tags and ages.  The invariant adds `NotYet`:
before `onInit()` the report timer does not run.
`NothingLeftBehind` is inductive only together with `OneRequestAtATime`, because a
confirmation moves the state machine.

`AtParserProofs` proves `TypeOK`, `ReceiverNeverStuck`, `LineIsWhatCame` and the refinement
`FifosAreQueues` for buffers and bursts of any length.  The invariant of the first two adds
`ReadsInLoop`: bytes are left to read in the `READ` phase only, hence `RxTask` overwrites no
count that is still needed.  `LineInv` adds to `LineIsWhatCame` where the index
stands: behind the line, and at 0 again when the line has filled the buffer.  Both rest on
`IndexAssumption`: `at_index` is a byte and `AT_BUFFER_MAX` is 256 (`config.h:77`), so the
test `at_index < AT_BUFFER_MAX` never fails and the loop is never left with bytes unread.
With a shorter buffer reception would stop for good once a line is too long: the mutation of
`NextIndex` in `PROJECT.json` shows that.  `FifosAreQueues` needs `Rings`, that tail, head
and count of both buffers agree; `PutContent` and `GetContent` then say that writing
appends to the content of a buffer, as far as there is room, and that reading takes its first byte.

`NwkRouteDiscoveryProofs` proves `TypeOK` and `WaitersHaveDiscovery` for every network,
number of slots and buffers, timeout, and set of demands.  `TypeOK` needs that commands travel
over links only and that an entry for another node's discovery names a neighbour
(`OnLinks`, `SendersAreNeighbours`): otherwise a reply would be sent to the broadcast address
that an own entry has in that place.  `WaitersHaveDiscovery` follows from three facts, of
which none holds without the others: an entry with time left is pending, that is the timer of
its node runs or its handler has yet to come to it (`LiveArePending`); a frame that waits
has such an entry (`WaitersMatch`); and no two entries with time left are for the same discovery
(`OneEntryEach`), so that the search for the first one finds it.

`RoutesLead` is proved for every finite network, by a third invariant (`RouteInv`).  Its
core is `NoLoops`: for each target that one node looks for there are a rank of the nodes by
which every next hop goes down, and a set of nodes, those that have accepted a reply since an entry
of the discovery died last, in which a node's next hop answers for the target or has itself
accepted a reply no worse (`Learnt`).  Neither is computed from the state: a better reply may have
come over a longer path, and in a later round an old route may be replaced by one of any quality,
so no distance that a node keeps goes down along the routes.  When a node accepts a reply, those
that have seen one as good lead only to one another and stay where they are, and the
node moves above its sender together with all the others (`OrderLearns`).  When an entry
dies the set starts empty; this is sound because no reply to that discovery is on its way
then (`Quiet`, which is where the assumption `Settled` on time is used).  `NoHoles` says that
what a next hop leads to answers, has a route or has lost it, `OnDemand` that tables and
commands belong to demands, `AwayFromAnswers` and `AnswerersNeedNoRoute` that nodes that
answer neither receive replies nor keep a route.  From `NoLoops` and `NoHoles` follows
`RoutesLead`: along a walk (`Walk`) the rank goes down, so no node comes twice, and a walk of as
many steps as there are nodes has reached its end.  That needs `Nodes` to be finite
(`NodesAssumption`).

`PhyProofs` proves `TypeOK`, `IdleListens`, `WaitEnds` and the refinement `ImplementsPhyService` for
both drivers and whatever frames, results and settings there are.  The invariant says of each
driver what `phyState` and the place in its code tell of the transceiver's state, its
flags and its buffer (`PolledInv`, `DrivenInv`); it is checked against every step of the
transceiver, which may come between any two of the driver.  The refinement has one step per
handler, interrupt and event of the transceiver (`PolledServes`, `DrivenServes`): it names
the one step of `PhyService` that it is, or says that `Progress` and `Pending` stay.

`DeviceProofs` proves `ConfigInForce`, `TornInOrder` and `SleepsAsSet` for every width of a byte, size
of the configuration and set of commands, and for any number of failures of the power.  What is
inductive is about `Settled`, the array as it will be when the operation under way is
over: it is the configuration outside of `write_config()` (`StoredIsConfig`), and inside it the new
bytes up to `index` and the old ones behind (`WrittenSoFar`).  The step of one byte
rests on `PutCharProgramsByte`: whichever mode the driver picks turns the old byte into the
new one.  `SleepsAsSet` follows from `SInv`: a node that is asleep with its radio (`SLEEP`) has
nothing of others in hand; it gets there through a confirmation only, which leaves the
control byte 0 as acknowledgement byte, so that a longer interval is one a command has
set since.  The length of the sleep is arithmetic by constants, as an interval
that fits 16 bits is one of three (`ShortIntervals`); `RandsAssumption` is what `rand()` returns.

`FramesDecode` is proved for bytes of any width above 1 and for every size of `AppMessage_t`
whose frame a byte can count, 253 bytes at most in the code (`MessageAssumption`; messages of
254 bytes could take 256).  It is about messages of that size and no others
(`PayloadsAssumption`).  Bytes and the numbers they hold correspond
(`StoredNumbers`), so the code of a block is one more than its length.  Between two turns of the
loop of `cobsEncode()` (`Stage`) the input so far is some data, to which the
blocks that are complete lead whatever comes behind them (`Leads`), and the block at hand, which
is shorter than the longest; no byte written is zero.  `StageSteps` has one case for each way through
the body: a zero ends the block and stands for itself, a byte that makes the block the longest ends
it and stands for no zero, any other byte is added.  At the end of the input the last
block ends the frame (`LeadsToEnd`), and `EncodingDecodes` follows, for any input; a byte that makes the
block the longest is part of the loop and of its proof, although no message that is
sent reaches it.  `EncodedLength` says that a message grows by one byte, so that its
frame fits `cobs_buffer` and `cobs_size`.  `ChecksumComesLast` puts the fixed place of the checksum
at the end of a message, and `ChecksumAppend` makes the checksum over all bytes zero.

Its `TypeOK` takes two facts from these proofs: what is written to the UART is made of bytes
because no block is longer than the longest one, and a sleep whose interval fits 16 bits has a
number of ticks because of `ShortIntervals`.

What `RoutesLead`, `ImplementsDeadlines` and `FramesDecode` say of walks, sums and loops holds for
networks and lists of any size and for every `MessageSize`.  An induction is put as a proof by
contradiction from the least number at which the claim fails (`LeastNumber`, from the
well-foundedness of the numbers), and a recursive function is first shown to exist
(`ChecksumExists`, `EncodedExists`, `DecodedExists`) in the same way.

## 7. What is only model-checked

Liveness (`LayerDrains`, `RequestsConfirmed`, `FailingRouteForgotten`,
`SilentSourcesForgotten`, `TimersExpire`, `RouterKeepsReporting`, `EveryByteMoves`,
`WaitersServed`, `TransmissionsConfirmed`, `DeviceKeepsSending`) is
out of the prover's reach.  Every safety property, action property and refinement of
the passing runs is stated by a theorem.

## 8. What is not modelled, and why

* Not built: security is compiled out (`config.h`), and the states it adds to a frame only
  pass it on in order; the cipher is arithmetic on blocks.  Of the groups, membership is a
  constant of `NwkRouteDiscovery`, the table is a set with insertion and removal, and
  forwarding of multicast frames is compiled out.  `nwkRx.c` and `nwkTx.c` are
  modelled without these branches, and without those of route discovery.
* Of the radio drivers: energy detection and AES (options no build has), random
  numbers of the alternative driver, registers that only hold settings.
* Left out of frames: payload bytes, endpoints (an endpoint accepts or does not),
  MAC sequence numbers, signal strength of a reception; link quality only where routes
  are chosen by it.
* Frames the coordinator gets that are not as long as an `AppMessage_t`: `appDataInd()` checks no
  size, `appSendMessage()` puts the checksum at the place it has in an `AppMessage_t`, and
  `cobs_buffer` is 8 bytes longer than one (`Coordinator.c:25`, 71, 100), so that such a frame gets
  no valid checksum and a long one is written past the buffer.  No node of this program sends
  one (`BaseNode.c:65` and 92), which `PayloadsAssumption` states.
* Of the router's packets: readings and checksum.  Of the parser: the text of its answers
  and `ATR`, which only prints.
* `HAL_TimerDelay()`, the registers of the sleep timer, LEDs, pins and the converter: I/O
  without a state that another part depends on.

Known to be possible in the code and not stated as a property, for want of a text that
promises otherwise:

* a late frame is marked in the duplicate table without renewing its time, so that its
  own duplicate may be accepted once the entry is gone (`nwkRx.c:224`); timers stand still
  in `HAL_Sleep()`, so that entries of a device that sleeps live longer than they should;
* `NWK_RouteNewEntry()` dereferences a null pointer if every entry is fixed
  (`nwkRoute.c:125`); `PinnedAssumption` excludes it, and BitStorm fixes none;
* `EEPROM_PutChar()` masks interrupts while it waits, some milliseconds in which the UART
  receives more bytes than its register holds (`eeprom.c:49`);
* a power failure in the very first `write_config()` may leave a PAN identifier without
  the bytes behind it, which counts as a configuration at the next start (`main.c:69`);
* the radio driver clears one flag by reading and writing all of them, so that a reception that
  ends meanwhile is lost and its frame keeps the buffer protected, and the node deaf, until it
  sends or is set anew (`phy/atmegarfr2/src/phy.c:347`);
* a late acknowledgement is taken for that of another frame when the sequence number has come
  round (`nwkTx.c:192`), the oldest request starves under an endless stream of new ones
  (`nwkDataReq.c:209`), and messages run into each other when the transmit buffer of the UART
  is full (`halUart.c:142`);
* `ATA` stores an acknowledgement byte that takes effect with the next confirmation
  only (`at.c:205`): `ConfigInForce` excepts nodes that got one since they started.
