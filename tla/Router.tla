--------------------------------- MODULE Router ---------------------------------
(***************************************************************************)
(* The router application (Router.c) in the main loop.  It collects        *)
(* proximity records that arrive over the UART, one slot per tag, sends    *)
(* each of them once, and sends a report of its own whenever its report    *)
(* timer has fired.  There is one request for both, handed to the network  *)
(* layer and confirmed some passes later.  Records die of age, which an    *)
(* aging timer counts, so that a tag that is still heard is recorded anew. *)
(*                                                                         *)
(* A pass of the loop visits the network layer (a confirmation), the       *)
(* timers, the UART (at most one packet: its receive buffer is one byte    *)
(* long) and the application's state machine.                              *)
(***************************************************************************)
EXTENDS Integers

CONSTANTS
  NSlots,   \* ROUTER_ID_LIST_MAX
  Ids,      \* the tags in range
  AgeMax,   \* ROUTER_ID_AGE_MAX
  NULL      \* ROUTER_ID_INVALID, and no tag

Slots == 1..NSlots

ASSUME SlotsAssumption == NSlots \in Nat
ASSUME AgeAssumption == AgeMax \in Nat
ASSUME NullAssumption == NULL \notin Ids /\ NULL \notin Slots

VARIABLES
  appState,      \* the application's state
  record,        \* router_id_list[]
  slotToSend,    \* slot_to_send
  report,        \* send_router_report
  timerStarted,  \* appDataSendingTimer is running
  request,       \* what the request in the network layer's hands carries
  phase          \* where the pass is

appVars == <<appState, record, slotToSend, report, timerStarted, request>>
vars == <<appVars, phase>>

AppStates == {"INITIAL", "SEND", "WAIT_CONF", "SENDING_DONE", "WAIT_SEND_TIMER"}

(* The readings of a record are left out: nothing is decided by them.      *)
(* "out" is a history variable: the record has been given to the network   *)
(* since the slot was filled.                                              *)
Record == [id : Ids \cup {NULL}, age : 0..AgeMax, isSent : BOOLEAN, out : BOOLEAN]

(* A slot whose age is ROUTER_ID_LIST_EMPTY.                               *)
Empty == [id |-> NULL, age |-> 0, isSent |-> FALSE, out |-> FALSE]

Alive(s) == record[s].id # NULL

TypeOK ==
  /\ appState \in AppStates
  /\ record \in [Slots -> Record]
  /\ slotToSend \in Slots \cup {NULL}
  /\ report \in BOOLEAN
  /\ timerStarted \in BOOLEAN
  /\ request \in {"NONE", "REPORT", "RECORD"}
  /\ phase \in {"NWK", "TIMER", "UART", "APP"}

-------------------------------------------------------------------------------
(* The network layer                                                       *)

(* appDataConf()                                                           *)
Confirm ==
  /\ phase = "NWK"
  /\ request # "NONE"
  /\ request' = "NONE"
  /\ appState' = "SENDING_DONE"
  /\ phase' = "TIMER"
  /\ UNCHANGED <<record, slotToSend, report, timerStarted>>

NoConfirm ==
  /\ phase = "NWK"
  /\ phase' = "TIMER"
  /\ UNCHANGED appVars

-------------------------------------------------------------------------------
(* The timers                                                              *)

(* For mutation runs: sends at once whatever is going on.                  *)
ReportDueAnyState ==
  /\ report' = TRUE
  /\ appState' = "SEND"

(* For mutation runs: the report waits for the next record.                *)
ReportDueSetsFlag ==
  /\ report' = TRUE
  /\ UNCHANGED appState

(* appDataSendingTimerHandler()                                            *)
ReportDue ==
  /\ report' = TRUE
  /\ appState' = IF appState = "WAIT_SEND_TIMER" THEN "SEND" ELSE appState

ReportTimer ==
  /\ phase = "TIMER"
  /\ timerStarted
  /\ timerStarted' = FALSE
  /\ ReportDue
  /\ UNCHANGED <<record, slotToSend, request, phase>>

Aged(r) ==
  IF r.id = NULL THEN r
  ELSE IF r.age + 1 > AgeMax THEN Empty ELSE [r EXCEPT !.age = @ + 1]

(* routerAgingTimerHandler()                                               *)
Aging ==
  /\ phase = "TIMER"
  /\ appState # "INITIAL"
  /\ record' = [s \in Slots |-> Aged(record[s])]
  /\ UNCHANGED <<appState, slotToSend, report, timerStarted, request, phase>>

TimersDone ==
  /\ phase = "TIMER"
  /\ phase' = "UART"
  /\ UNCHANGED appVars

-------------------------------------------------------------------------------
(* The UART: AT_handle_le_packet() with trySetSlot()                       *)

(* For mutation runs: the search ends at the first empty slot.             *)
KnownBeforeGap(id) ==
  \E s \in Slots : record[s].id = id /\ \A q \in 1..(s - 1) : Alive(q)

Known(id) == \E s \in Slots : record[s].id = id

FirstEmpty(s) == ~Alive(s) /\ \A q \in 1..(s - 1) : Alive(q)

(* A packet of a tag that has no record, and there is an empty slot.       *)
PacketStored ==
  /\ phase = "UART"
  /\ appState # "INITIAL"
  /\ \E id \in Ids, s \in Slots :
       /\ ~Known(id)
       /\ FirstEmpty(s)
       /\ record' = [record EXCEPT ![s] =
                       [id |-> id, age |-> 0, isSent |-> FALSE, out |-> FALSE]]
  /\ phase' = "APP"
  /\ UNCHANGED <<appState, slotToSend, report, timerStarted, request>>

(* No packet, or one that changes nothing but readings: its checksum is    *)
(* wrong, its tag has a record (whose age is not renewed), or there is no  *)
(* room.                                                                   *)
NothingStored ==
  /\ phase = "UART"
  /\ phase' = "APP"
  /\ UNCHANGED appVars

-------------------------------------------------------------------------------
(* The application's state machine                                         *)

onInit ==
  /\ appState = "INITIAL"
  /\ record' = [s \in Slots |-> Empty]
  /\ slotToSend' = NULL
  /\ report' = TRUE
  /\ appState' = "SEND"
  /\ UNCHANGED <<timerStarted, request>>

(* A report goes before the record that is to be sent.                     *)
onSend ==
  /\ appState = "SEND"
  /\ request' = IF report THEN "REPORT"
                ELSE IF slotToSend # NULL THEN "RECORD"
                ELSE request
  /\ appState' = IF report \/ slotToSend # NULL THEN "WAIT_CONF"
                 ELSE "WAIT_SEND_TIMER"
  /\ record' = [s \in Slots |->
                  IF ~report /\ s = slotToSend /\ Alive(s)
                  THEN [record[s] EXCEPT !.out = TRUE]
                  ELSE record[s]]
  /\ UNCHANGED <<slotToSend, report, timerStarted>>

(* For mutation runs: the timer is not started again after a report.       *)
onSendingDoneNoRestart ==
  /\ appState = "SENDING_DONE"
  /\ report' = FALSE
  /\ slotToSend' = NULL
  /\ appState' = "WAIT_SEND_TIMER"
  /\ UNCHANGED <<record, timerStarted, request>>

onSendingDone ==
  /\ appState = "SENDING_DONE"
  /\ timerStarted' = (timerStarted \/ report)
  /\ report' = FALSE
  /\ slotToSend' = NULL
  /\ appState' = "WAIT_SEND_TIMER"
  /\ UNCHANGED <<record, request>>

(* The first record that has not been sent.                                *)
Unsent(s) == Alive(s) /\ ~record[s].isSent

onWaitSendTimer ==
  /\ appState = "WAIT_SEND_TIMER"
  /\ slotToSend = NULL
  /\ \E s \in Slots :
       /\ Unsent(s)
       /\ \A q \in 1..(s - 1) : ~Unsent(q)
       /\ record' = [record EXCEPT ![s].isSent = TRUE]
       /\ slotToSend' = s
  /\ appState' = "SEND"
  /\ UNCHANGED <<report, timerStarted, request>>

NothingToDo ==
  \/ appState = "WAIT_CONF"
  \/ /\ appState = "WAIT_SEND_TIMER"
     /\ slotToSend # NULL \/ \A s \in Slots : ~Unsent(s)

App ==
  /\ phase = "APP"
  /\ phase' = "NWK"
  /\ \/ onInit
     \/ onSend
     \/ onSendingDone
     \/ onWaitSendTimer
     \/ NothingToDo /\ UNCHANGED appVars

-------------------------------------------------------------------------------
Init ==
  /\ appState = "INITIAL"
  /\ record = [s \in Slots |-> Empty]
  /\ slotToSend = NULL
  /\ report = FALSE
  /\ timerStarted = FALSE
  /\ request = "NONE"
  /\ phase = "NWK"

Next ==
  \/ Confirm \/ NoConfirm
  \/ ReportTimer \/ Aging \/ TimersDone
  \/ PacketStored \/ NothingStored
  \/ App

Spec == Init /\ [][Next]_vars

(* The loop goes on; a running timer fires; a request is confirmed, as     *)
(* RequestsConfirmed of Nwk says.  Timers and confirmations are strongly   *)
(* fair because each is possible in one phase of a pass only.              *)
Fairness ==
  /\ WF_vars(NoConfirm) /\ WF_vars(TimersDone)
  /\ WF_vars(NothingStored) /\ WF_vars(App)
  /\ SF_vars(Confirm)
  /\ SF_vars(ReportTimer)

FairSpec == Spec /\ Fairness

-------------------------------------------------------------------------------
(* The application gives its request to the network layer only when it has *)
(* it back: a request in service must not be linked, or its message        *)
(* changed, a second time (Router.c:121-147, BaseNode.c:51-96).            *)
OneRequestAtATime == request # "NONE" <=> appState = "WAIT_CONF"

(* The report timer runs or its report is still to be finished, never both *)
(* and never neither; and nothing that is due is left lying while the      *)
(* application waits for the timer, since only the timer would look at it  *)
(* again (Router.c:42-62, 149-169).                                        *)
NothingLeftBehind ==
  /\ appState # "INITIAL" => (report <=> ~timerStarted)
  /\ appState = "WAIT_SEND_TIMER" => ~report /\ slotToSend = NULL

(* A tag has at most one living record, whatever slots have died before    *)
(* and behind it (trySetSlot(), Router.c:199-229).                         *)
UniqueRecords ==
  \A s, q \in Slots : Alive(s) /\ record[s].id = record[q].id => s = q

(* The router comes round to its report timer again and again, whatever    *)
(* records arrive and however the timer falls into the sending of one      *)
(* (Router.c:149-158).                                                     *)
RouterKeepsReporting == []<>timerStarted /\ []<>~timerStarted

(* "Collect the attributes. Message will be sent next pass."               *)
(* (Router.c:324): a record that is marked as sent has been given to the   *)
(* network or is about to be.                                              *)
MarkedRecordsGoOut ==
  \A s \in Slots : Alive(s) /\ record[s].isSent => record[s].out \/ slotToSend = s
===============================================================================
