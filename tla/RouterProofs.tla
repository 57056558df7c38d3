------------------------------ MODULE RouterProofs ------------------------------
(***************************************************************************)
(* Proofs about the router application, for any number of slots and tags   *)
(* and any life of a record.                                               *)
(***************************************************************************)
EXTENDS Router, TLAPS

(* Before the first pass of the application no timer of it runs.           *)
NotYet == appState = "INITIAL" => ~timerStarted

(* The invariant: NothingLeftBehind says nothing of the time before        *)
(* onInit(), which hands on whether the report timer runs.                 *)
IInv ==
  TypeOK /\ OneRequestAtATime /\ NothingLeftBehind /\ NotYet /\ UniqueRecords

(* What the router's records keep when a slot is aged, marked or sent.     *)
LEMMA RecordTypes ==
  /\ Empty \in Record
  /\ \A r \in Record : /\ Aged(r) \in Record
                       /\ Aged(r).id # NULL => Aged(r).id = r.id
                       /\ [r EXCEPT !.isSent = TRUE] \in Record
                       /\ [r EXCEPT !.out = TRUE] \in Record
<1>1. Empty \in Record
  BY AgeAssumption DEF Empty, Record
<1>2. ASSUME NEW r \in Record
      PROVE  Aged(r) \in Record /\ (Aged(r).id # NULL => Aged(r).id = r.id)
  <2>1. CASE r.id = NULL
    BY <2>1 DEF Aged
  <2>2. CASE r.id # NULL /\ r.age + 1 > AgeMax
    <3>1. Aged(r) = Empty
      BY <2>2 DEF Aged
    <3> QED
      BY <1>1, <3>1 DEF Empty
  <2>3. CASE r.id # NULL /\ ~(r.age + 1 > AgeMax)
    BY <2>3, AgeAssumption DEF Aged, Record
  <2> QED
    BY <2>1, <2>2, <2>3
<1> QED
  BY <1>1, <1>2 DEF Record

(* The records stay of their type and unique when the network layer, the   *)
(* report timer or the state machine leaves the identities alone.          *)
LEMMA SameIds ==
  ASSUME TypeOK, UniqueRecords, record' \in [Slots -> Record],
         \A s \in Slots : record'[s].id # NULL => record'[s].id = record[s].id
  PROVE  UniqueRecords'
BY DEF UniqueRecords, Alive

(* The handlers of the state machine keep the invariant.                   *)
LEMMA AppStep == IInv /\ App => IInv'
<1> SUFFICES ASSUME IInv, App
             PROVE  IInv'
  OBVIOUS
<1> USE DEF IInv
<1>1. phase' \in {"NWK", "TIMER", "UART", "APP"}
  BY DEF App
<1>2. CASE onInit
  <2>1. record' \in [Slots -> Record]
    BY <1>2, RecordTypes DEF onInit
  <2>2. \A s \in Slots : record'[s].id = NULL
    BY <1>2 DEF onInit, Empty
  <2>3. UniqueRecords'
    BY <2>1, <2>2, SameIds
  <2>4. request = "NONE" /\ timerStarted = FALSE
    BY <1>2 DEF onInit, OneRequestAtATime, NotYet, TypeOK
  <2> QED
    BY <1>1, <1>2, <2>1, <2>3, <2>4
    DEF onInit, TypeOK, AppStates, OneRequestAtATime, NothingLeftBehind, NotYet
<1>3. CASE onSend
  <2>1. /\ record' \in [Slots -> Record]
        /\ \A s \in Slots : record'[s].id = record[s].id
    <3>1. record \in [Slots -> Record]
      BY DEF TypeOK
    <3>2. /\ record' = [s \in Slots |-> record'[s]]
          /\ \A s \in Slots : \/ record'[s] = record[s]
                             \/ record'[s] = [record[s] EXCEPT !.out = TRUE]
      BY <1>3, <3>1 DEF onSend
    <3>3. \A r \in Record : /\ [r EXCEPT !.out = TRUE] \in Record
                            /\ [r EXCEPT !.out = TRUE].id = r.id
      BY RecordTypes DEF Record
    <3>4. \A s \in Slots : record'[s] \in Record /\ record'[s].id = record[s].id
      BY <3>1, <3>2, <3>3, Zenon
    <3> QED
      BY <3>2, <3>4
  <2>2. UniqueRecords'
    BY <2>1, SameIds
  <2> QED
    BY <1>1, <1>3, <2>1, <2>2
    DEF onSend, TypeOK, AppStates, OneRequestAtATime, NothingLeftBehind, NotYet
<1>4. CASE onSendingDone
  <2>1. UniqueRecords'
    BY <1>4, SameIds DEF onSendingDone, TypeOK
  <2> QED
    BY <1>1, <1>4, <2>1
    DEF onSendingDone, TypeOK, AppStates, OneRequestAtATime, NothingLeftBehind, NotYet
<1>5. CASE onWaitSendTimer
  <2>1. /\ record' \in [Slots -> Record]
        /\ \A s \in Slots : record'[s].id = record[s].id
    <3>1. record \in [Slots -> Record]
      BY DEF TypeOK
    <3>2. /\ record' = [s \in Slots |-> record'[s]]
          /\ \A s \in Slots : \/ record'[s] = record[s]
                             \/ record'[s] = [record[s] EXCEPT !.isSent = TRUE]
      BY <1>5, <3>1 DEF onWaitSendTimer
    <3>3. \A r \in Record : /\ [r EXCEPT !.isSent = TRUE] \in Record
                            /\ [r EXCEPT !.isSent = TRUE].id = r.id
      BY RecordTypes DEF Record
    <3>4. \A s \in Slots : record'[s] \in Record /\ record'[s].id = record[s].id
      BY <3>1, <3>2, <3>3, Zenon
    <3> QED
      BY <3>2, <3>4
  <2>2. UniqueRecords'
    BY <2>1, SameIds
  <2>3. slotToSend' \in Slots
    BY <1>5 DEF onWaitSendTimer
  <2> QED
    BY <1>1, <1>5, <2>1, <2>2, <2>3
    DEF onWaitSendTimer, TypeOK, AppStates, OneRequestAtATime, NothingLeftBehind, NotYet
<1>6. CASE UNCHANGED appVars
  BY <1>1, <1>6
  DEF appVars, TypeOK, OneRequestAtATime, NothingLeftBehind, NotYet, UniqueRecords, Alive
<1> QED
  BY <1>2, <1>3, <1>4, <1>5, <1>6 DEF App

(* And so does every other step of the loop.                               *)
LEMMA RouterStep == IInv /\ [Next]_vars => IInv'
<1> SUFFICES ASSUME IInv, [Next]_vars
             PROVE  IInv'
  OBVIOUS
<1> USE DEF IInv
<1>1. CASE Confirm
  BY <1>1
  DEF Confirm, TypeOK, AppStates, OneRequestAtATime, NothingLeftBehind, NotYet,
      UniqueRecords, Alive
<1>2. CASE NoConfirm \/ TimersDone \/ NothingStored \/ UNCHANGED vars
  BY <1>2
  DEF NoConfirm, TimersDone, NothingStored, vars, appVars, TypeOK,
      OneRequestAtATime, NothingLeftBehind, NotYet, UniqueRecords, Alive
<1>3. CASE ReportTimer
  <2>1. appState # "WAIT_CONF" => appState' # "WAIT_CONF"
    BY <1>3 DEF ReportTimer, ReportDue
  <2> QED
    BY <1>3, <2>1
    DEF ReportTimer, ReportDue, TypeOK, AppStates, OneRequestAtATime,
        NothingLeftBehind, NotYet, UniqueRecords, Alive
<1>4. CASE Aging
  <2>1. /\ record' \in [Slots -> Record]
        /\ \A s \in Slots :
             record'[s].id # NULL => record'[s].id = record[s].id
    BY <1>4, RecordTypes DEF Aging, TypeOK
  <2>2. UniqueRecords'
    BY <2>1, SameIds
  <2> QED
    BY <1>4, <2>1, <2>2
    DEF Aging, TypeOK, OneRequestAtATime, NothingLeftBehind, NotYet
<1>5. CASE PacketStored
  <2>1. PICK id \in Ids, s \in Slots :
          /\ ~Known(id)
          /\ record' = [record EXCEPT ![s] =
               [id |-> id, age |-> 0, isSent |-> FALSE, out |-> FALSE]]
    BY <1>5 DEF PacketStored
  <2>2. [id |-> id, age |-> 0, isSent |-> FALSE, out |-> FALSE] \in Record
    BY AgeAssumption DEF Record
  <2>3. /\ record' \in [Slots -> Record]
        /\ record'[s].id = id
        /\ \A q \in Slots : q # s => record'[q] = record[q]
    BY <2>1, <2>2 DEF TypeOK
  <2>4. \A q \in Slots : record[q].id # id
    BY <2>1 DEF Known
  <2>5. UniqueRecords'
    BY <2>3, <2>4 DEF UniqueRecords, Alive
  <2> QED
    BY <1>5, <2>3, <2>5
    DEF PacketStored, TypeOK, OneRequestAtATime, NothingLeftBehind, NotYet
<1> QED
  BY <1>1, <1>2, <1>3, <1>4, <1>5, AppStep DEF Next

(* It holds when main() starts.                                            *)
LEMMA RouterInit == Init => IInv
<1> SUFFICES ASSUME Init
             PROVE  IInv
  OBVIOUS
<1>1. TypeOK
  BY RecordTypes DEF Init, TypeOK, AppStates
<1>2. UniqueRecords
  BY DEF Init, UniqueRecords, Alive, Empty
<1> QED
  BY <1>1, <1>2 DEF Init, IInv, OneRequestAtATime, NothingLeftBehind, NotYet

(* The variables of the router keep their types (Router.c).                *)
THEOREM TypeCorrect == Spec => []TypeOK
<1>1. IInv => TypeOK
  BY DEF IInv
<1> QED
  BY <1>1, RouterInit, RouterStep, PTL DEF Spec

(* The request is never handed over while the network layer has it         *)
(* (onSend(), appDataConf(), appDataSendingTimerHandler()).                *)
THEOREM RequestIsOwn == Spec => []OneRequestAtATime
<1>1. IInv => OneRequestAtATime
  BY DEF IInv
<1> QED
  BY <1>1, RouterInit, RouterStep, PTL DEF Spec

(* The report timer is never lost, and nothing that is due is forgotten in *)
(* the waiting state (appDataSendingTimerHandler(), onSendingDone()).      *)
THEOREM TimerOrReport == Spec => []NothingLeftBehind
<1>1. IInv => NothingLeftBehind
  BY DEF IInv
<1> QED
  BY <1>1, RouterInit, RouterStep, PTL DEF Spec

(* A tag never has two living records (trySetSlot()).                      *)
THEOREM OneRecordPerTag == Spec => []UniqueRecords
<1>1. IInv => UniqueRecords
  BY DEF IInv
<1> QED
  BY <1>1, RouterInit, RouterStep, PTL DEF Spec
===============================================================================
