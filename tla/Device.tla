---------------------------------- MODULE Device ----------------------------------
(***************************************************************************)
(* A BitStorm node from reset to sleep: its configuration in EEPROM        *)
(* (main.c), the AT commands that change it (at.c), the acknowledgement    *)
(* byte that sets transmit power and reporting interval (BaseNode.c), and  *)
(* the application of an end device (EndDevice.c) with its sleep           *)
(* (halSleep.c).  The applications of a router (in full in Router) and of  *)
(* a coordinator (Coordinator.c) are here as far as they share this state. *)
(*                                                                         *)
(* The power may fail at any step.  The network layer confirms a request   *)
(* in a later pass; its lock may also be held by frames of other nodes.    *)
(***************************************************************************)
EXTENDS Eeprom, CobsFrames

CONSTANTS
  Defaults,     \* the configuration of a node that has none
  PanIds,       \* what ATP may set: pairs of a low and a high byte
  Channels,     \* what ATC may set
  AckBytes,     \* what ATA may set
  Rands,        \* what rand() may return
  Payloads,     \* the AppMessage_t a coordinator may receive
  MaxFailures,  \* bound on failures of the power
  MaxCommands   \* bound on commands that change something

(* The fields of AppConfig_t, in the order in which they are stored.       *)
NodeType == 0
PanIdLow == 1
PanIdHigh == 2
Channel == 3
AckByte == Size - 1

NodeType_Coordinator == {}
NodeType_Router == {0}
NodeType_EndDevice == {1}

NoPanId(c) == c[PanIdLow] = Bits /\ c[PanIdHigh] = Bits

RandMax == 32767

ASSUME ConfigAssumption == Size >= 5
ASSUME RandsAssumption == Rands \subseteq 0..RandMax
ASSUME DefaultsAssumption == Defaults \in [Cells -> Byte] /\ ~NoPanId(Defaults)
ASSUME CommandsAssumption ==
  PanIds \subseteq Byte \X Byte /\ Channels \subseteq Byte /\ AckBytes \subseteq Byte
(* Nodes send an AppMessage_t and nothing else (BaseNode.c:65 and 92).     *)
ASSUME PayloadsAssumption ==
  \A data \in Payloads : data \in Seq(Byte) /\ Len(data) = MessageSize
ASSUME BoundsAssumption == MaxFailures \in Nat /\ MaxCommands \in Nat

VARIABLES
  config,     \* AppConfig
  pc,         \* where the processor is
  index,      \* i of write_config()
  then,       \* what follows write_config()
  appState,   \* the application's state
  request,    \* nwkDataReq is in the network layer's hands
  others,     \* the network layer has frames of other nodes in hand
  radioOn,    \* the radio is not asleep
  applied,    \* the byte that transmit power and timer interval belong to
  paused,     \* send_messages_paused
  wire,       \* the message the coordinator has written to the UART
  asleep,     \* how many ticks HAL_Sleep() sleeps
  payload,    \* history: what that message was made of
  before,     \* history: the stored bytes when write_config() began
  commanded,  \* history: ATA has come since the node booted
  failures, commands  \* counted for the bounds

ram == <<appState, request, others, radioOn, applied, paused, wire, asleep>>
history == <<payload, before, commanded>>
bounds == <<failures, commands>>
vars == <<eepromVars, config, pc, index, then, ram, history, bounds>>

AppStates == {"INITIAL", "SEND", "WAIT_CONF", "SENDING_DONE", "WAIT_SEND_TIMER",
              "PREPARE_TO_SLEEP", "SLEEP", "WAKEUP"}
UNKNOWN == -1

TypeOK ==
  /\ EepromTypeOK
  /\ config \in [Cells -> Byte]
  /\ pc \in {"BOOT", "NWK", "UART", "APP", "WRITE", "ASLEEP", "RESET"}
  /\ index \in 0..Size
  /\ then \in {"BOOT", "CONFIRM", "COMMAND", "RESET"}
  /\ appState \in AppStates
  /\ request \in BOOLEAN /\ others \in BOOLEAN /\ radioOn \in BOOLEAN
  /\ applied \in Byte
  /\ paused \in BOOLEAN
  /\ wire \in Seq(Byte) /\ payload \in Seq(Byte)
  /\ asleep \in Nat \cup {UNKNOWN}
  /\ before \in [Cells -> Byte]
  /\ commanded \in BOOLEAN
  /\ failures \in 0..MaxFailures /\ commands \in 0..MaxCommands

-------------------------------------------------------------------------------
(* The processor starts, and the variables are what the start-up code      *)
(* makes them.                                                             *)
Restart ==
  /\ pc' = "BOOT"
  /\ config' = [a \in Cells |-> {}]
  /\ index' = 0
  /\ then' = "BOOT"
  /\ appState' = "INITIAL"
  /\ request' = FALSE
  /\ others' = FALSE
  /\ radioOn' = FALSE
  /\ applied' = {}
  /\ paused' = FALSE
  /\ wire' = <<>>
  /\ asleep' = 0
  /\ payload' = <<>>
  /\ commanded' = FALSE
  /\ UNCHANGED before

PowerFails ==
  /\ failures < MaxFailures
  /\ failures' = failures + 1
  /\ EepromFails
  /\ Restart
  /\ UNCHANGED commands

(* RESET_MCU: the loop is left by the watchdog.                            *)
WatchdogResets ==
  /\ pc = "RESET"
  /\ Restart
  /\ UNCHANGED <<eepromVars, bounds>>

EepromReady ==
  /\ EepromDone
  /\ UNCHANGED <<config, pc, index, then, ram, history, bounds>>

-------------------------------------------------------------------------------
(* main.c                                                                  *)

(* write_config() begins.                                                  *)
StartWrite(next) ==
  /\ pc' = "WRITE"
  /\ index' = 0
  /\ then' = next
  /\ before' = Settled

(* One byte of write_config().                                             *)
WriteByte ==
  /\ pc = "WRITE"
  /\ index < Size
  /\ EEPROM_PutChar(index, config[index])
  /\ index' = index + 1
  /\ UNCHANGED <<config, pc, then, ram, history, bounds>>

(* main() up to the loop: read_config(), and the defaults if nothing has   *)
(* been stored.                                                            *)
Boot ==
  /\ pc = "BOOT"
  /\ Ready
  /\ \/ /\ NoPanId(eeprom)
        /\ config' = Defaults
        /\ StartWrite("BOOT")
     \/ /\ ~NoPanId(eeprom)
        /\ config' = eeprom
        /\ pc' = "NWK"
        /\ UNCHANGED <<index, then, before>>
  /\ UNCHANGED <<eepromVars, ram, payload, commanded, bounds>>

(* What follows when write_config() returns: the loop, the reset of ATN,   *)
(* or the rest of baseNode_setAckByte() and appDataConf().                 *)
WriteDone ==
  /\ pc = "WRITE"
  /\ index = Size
  /\ pc' = CASE then = "BOOT" -> "NWK"
             [] then = "CONFIRM" -> "UART"
             [] then = "COMMAND" -> "APP"
             [] then = "RESET" -> "RESET"
  /\ applied' = IF then = "CONFIRM" THEN config[AckByte] ELSE applied
  /\ appState' = IF then = "CONFIRM" THEN "SENDING_DONE" ELSE appState
  /\ UNCHANGED <<eepromVars, config, index, then, request, others, radioOn,
                 paused, wire, asleep, history, bounds>>

-------------------------------------------------------------------------------
(* SYS_TaskHandler()                                                       *)

(* The control byte of a confirmation: the application asks for no         *)
(* acknowledgement, which is what would bring one (BaseNode.c:90,          *)
(* nwkDataReq.c:126 and 175).                                              *)
Control == {}

(* For mutation runs: the acknowledgement byte is left alone.              *)
ConfirmKeepsAckByte ==
  /\ pc = "NWK"
  /\ request
  /\ request' = FALSE
  /\ appState' = "SENDING_DONE"
  /\ pc' = "UART"
  /\ UNCHANGED <<eepromVars, config, index, then, applied, others, radioOn,
                 paused, wire, asleep, history, bounds>>

(* appDataConf() with baseNode_setAckByte()                                *)
Confirm ==
  /\ pc = "NWK"
  /\ request
  /\ request' = FALSE
  /\ \/ /\ config[AckByte] # Control
        /\ config' = [config EXCEPT ![AckByte] = Control]
        /\ StartWrite("CONFIRM")
        /\ UNCHANGED appState
     \/ /\ config[AckByte] = Control
        /\ appState' = "SENDING_DONE"
        /\ pc' = "UART"
        /\ UNCHANGED <<config, index, then, before>>
  /\ UNCHANGED <<eepromVars, applied, others, radioOn, paused, wire, asleep,
                 payload, commanded, bounds>>

(* appDataInd() of the coordinator.  Of the frames of one pass the first   *)
(* stands for all: they change nothing else.                               *)
Indication ==
  /\ pc = "NWK"
  /\ wire = <<>>
  /\ config[NodeType] = NodeType_Coordinator
  /\ radioOn
  /\ ~paused
  /\ \E data \in Payloads :
       /\ wire' = appSendMessage(data)
       /\ payload' = data
  /\ UNCHANGED <<eepromVars, config, pc, index, then, appState, request, others,
                 radioOn, applied, paused, asleep, before, commanded, bounds>>

(* What frames of other nodes add to nwkIb.lock, which NWK_Busy() reads:   *)
(* they come, if the radio is on, and go.                                  *)
Traffic ==
  /\ pc = "NWK"
  /\ radioOn \/ others
  /\ others' = ~others
  /\ UNCHANGED <<eepromVars, config, pc, index, then, appState, request, radioOn,
                 applied, paused, wire, asleep, history, bounds>>

(* appDataSendingTimerHandler() of the router                              *)
ReportTimer ==
  /\ pc = "NWK"
  /\ appState = "WAIT_SEND_TIMER"
  /\ appState' = "SEND"
  /\ UNCHANGED <<eepromVars, config, pc, index, then, request, others, radioOn,
                 applied, paused, wire, asleep, history, bounds>>

NwkDone ==
  /\ pc = "NWK"
  /\ pc' = "UART"
  /\ UNCHANGED <<eepromVars, config, index, then, ram, history, bounds>>

-------------------------------------------------------------------------------
(* HAL_UartTaskHandler(): at most one command a pass, since the receive    *)
(* buffer holds one byte.                                                  *)

setConfigParam(c) ==
  /\ config' = c
  /\ StartWrite("COMMAND")

(* ATN: the node starts anew as what it is told to be.                     *)
ChangeNodeType ==
  /\ \E type \in {NodeType_Coordinator, NodeType_Router, NodeType_EndDevice} :
       config' = [config EXCEPT ![NodeType] = type]
  /\ StartWrite("RESET")
  /\ UNCHANGED <<paused, commanded>>

(* ATA, ATP and ATC                                                        *)
ChangeParameter ==
  /\ \/ /\ \E b \in AckBytes : setConfigParam([config EXCEPT ![AckByte] = b])
        /\ commanded' = TRUE
     \/ /\ \E p \in PanIds :
             setConfigParam([config EXCEPT ![PanIdLow] = p[1], ![PanIdHigh] = p[2]])
        /\ UNCHANGED commanded
     \/ /\ \E b \in Channels : setConfigParam([config EXCEPT ![Channel] = b])
        /\ UNCHANGED commanded
  /\ UNCHANGED paused

(* ATX                                                                     *)
ChangePaused ==
  /\ paused' \in BOOLEAN
  /\ pc' = "APP"
  /\ UNCHANGED <<config, index, then, before, commanded>>

(* ATZ                                                                     *)
ResetCommand ==
  /\ pc' = "RESET"
  /\ UNCHANGED <<config, index, then, before, commanded, paused>>

(* handleCommand()                                                         *)
Command ==
  /\ pc = "UART"
  /\ commands < MaxCommands
  /\ commands' = commands + 1
  /\ ChangeNodeType \/ ChangeParameter \/ ChangePaused \/ ResetCommand
  /\ wire' = <<>>
  /\ payload' = <<>>
  /\ UNCHANGED <<eepromVars, appState, request, others, radioOn, applied, asleep,
                 failures>>

(* No command, a question, one with an error in it or an unknown one.      *)
NoCommand ==
  /\ pc = "UART"
  /\ pc' = "APP"
  /\ wire' = <<>>
  /\ payload' = <<>>
  /\ UNCHANGED <<eepromVars, config, index, then, appState, request, others,
                 radioOn, applied, paused, asleep, before, commanded, bounds>>

-------------------------------------------------------------------------------
(* How long an end device sleeps: C arithmetic on the acknowledgement byte *)

Weight(b, k, w) == IF k \in b THEN w ELSE 0

(* ACK_INTERVAL_mask: the lowest five bits, as a number.                   *)
IntervalField(b) ==
  Weight(b, 0, 1) + Weight(b, 1, 2) + Weight(b, 2, 4) + Weight(b, 3, 8) + Weight(b, 4, 16)

(* ACK_INTERVAL_val, whose type is a 16-bit int.                           *)
Interval(b) == (IntervalField(b) + 1) * 10000
Overflows(b) == Interval(b) > 32767

Jitter(b, r) == ((Interval(b) \div 8) * r) \div RandMax

SleepTime(b, r) ==
  IF Jitter(b, r) % 2 = 1 THEN Interval(b) - Jitter(b, r)
                          ELSE Interval(b) + Jitter(b, r)

(* A tick of the sleep timer is 1024 periods of 32768 Hz.                  *)
SleepTicks(ms) == (ms * 32) \div 1000

(* The loop of HAL_Sleep(): the first compare match comes after 255 ticks, *)
(* the next ones after 256, the last one at the fraction of the next turn. *)
Slept(ticks) ==
  LET integer == ticks \div 256
      fractional == ticks % 256
  IN  (IF integer = 0 THEN 0 ELSE 256 * integer - 1)
        + (IF fractional = 0 THEN 0
           ELSE IF integer = 0 THEN fractional ELSE fractional + 1)

-------------------------------------------------------------------------------
(* The applications                                                        *)

(* onInit() of all three, with baseNode_initNetwork() and                  *)
(* baseNode_initDataSendingTimer()                                         *)
onInit ==
  /\ appState = "INITIAL"
  /\ applied' = config[AckByte]
  /\ radioOn' = TRUE
  /\ appState' = "SEND"
  /\ pc' = "NWK"
  /\ UNCHANGED <<request, asleep>>

(* onSend(), which in a coordinator does nothing                           *)
onSend ==
  /\ appState = "SEND"
  /\ config[NodeType] # NodeType_Coordinator
  /\ request' = TRUE
  /\ appState' = "WAIT_CONF"
  /\ pc' = "NWK"
  /\ UNCHANGED <<radioOn, applied, asleep>>

onSendingDone ==
  /\ appState = "SENDING_DONE"
  /\ appState' = IF config[NodeType] = NodeType_Router
                 THEN "WAIT_SEND_TIMER" ELSE "PREPARE_TO_SLEEP"
  /\ pc' = "NWK"
  /\ UNCHANGED <<request, radioOn, applied, asleep>>

onPrepareToSleep ==
  /\ appState = "PREPARE_TO_SLEEP"
  /\ ~request /\ ~others
  /\ radioOn' = FALSE
  /\ appState' = "SLEEP"
  /\ pc' = "NWK"
  /\ UNCHANGED <<request, applied, asleep>>

(* An interval that overflows is anything.                                 *)
onSleep ==
  /\ appState = "SLEEP"
  /\ \/ /\ Overflows(config[AckByte])
        /\ asleep' = UNKNOWN
     \/ /\ ~Overflows(config[AckByte])
        /\ \E r \in Rands :
             asleep' = Slept(SleepTicks(SleepTime(config[AckByte], r)))
  /\ pc' = "ASLEEP"
  /\ UNCHANGED <<appState, request, radioOn, applied>>

(* For mutation runs: the node prepares to sleep again without sending.    *)
onWakeupIdle ==
  /\ appState = "WAKEUP"
  /\ radioOn' = TRUE
  /\ appState' = "PREPARE_TO_SLEEP"
  /\ pc' = "NWK"
  /\ UNCHANGED <<request, applied, asleep>>

onWakeup ==
  /\ appState = "WAKEUP"
  /\ radioOn' = TRUE
  /\ appState' = "SEND"
  /\ pc' = "NWK"
  /\ UNCHANGED <<request, applied, asleep>>

(* A state without a handler, or one whose handler does nothing yet.       *)
NothingToDo ==
  /\ \/ appState \in {"WAIT_CONF", "WAIT_SEND_TIMER"}
     \/ appState = "SEND" /\ config[NodeType] = NodeType_Coordinator
     \/ appState = "PREPARE_TO_SLEEP" /\ (request \/ others)
  /\ pc' = "NWK"
  /\ UNCHANGED <<appState, request, radioOn, applied, asleep>>

App ==
  /\ pc = "APP"
  /\ \/ onInit \/ onSend \/ onSendingDone
     \/ onPrepareToSleep \/ onSleep \/ onWakeup
     \/ NothingToDo
  /\ UNCHANGED <<eepromVars, config, index, then, others, paused, wire, history,
                 bounds>>

(* HAL_Sleep() returns.                                                    *)
SleepEnds ==
  /\ pc = "ASLEEP"
  /\ asleep' = 0
  /\ appState' = "WAKEUP"
  /\ pc' = "NWK"
  /\ UNCHANGED <<eepromVars, config, index, then, request, others, radioOn,
                 applied, paused, wire, history, bounds>>

-------------------------------------------------------------------------------
Init ==
  /\ EepromInit
  /\ config = [a \in Cells |-> {}]
  /\ pc = "BOOT"
  /\ index = 0
  /\ then = "BOOT"
  /\ appState = "INITIAL"
  /\ request = FALSE /\ others = FALSE /\ radioOn = FALSE
  /\ applied = {}
  /\ paused = FALSE
  /\ wire = <<>> /\ payload = <<>>
  /\ asleep = 0
  /\ before = eeprom
  /\ commanded = FALSE
  /\ failures = 0 /\ commands = 0

Next ==
  \/ PowerFails \/ WatchdogResets \/ EepromReady
  \/ Boot \/ WriteByte \/ WriteDone
  \/ Confirm \/ Indication \/ Traffic \/ ReportTimer \/ NwkDone
  \/ Command \/ NoCommand
  \/ App \/ SleepEnds

Spec == Init /\ [][Next]_vars

(* The processor goes on, the EEPROM and the sleep timer finish; a request *)
(* is confirmed (RequestsConfirmed of Nwk) and a report timer fires, each  *)
(* in one place of a pass only.                                            *)
Fairness ==
  /\ WF_vars(WatchdogResets) /\ WF_vars(EepromReady)
  /\ WF_vars(Boot) /\ WF_vars(WriteByte) /\ WF_vars(WriteDone)
  /\ WF_vars(NwkDone) /\ WF_vars(NoCommand) /\ WF_vars(App) /\ WF_vars(SleepEnds)
  /\ SF_vars(Confirm) /\ SF_vars(ReportTimer)

FairSpec == Spec /\ Fairness

-------------------------------------------------------------------------------
(* Whenever the node runs its loop, sleeps or waits for its reset, what is *)
(* stored, or will be when the operation under way is over, is the         *)
(* configuration it works with, and transmit power and timer interval are  *)
(* those of its acknowledgement byte unless a command has changed the byte *)
(* since the node booted (main.c:50-58, eeprom.c:42-89 with its three ways *)
(* to program a byte, BaseNode.c:139-183, config.h:103-111).               *)
StoredIsConfig == pc \notin {"BOOT", "WRITE"} => Settled = config

SettingsApplied ==
  pc \notin {"BOOT", "WRITE", "RESET"} /\ appState # "INITIAL" /\ ~commanded
    => applied = config[AckByte]

ConfigInForce == StoredIsConfig /\ SettingsApplied

Touched == IF eecr.mode = "IDLE" THEN {} ELSE {eecr.addr}

(* Were the power to fail while a configuration is being written, every    *)
(* byte but the one in the works would be the new one up to where the loop *)
(* has come and the old one from there on (main.c:54, eeprom.c:49).        *)
TornInOrder ==
  pc = "WRITE" =>
    \A a \in Cells \ Touched :
      eeprom[a] = IF a < index THEN config[a] ELSE before[a]

(* The node sleeps only while the network layer has nothing in hand, own   *)
(* or of others, and the radio is asleep.  It sleeps for an interval, an   *)
(* eighth longer or shorter at most; and only an interval that a command   *)
(* has set since the node booted can be one that overflows: a stored one   *)
(* is gone before the first sleep (EndDevice.c:45-79, halSleep.c:71-138,   *)
(* BaseNode.c:175-183).                                                    *)
SleepsAsSet ==
  pc = "ASLEEP" =>
    /\ ~request /\ ~others /\ ~radioOn
    /\ IF Overflows(config[AckByte]) THEN commanded
       ELSE LET i == Interval(config[AckByte]) IN
              asleep \in (SleepTicks(i - i \div 8) - 1)..(SleepTicks(i + i \div 8) + 1)

(* Of an AppMessage_t with zeros anywhere in it, first, last or next to    *)
(* one another, the coordinator writes a frame that has no zero before its *)
(* end, fits cobs_buffer, and is taken apart to the message it was made of *)
(* with the right checksum (Coordinator.c:25-91).                          *)
FramesDecode ==
  wire # <<>> =>
    /\ Last(wire) = {}
    /\ \A k \in 1..(Len(wire) - 1) : wire[k] # {}
    /\ Len(Front(wire)) <= BufferSize
    /\ Front(Decoded(Front(wire))) = Front(payload)
    /\ Checksum(Decoded(Front(wire))) = {}

(* A router or an end device comes round to sending again and again,       *)
(* through every failure of the power, command and sleep, as long as the   *)
(* traffic of others pauses now and then (EndDevice.c:45-79, main.c:64).   *)
DeviceKeepsSending ==
  []<>(pc = "APP" /\ ~others) =>
    []<>(request \/ (appState = "SEND" /\ config[NodeType] = NodeType_Coordinator))
===============================================================================
