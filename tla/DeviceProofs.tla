------------------------------- MODULE DeviceProofs -------------------------------
(***************************************************************************)
(* The stored configuration of a node and its sleep, for every width of a  *)
(* byte, every size of the configuration and every set of commands, and    *)
(* however often the power fails: ConfigInForce, TornInOrder and           *)
(* SleepsAsSet of Device; and of the messages a coordinator writes,        *)
(* whatever their bytes and for every size of AppMessage_t whose frame a   *)
(* byte can count: FramesDecode.                                           *)
(*                                                                         *)
(* The first three are not inductive.  For ConfigInForce and TornInOrder:  *)
(* the array as it will be once the operation under way is over (Settled)  *)
(* is the configuration outside of write_config(), and inside it the new   *)
(* bytes up to index and the old ones from there on.  The step that        *)
(* matters is that of one byte, where PutCharProgramsByte says that the    *)
(* driver's choice of an operation turns the old value into the new one.   *)
(* For SleepsAsSet: a node comes near its sleep only through a             *)
(* confirmation, which leaves the shortest interval for a command to       *)
(* change.                                                                 *)
(*                                                                         *)
(* FramesDecode is about one step of the model and a loop in it, so what   *)
(* is inductive is what holds between two turns of the loop (Stage):       *)
(* whatever is written behind the blocks so far, a receiver takes these    *)
(* apart to the data that has gone into them (Leads), and the rest of the  *)
(* input is in the block at hand.  What holds at every turn is proved by   *)
(* way of the first turn at which it would not hold (LeastNumber).  That a *)
(* frame fits its buffer and its count is a matter of its length, which is *)
(* the same for every message (EncodedLength).                             *)
(* TypeCorrect comes last, as it rests on both.                            *)
(***************************************************************************)
EXTENDS Device, SequenceTheorems, WellFoundedInduction, TLAPS

StoreTypeOK ==
  /\ EepromTypeOK
  /\ config \in [Cells -> Byte]
  /\ before \in [Cells -> Byte]
  /\ pc \in {"BOOT", "NWK", "UART", "APP", "WRITE", "ASLEEP", "RESET"}
  /\ index \in 0..Size
  /\ then \in {"BOOT", "CONFIRM", "COMMAND", "RESET"}

WrittenSoFar ==
  pc = "WRITE" =>
    \A a \in Cells : Settled[a] = IF a < index THEN config[a] ELSE before[a]

IInv == StoreTypeOK /\ StoredIsConfig /\ WrittenSoFar

-------------------------------------------------------------------------------
LEMMA CellsOfConfig ==
  /\ 0 \in Cells
  /\ {NodeType, PanIdLow, PanIdHigh, Channel, AckByte} \subseteq Cells
<1>1. Size \in Nat \ {0} /\ Size >= 5
  BY SizeAssumption, ConfigAssumption
<1> QED
  BY <1>1 DEF Cells, NodeType, PanIdLow, PanIdHigh, Channel, AckByte

LEMMA SmallBytes ==
  /\ NodeType_Coordinator \in Byte
  /\ NodeType_Router \in Byte
  /\ NodeType_EndDevice \in Byte
  /\ Control \in Byte
  /\ {} \in Byte /\ Bits \in Byte
BY WidthAssumption
  DEF NodeType_Coordinator, NodeType_Router, NodeType_EndDevice, Control, Byte, Bits

(* Settled is an array of bytes.                                           *)
LEMMA SettledType ==
  ASSUME EepromTypeOK
  PROVE  Settled \in [Cells -> Byte]
BY DEF EepromTypeOK, Operation, Modes, Settled, Result, Byte

(* The operation the driver chooses for a byte makes it the new one.       *)
LEMMA PutCharProgramsByte ==
  ASSUME NEW old \in Byte, NEW new \in Byte, NEW addr \in Cells, old # new
  PROVE  LET op == [mode |-> Mode(old, new), addr |-> addr, data |-> new]
         IN  /\ op \in Operation
             /\ op.mode # "IDLE"
             /\ Result(op, old) = new
<1>1. CASE new \ old # {} /\ new # Bits
  BY <1>1 DEF Mode, Operation, Modes, Result, Byte
<1>2. CASE new \ old # {} /\ new = Bits
  BY <1>2 DEF Mode, Operation, Modes, Result, Byte
<1>3. CASE new \ old = {}
  BY <1>3 DEF Mode, Operation, Modes, Result, Byte
<1> QED
  BY <1>1, <1>2, <1>3

(* EEPROM_PutChar() sets one byte of what the array will be.               *)
LEMMA PutCharSettles ==
  ASSUME EepromTypeOK, NEW addr \in Cells, NEW new \in Byte,
         EEPROM_PutChar(addr, new)
  PROVE  /\ EepromTypeOK'
         /\ Settled' = [Settled EXCEPT ![addr] = new]
<1>1. Ready /\ Settled = eeprom /\ eeprom' = eeprom
  BY DEF EEPROM_PutChar, Ready, Settled
<1>2. eeprom[addr] \in Byte /\ eeprom \in [Cells -> Byte]
  BY DEF EepromTypeOK
<1>3. CASE eeprom[addr] = new
  <2>1. eecr' = eecr
    BY <1>3 DEF EEPROM_PutChar
  <2>2. Settled' = eeprom
    BY <1>1, <2>1 DEF Settled, Ready
  <2> QED
    BY <1>1, <1>2, <1>3, <2>1, <2>2 DEF EepromTypeOK
<1>4. CASE eeprom[addr] # new
  <2> DEFINE op == [mode |-> Mode(eeprom[addr], new), addr |-> addr, data |-> new]
  <2>1. eecr' = op
    BY <1>4 DEF EEPROM_PutChar
  <2>2. op \in Operation /\ op.mode # "IDLE" /\ Result(op, eeprom[addr]) = new
    BY <1>2, <1>4, PutCharProgramsByte
  <2>3. op.addr = addr
    OBVIOUS
  <2> HIDE DEF op
  <2>4. Settled' = [eeprom EXCEPT ![addr] = new]
    BY <1>1, <2>1, <2>2, <2>3 DEF Settled
  <2> QED
    BY <1>1, <2>1, <2>2, <2>4 DEF EepromTypeOK
<1> QED
  BY <1>3, <1>4

-------------------------------------------------------------------------------
LEMMA InitIInv == Init => IInv
<1> SUFFICES ASSUME Init PROVE IInv
  OBVIOUS
<1>1. EepromTypeOK
  BY CellsOfConfig, SmallBytes DEF Init, EepromInit, EepromTypeOK, Operation, Modes, Idle
<1>2. StoreTypeOK
  BY <1>1, SmallBytes, SizeAssumption DEF Init, StoreTypeOK, EepromTypeOK
<1> QED
  BY <1>2 DEF Init, IInv, StoredIsConfig, WrittenSoFar

(* A step of the loop that leaves the configuration alone.                 *)
LEMMA LoopStep ==
  ASSUME IInv, UNCHANGED <<eepromVars, config, before, index, then>>,
         pc \notin {"BOOT", "WRITE"},
         pc' \in {"NWK", "UART", "APP", "ASLEEP", "RESET"}
  PROVE  IInv'
BY DEF IInv, StoreTypeOK, StoredIsConfig, WrittenSoFar, Settled, EepromTypeOK, eepromVars

(* Starting anew: nothing is claimed before the configuration is read.     *)
LEMMA RestartStep ==
  ASSUME IInv, Restart, EepromTypeOK'
  PROVE  IInv'
BY SmallBytes, SizeAssumption
  DEF IInv, Restart, StoreTypeOK, StoredIsConfig, WrittenSoFar

(* A new configuration begins to be written: nothing of it is stored yet.  *)
LEMMA WriteStarts ==
  ASSUME IInv, NEW next \in {"BOOT", "CONFIRM", "COMMAND", "RESET"},
         StartWrite(next), UNCHANGED eepromVars, config' \in [Cells -> Byte]
  PROVE  IInv'
<1>1. EepromTypeOK' /\ Settled' = Settled
  BY DEF IInv, StoreTypeOK, EepromTypeOK, Settled, eepromVars
<1>2. Settled \in [Cells -> Byte]
  BY SettledType DEF IInv, StoreTypeOK
<1>3. StoreTypeOK'
  BY <1>1, <1>2, SizeAssumption DEF StartWrite, StoreTypeOK
<1>4. WrittenSoFar'
  BY <1>1, SizeAssumption DEF StartWrite, WrittenSoFar, Cells
<1> QED
  BY <1>3, <1>4 DEF IInv, StoredIsConfig, StartWrite

LEMMA PowerFailsStep == ASSUME IInv, PowerFails PROVE IInv'
<1>1. EepromTypeOK'
  BY CellsOfConfig, SmallBytes
  DEF IInv, StoreTypeOK, EepromTypeOK, PowerFails, EepromFails, Idle, Operation, Modes
<1> QED
  BY <1>1, RestartStep DEF PowerFails

LEMMA EepromReadyStep == ASSUME IInv, EepromReady PROVE IInv'
<1>1. eeprom' = Settled /\ eecr' = Idle /\ UNCHANGED <<config, before, pc, index, then>>
  BY DEF EepromReady, EepromDone, history
<1>2. Settled' = Settled
  BY <1>1 DEF Settled, Idle
<1>3. EepromTypeOK'
  BY <1>1, SettledType, CellsOfConfig, SmallBytes
  DEF IInv, StoreTypeOK, EepromTypeOK, Idle, Operation, Modes
<1> QED
  BY <1>1, <1>2, <1>3 DEF IInv, StoreTypeOK, StoredIsConfig, WrittenSoFar

LEMMA BootStep == ASSUME IInv, Boot PROVE IInv'
<1>1. CASE NoPanId(eeprom) /\ config' = Defaults /\ StartWrite("BOOT")
  BY <1>1, WriteStarts, DefaultsAssumption DEF Boot
<1>2. CASE ~NoPanId(eeprom) /\ config' = eeprom /\ pc' = "NWK"
             /\ UNCHANGED <<index, then, before>>
  BY <1>2 DEF Boot, IInv, StoreTypeOK, StoredIsConfig, WrittenSoFar, Settled, Ready,
              EepromTypeOK, eepromVars
<1> QED
  BY <1>1, <1>2 DEF Boot

LEMMA WriteByteStep == ASSUME IInv, WriteByte PROVE IInv'
<1>1. index \in Cells /\ index' = index + 1 /\ UNCHANGED <<config, pc, before, then>>
  BY SizeAssumption DEF WriteByte, IInv, StoreTypeOK, Cells, history
<1>2. config[index] \in Byte
  BY <1>1 DEF IInv, StoreTypeOK
<1>3. EepromTypeOK' /\ Settled' = [Settled EXCEPT ![index] = config[index]]
  BY <1>1, <1>2, PutCharSettles DEF IInv, StoreTypeOK, WriteByte
<1>4. Settled \in [Cells -> Byte]
  BY SettledType DEF IInv, StoreTypeOK
<1>5. StoreTypeOK'
  BY <1>1, <1>3, SizeAssumption DEF IInv, StoreTypeOK, Cells
<1>6. WrittenSoFar'
  <2> SUFFICES ASSUME NEW a \in Cells
               PROVE  Settled'[a] = IF a < index + 1 THEN config[a] ELSE before[a]
    BY <1>1 DEF WrittenSoFar
  <2>1. CASE a = index
    BY <1>3, <1>4, <2>1, SizeAssumption DEF Cells
  <2>2. CASE a # index
    <3>1. Settled'[a] = Settled[a]
      BY <1>3, <1>4, <2>2
    <3>2. (a < index + 1) <=> (a < index)
      BY <1>1, <2>2, SizeAssumption DEF Cells
    <3> QED
      BY <3>1, <3>2 DEF IInv, WrittenSoFar, WriteByte
  <2> QED
    BY <2>1, <2>2
<1> QED
  BY <1>1, <1>5, <1>6 DEF IInv, StoredIsConfig, WriteByte

LEMMA WriteDoneStep == ASSUME IInv, WriteDone PROVE IInv'
<1>1. \A a \in Cells : Settled[a] = config[a]
  BY SizeAssumption DEF IInv, WrittenSoFar, WriteDone, Cells
<1>2. Settled = config
  BY <1>1, SettledType DEF IInv, StoreTypeOK
<1>3. pc' \in {"NWK", "UART", "APP", "RESET"}
  BY DEF IInv, StoreTypeOK, WriteDone
<1> QED
  BY <1>2, <1>3
  DEF WriteDone, IInv, StoreTypeOK, StoredIsConfig, WrittenSoFar, Settled,
      EepromTypeOK, eepromVars, history

LEMMA ConfirmStep == ASSUME IInv, Confirm PROVE IInv'
<1>1. CASE config[AckByte] # Control
  <2>1. config' = [config EXCEPT ![AckByte] = Control] /\ StartWrite("CONFIRM")
        /\ UNCHANGED eepromVars
    BY <1>1 DEF Confirm
  <2>2. config' \in [Cells -> Byte]
    BY <2>1, CellsOfConfig, SmallBytes DEF IInv, StoreTypeOK
  <2> QED
    BY <2>1, <2>2, WriteStarts
<1>2. CASE config[AckByte] = Control
  BY <1>2, LoopStep DEF Confirm
<1> QED
  BY <1>1, <1>2

LEMMA CommandStep == ASSUME IInv, Command PROVE IInv'
<1>1. UNCHANGED eepromVars /\ pc = "UART"
  BY DEF Command
<1>2. CASE ChangeNodeType
  <2>1. StartWrite("RESET") /\ config' \in [Cells -> Byte]
    BY <1>2, CellsOfConfig, SmallBytes DEF ChangeNodeType, IInv, StoreTypeOK
  <2> QED
    BY <1>1, <2>1, WriteStarts
<1>3. CASE ChangeParameter
  <2>1. PICK c \in [Cells -> Byte] : setConfigParam(c)
    BY <1>3, CellsOfConfig, CommandsAssumption
    DEF ChangeParameter, setConfigParam, IInv, StoreTypeOK
  <2> QED
    BY <1>1, <2>1, WriteStarts DEF setConfigParam
<1>4. CASE ChangePaused \/ ResetCommand
  BY <1>1, <1>4, LoopStep DEF ChangePaused, ResetCommand
<1> QED
  BY <1>2, <1>3, <1>4 DEF Command

LEMMA AppStep == ASSUME IInv, App PROVE IInv'
<1>1. pc = "APP" /\ pc' \in {"NWK", "ASLEEP"}
  BY DEF App, onInit, onSend, onSendingDone, onPrepareToSleep, onSleep, onWakeup,
         NothingToDo
<1> QED
  BY <1>1, LoopStep DEF App, history

(* One step of the node, or a step that changes nothing.                   *)
LEMMA NextIInv == ASSUME IInv, [Next]_vars PROVE IInv'
<1>1. CASE PowerFails
  BY <1>1, PowerFailsStep
<1>2. CASE WatchdogResets
  BY <1>2, RestartStep
  DEF WatchdogResets, IInv, StoreTypeOK, EepromTypeOK, eepromVars
<1>3. CASE EepromReady
  BY <1>3, EepromReadyStep
<1>4. CASE Boot
  BY <1>4, BootStep
<1>5. CASE WriteByte
  BY <1>5, WriteByteStep
<1>6. CASE WriteDone
  BY <1>6, WriteDoneStep
<1>7. CASE Confirm
  BY <1>7, ConfirmStep
<1>8. CASE Indication \/ Traffic \/ ReportTimer \/ NwkDone
  BY <1>8, LoopStep DEF Indication, Traffic, ReportTimer, NwkDone, history
<1>9. CASE Command
  BY <1>9, CommandStep
<1>10. CASE NoCommand
  BY <1>10, LoopStep DEF NoCommand
<1>11. CASE App
  BY <1>11, AppStep
<1>12. CASE SleepEnds
  BY <1>12, LoopStep DEF SleepEnds, history
<1>13. CASE UNCHANGED vars
  BY <1>13
  DEF vars, eepromVars, history, IInv, StoreTypeOK, StoredIsConfig, WrittenSoFar,
      Settled, EepromTypeOK
<1> QED
  BY <1>1, <1>2, <1>3, <1>4, <1>5, <1>6, <1>7, <1>8, <1>9, <1>10, <1>11, <1>12, <1>13
  DEF Next

(* The inductive invariant: what is stored, byte by byte, at every step.   *)
THEOREM StoreInvariant == Spec => []IInv
<1>1. Init => IInv
  BY InitIInv
<1>2. IInv /\ [Next]_vars => IInv'
  BY NextIInv
<1> QED
  BY <1>1, <1>2, PTL DEF Spec

(* StoredIsConfig, the half of ConfigInForce that is about the EEPROM: the *)
(* node works with what is stored, whenever it is not writing it           *)
(* (main.c:39-58, eeprom.c:15-89).                                         *)
THEOREM StoredConfig == Spec => []StoredIsConfig
<1>1. IInv => StoredIsConfig
  BY DEF IInv
<1> QED
  BY <1>1, StoreInvariant, PTL

-------------------------------------------------------------------------------
(* The settings made from the acknowledgement byte.  While a command other *)
(* than ATA writes its parameter they stay right; while a confirmation     *)
(* writes the byte they are about to be made, and the defaults are written *)
(* before there are any.                                                   *)
NotYetBooted == pc = "BOOT" \/ (pc = "WRITE" /\ then = "BOOT")
AboutToSet == pc \in {"BOOT", "RESET"} \/ (pc = "WRITE" /\ then \in {"CONFIRM", "RESET"})

AInv ==
  /\ NotYetBooted => appState = "INITIAL"
  /\ request \/ pc = "ASLEEP" => appState # "INITIAL"
  /\ appState = "INITIAL" \/ commanded \/ AboutToSet \/ applied = config[AckByte]

LEMMA InitAInv == Init => AInv
BY DEF Init, AInv, NotYetBooted, AboutToSet

LEMMA CommandAInv == ASSUME IInv, AInv, Command PROVE AInv'
<1>1. UNCHANGED <<appState, applied, request>> /\ pc = "UART"
  BY DEF Command
<1>2. CASE ChangeNodeType
  BY <1>1, <1>2 DEF ChangeNodeType, StartWrite, Command, AInv, NotYetBooted, AboutToSet
<1>3. CASE ChangeParameter
  <2>1. pc' = "WRITE" /\ then' = "COMMAND"
    BY <1>3 DEF ChangeParameter, setConfigParam, StartWrite
  <2>2. commanded' \/ (commanded' = commanded /\ config'[AckByte] = config[AckByte])
    <3>1. AckByte \notin {PanIdLow, PanIdHigh, Channel}
      BY SizeAssumption, ConfigAssumption DEF AckByte, PanIdLow, PanIdHigh, Channel
    <3> QED
      BY <3>1, <1>3, CellsOfConfig
      DEF ChangeParameter, setConfigParam, IInv, StoreTypeOK
  <2> QED
    BY <1>1, <2>1, <2>2 DEF AInv, NotYetBooted, AboutToSet
<1>4. CASE ChangePaused \/ ResetCommand
  BY <1>1, <1>4 DEF ChangePaused, ResetCommand, AInv, NotYetBooted, AboutToSet
<1> QED
  BY <1>2, <1>3, <1>4 DEF Command

LEMMA NextAInv == ASSUME IInv, AInv, [Next]_vars PROVE AInv'
<1>1. CASE PowerFails \/ WatchdogResets
  BY <1>1 DEF PowerFails, WatchdogResets, Restart, AInv, NotYetBooted, AboutToSet
<1>2. CASE EepromReady \/ WriteByte \/ UNCHANGED vars
  BY <1>2 DEF EepromReady, WriteByte, vars, ram, history, AInv, NotYetBooted, AboutToSet
<1>3. CASE Boot
  BY <1>3 DEF Boot, StartWrite, ram, AInv, NotYetBooted, AboutToSet
<1>4. CASE WriteDone
  BY <1>4 DEF WriteDone, history, AInv, NotYetBooted, AboutToSet, IInv, StoreTypeOK
<1>5. CASE Confirm
  BY <1>5 DEF Confirm, StartWrite, AInv, NotYetBooted, AboutToSet
<1>6. CASE Indication \/ Traffic \/ ReportTimer \/ NwkDone \/ NoCommand \/ SleepEnds
  BY <1>6
  DEF Indication, Traffic, ReportTimer, NwkDone, NoCommand, SleepEnds, ram, history,
      AInv, NotYetBooted, AboutToSet
<1>7. CASE Command
  BY <1>7, CommandAInv
<1>8. CASE App
  BY <1>8
  DEF App, onInit, onSend, onSendingDone, onPrepareToSleep, onSleep, onWakeup,
      NothingToDo, history, AInv, NotYetBooted, AboutToSet
<1> QED
  BY <1>1, <1>2, <1>3, <1>4, <1>5, <1>6, <1>7, <1>8 DEF Next

(* ConfigInForce: what is stored, what is in memory and what has been set  *)
(* from it agree (main.c:50-58, BaseNode.c:139-183).                       *)
THEOREM ConfigAgrees == Spec => []ConfigInForce
<1>1. Init => IInv /\ AInv
  BY InitIInv, InitAInv
<1>2. (IInv /\ AInv) /\ [Next]_vars => (IInv /\ AInv)'
  BY NextIInv, NextAInv
<1>3. IInv /\ AInv => ConfigInForce
  BY DEF IInv, AInv, AboutToSet, ConfigInForce, SettingsApplied
<1> QED
  BY <1>1, <1>2, <1>3, PTL DEF Spec

(* TornInOrder: a failure of the power while a configuration is written    *)
(* leaves new bytes, at most one damaged, and old bytes, in this order     *)
(* (main.c:50-58, eeprom.c:42-89).                                         *)
THEOREM TornWrite == Spec => []TornInOrder
<1>1. IInv => TornInOrder
  BY DEF IInv, StoreTypeOK, EepromTypeOK, WrittenSoFar, TornInOrder, Touched, Settled
<1> QED
  BY <1>1, StoreInvariant, PTL

-------------------------------------------------------------------------------
(* The numbers of a sleep.  An interval that fits its type is one of       *)
(* three, and for each of them the divisions are by constants.             *)
LEMMA ShortIntervals ==
  ASSUME NEW b, ~Overflows(b)
  PROVE  Interval(b) \in {10000, 20000, 30000}
<1>1. IntervalField(b) \in Nat
  BY DEF IntervalField, Weight
<1>2. IntervalField(b) \in 0..2
  BY <1>1 DEF Overflows, Interval
<1> QED
  BY <1>2 DEF Interval

(* A whole part of a product with a fraction.                              *)
LEMMA FractionOf ==
  ASSUME NEW i \in Nat, NEW r \in Nat, NEW d \in Nat \ {0}, r <= d, i * r <= i * d
  PROVE  (i * r) \div d \in 0..i
<1> DEFINE p == i * r  q == p \div d
<1>1. p \in Nat
  OBVIOUS
<1>2. q \in Nat /\ d * q <= p
  BY <1>1
<1>3. d * q <= i * d
  BY <1>1, <1>2
<1> HIDE DEF p, q
<1>4. q <= i
  <2> SUFFICES ASSUME q >= i + 1 PROVE FALSE
    BY <1>2
  <2>1. d * q >= d * (i + 1)
    BY <1>2
  <2> QED
    BY <1>2, <1>3, <2>1
<1> QED
  BY <1>2, <1>4 DEF q, p

LEMMA RandRange == \A r \in Rands : r \in Nat /\ r <= 32767
<1> SUFFICES ASSUME NEW r \in Rands
             PROVE  r \in Nat /\ r <= 32767
  OBVIOUS
<1>1. r \in 0..RandMax
  BY RandsAssumption
<1>2. RandMax \in Nat
  BY DEF RandMax
<1>3. r \in Nat /\ r <= RandMax
  BY <1>1, <1>2
<1> QED
  BY <1>3 DEF RandMax

(* The jitter is an eighth of the interval at most.                        *)
LEMMA JitterRange ==
  ASSUME NEW b, ~Overflows(b), NEW r \in Rands
  PROVE  Jitter(b, r) \in 0..(Interval(b) \div 8)
<1> DEFINE i == Interval(b) \div 8
<1>1. r \in Nat /\ r <= 32767
  BY RandRange
<1>2. i \in {1250, 2500, 3750}
  BY ShortIntervals
<1>3. i * r <= i * 32767
  BY <1>1, <1>2
<1> HIDE DEF i
<1>4. (i * r) \div 32767 \in 0..i
  BY <1>1, <1>2, <1>3, FractionOf
<1> QED
  BY <1>4 DEF Jitter, RandMax, i

LEMMA SleepTimeRange ==
  ASSUME NEW b, ~Overflows(b), NEW r \in Rands
  PROVE  SleepTime(b, r) \in
           (Interval(b) - Interval(b) \div 8)..(Interval(b) + Interval(b) \div 8)
<1>1. Interval(b) \in Int /\ Interval(b) \div 8 \in Int
  BY ShortIntervals
<1>2. Jitter(b, r) \in 0..(Interval(b) \div 8)
  BY JitterRange
<1> HIDE DEF Interval
<1> QED
  BY <1>1, <1>2 DEF SleepTime

(* More milliseconds are no fewer ticks.                                   *)
LEMMA TicksGrow ==
  ASSUME NEW m \in Nat, NEW n \in Nat, m <= n
  PROVE  SleepTicks(m) \in Nat /\ SleepTicks(n) \in Nat /\ SleepTicks(m) <= SleepTicks(n)
BY DEF SleepTicks

(* The loop of HAL_Sleep() sleeps what it is told, or a tick less.         *)
LEMMA SleptIsAsked ==
  ASSUME NEW t \in Nat
  PROVE  Slept(t) \in (t - 1)..t
<1> DEFINE q == t \div 256  f == t % 256
<1>1. q \in Nat /\ f \in 0..255 /\ t = 256 * q + f
  OBVIOUS
<1>2. Slept(t) = (IF q = 0 THEN 0 ELSE 256 * q - 1)
                   + (IF f = 0 THEN 0 ELSE IF q = 0 THEN f ELSE f + 1)
  BY DEF Slept
<1> HIDE DEF q, f
<1> QED
  BY <1>1, <1>2

(* The window of SleepsAsSet.                                              *)
SleepWindow(b) ==
  LET i == Interval(b) IN
    (SleepTicks(i - i \div 8) - 1)..(SleepTicks(i + i \div 8) + 1)

LEMMA SleepsInWindow ==
  ASSUME NEW b, ~Overflows(b), NEW r \in Rands
  PROVE  Slept(SleepTicks(SleepTime(b, r))) \in SleepWindow(b)
<1> DEFINE i == Interval(b)
           t == SleepTicks(SleepTime(b, r))
<1>1. i - i \div 8 \in Nat /\ i + i \div 8 \in Nat
  BY ShortIntervals
<1>2. SleepTime(b, r) \in (i - i \div 8)..(i + i \div 8)
  BY SleepTimeRange
<1>3. SleepTime(b, r) \in Nat
  BY <1>1, <1>2
<1>4. t \in Nat /\ SleepTicks(i - i \div 8) \in Nat /\ SleepTicks(i + i \div 8) \in Nat
      /\ SleepTicks(i - i \div 8) <= t /\ t <= SleepTicks(i + i \div 8)
  BY <1>1, <1>2, <1>3, TicksGrow
<1>5. Slept(t) \in (t - 1)..t
  BY <1>4, SleptIsAsked
<1>6. SleepWindow(b) = (SleepTicks(i - i \div 8) - 1)..(SleepTicks(i + i \div 8) + 1)
  BY DEF SleepWindow
<1> HIDE DEF i, t
<1> QED
  BY <1>4, <1>5, <1>6 DEF t

-------------------------------------------------------------------------------
(* A node on its way to sleep has no request in hand, and once it has put  *)
(* the radio to sleep nothing of others can come.  A confirmation is the   *)
(* only way there, and it leaves the control byte, the shortest interval,  *)
(* for a command to change.                                                *)
Confirmed == {"SENDING_DONE", "WAIT_SEND_TIMER", "PREPARE_TO_SLEEP", "SLEEP", "WAKEUP"}

SInv ==
  /\ request => appState = "WAIT_CONF"
  /\ pc = "WRITE" /\ then = "CONFIRM" => ~request /\ config[AckByte] = Control
  /\ appState = "SLEEP" => ~others /\ ~radioOn
  /\ appState \in Confirmed => commanded \/ config[AckByte] = Control
  /\ pc = "ASLEEP" =>
       /\ appState = "SLEEP"
       /\ ~Overflows(config[AckByte]) => asleep \in SleepWindow(config[AckByte])

LEMMA InitSInv == Init => SInv
BY DEF Init, SInv, Confirmed

(* A command changes the acknowledgement byte only as ATA.                 *)
LEMMA CommandSInv == ASSUME IInv, SInv, Command PROVE SInv'
<1>1. UNCHANGED <<appState, request, others, radioOn, asleep>>
      /\ pc' \in {"WRITE", "APP", "RESET"}
  BY DEF Command, ChangeNodeType, ChangeParameter, ChangePaused, ResetCommand,
         setConfigParam, StartWrite
<1>2. pc' = "WRITE" => then' # "CONFIRM"
  BY DEF Command, ChangeNodeType, ChangeParameter, ChangePaused, ResetCommand,
         setConfigParam, StartWrite
<1>3. commanded' \/ (commanded' = commanded /\ config'[AckByte] = config[AckByte])
  <2>1. AckByte \notin {NodeType, PanIdLow, PanIdHigh, Channel}
    BY SizeAssumption, ConfigAssumption
    DEF AckByte, NodeType, PanIdLow, PanIdHigh, Channel
  <2>2. config \in [Cells -> Byte]
    BY DEF IInv, StoreTypeOK
  <2>3. CASE ChangeNodeType
    BY <2>1, <2>2, <2>3, CellsOfConfig DEF ChangeNodeType
  <2>4. CASE ChangeParameter
    BY <2>1, <2>2, <2>4, CellsOfConfig DEF ChangeParameter, setConfigParam
  <2>5. CASE ChangePaused \/ ResetCommand
    BY <2>5 DEF ChangePaused, ResetCommand
  <2> QED
    BY <2>3, <2>4, <2>5 DEF Command
<1> QED
  BY <1>1, <1>2, <1>3 DEF SInv

LEMMA ConfirmSInv == ASSUME IInv, SInv, Confirm PROVE SInv'
<1>1. config'[AckByte] = Control
  BY CellsOfConfig DEF Confirm, IInv, StoreTypeOK
<1>2. appState = "WAIT_CONF" /\ appState' \in {"WAIT_CONF", "SENDING_DONE"} /\ ~request'
      /\ pc' \in {"WRITE", "UART"}
  BY DEF Confirm, SInv, StartWrite
<1> QED
  BY <1>1, <1>2 DEF SInv

(* The application's handlers: only onSleep() begins a sleep.              *)
LEMMA AppSInv == ASSUME SInv, App PROVE SInv'
<1>1. UNCHANGED <<config, others, commanded>> /\ pc' \in {"NWK", "ASLEEP"}
  BY DEF App, onInit, onSend, onSendingDone, onPrepareToSleep, onSleep, onWakeup,
         NothingToDo, history
<1>2. CASE onSleep
  <2>1. appState = "SLEEP" /\ UNCHANGED <<appState, request, radioOn>>
    BY <1>2 DEF onSleep
  <2>2. ~Overflows(config[AckByte]) => asleep' \in SleepWindow(config[AckByte])
    BY <1>2, SleepsInWindow DEF onSleep
  <2> QED
    BY <1>1, <2>1, <2>2 DEF SInv
<1>3. CASE onInit \/ onSend \/ onSendingDone \/ onPrepareToSleep \/ onWakeup \/ NothingToDo
  BY <1>1, <1>3
  DEF onInit, onSend, onSendingDone, onPrepareToSleep, onWakeup, NothingToDo, SInv,
      Confirmed
<1> QED
  BY <1>2, <1>3 DEF App

LEMMA NextSInv == ASSUME IInv, AInv, SInv, [Next]_vars PROVE SInv'
<1>1. CASE PowerFails \/ WatchdogResets
  BY <1>1 DEF PowerFails, WatchdogResets, Restart, SInv, Confirmed
<1>2. CASE EepromReady \/ WriteByte \/ UNCHANGED vars
  BY <1>2 DEF EepromReady, WriteByte, vars, ram, history, SInv
<1>3. CASE Boot
  BY <1>3 DEF Boot, StartWrite, ram, SInv, Confirmed, AInv, NotYetBooted
<1>4. CASE WriteDone
  BY <1>4 DEF WriteDone, history, SInv, Confirmed, IInv, StoreTypeOK
<1>5. CASE Confirm
  BY <1>5, ConfirmSInv
<1>6. CASE Indication \/ Traffic \/ ReportTimer \/ NwkDone \/ NoCommand \/ SleepEnds
  BY <1>6
  DEF Indication, Traffic, ReportTimer, NwkDone, NoCommand, SleepEnds, ram, history,
      SInv, Confirmed
<1>7. CASE Command
  BY <1>7, CommandSInv
<1>8. CASE App
  BY <1>8, AppSInv
<1> QED
  BY <1>1, <1>2, <1>3, <1>4, <1>5, <1>6, <1>7, <1>8 DEF Next

(* SleepsAsSet: a node sleeps with nothing in hand and its radio asleep,   *)
(* for its interval and an eighth more or less, and never for an interval  *)
(* that overflows unless a command has set it since it booted              *)
(* (EndDevice.c:45-79, halSleep.c:71-138, BaseNode.c:175-183).             *)
THEOREM SleepIsAsSet == Spec => []SleepsAsSet
<1>1. Init => IInv /\ AInv /\ SInv
  BY InitIInv, InitAInv, InitSInv
<1>2. (IInv /\ AInv /\ SInv) /\ [Next]_vars => (IInv /\ AInv /\ SInv)'
  BY NextIInv, NextAInv, NextSInv
<1>3. SInv => SleepsAsSet
  <2> SUFFICES ASSUME SInv, pc = "ASLEEP"
               PROVE  /\ ~request /\ ~others /\ ~radioOn
                      /\ Overflows(config[AckByte]) => commanded
                      /\ ~Overflows(config[AckByte]) => asleep \in SleepWindow(config[AckByte])
    BY DEF SleepsAsSet, SleepWindow
  <2>1. appState = "SLEEP" /\ (commanded \/ config[AckByte] = Control)
    BY DEF SInv, Confirmed
  <2>2. ~Overflows(Control)
    BY DEF Overflows, Interval, IntervalField, Weight, Control
  <2> QED
    BY <2>1, <2>2 DEF SInv
<1> QED
  BY <1>1, <1>2, <1>3, PTL DEF Spec

-------------------------------------------------------------------------------
(* Every set of numbers that is not empty has a least one: what holds at   *)
(* the start of a byte, a message or a frame, and one position further,    *)
(* holds to its end.                                                       *)
LEMMA LeastNumber ==
  ASSUME NEW T \in SUBSET Nat, T # {}
  PROVE  \E n \in T : \A k \in T : n <= k
<1> DEFINE R == {ss \in Nat \X Nat : ss[1] < ss[2]}
<1>1. IsWellFoundedOn(R, Nat)
  BY NatLessThanWellFounded DEF OpToRel
<1>2. PICK n \in T : \A k \in T : ~(<<k, n>> \in R)
  BY <1>1, WFMin
<1>3. \A k \in T : ~(k < n)
  BY <1>2
<1> QED
  BY <1>3

(* The number of a byte, bit by bit.                                       *)
Bit(b, k) == IF Width - k \in b THEN 1 ELSE 0

IsHighest(h, b, len) ==
  h = [k \in 0..len |-> IF k = 0 THEN 0 ELSE 2 * h[k - 1] + Bit(b, k)]

LEMMA HighestExists ==
  ASSUME NEW b, NEW len \in Nat
  PROVE  \E h : IsHighest(h, b, len)
<1> DEFINE T == {k \in Nat : ~\E h : IsHighest(h, b, k)}
<1> SUFFICES ASSUME T # {}
             PROVE  FALSE
  OBVIOUS
<1>1. PICK k \in T : \A j \in T : k <= j
  BY LeastNumber
<1>2. CASE k = 0
  <2>1. IsHighest([i \in 0..0 |-> 0], b, 0)
    BY DEF IsHighest
  <2> QED
    BY <1>2, <2>1
<1>3. CASE k # 0
  <2>1. k - 1 \in Nat /\ ~(k <= k - 1)
    BY <1>3
  <2>2. PICK h : IsHighest(h, b, k - 1)
    BY <1>1, <2>1
  <2> DEFINE more == [i \in 0..k |-> IF i = k THEN 2 * h[k - 1] + Bit(b, k) ELSE h[i]]
  <2>3. \A i \in 0..(k - 1) : more[i] = h[i]
    BY <1>1
  <2>4. ASSUME NEW i \in 0..k
        PROVE  more[i] = IF i = 0 THEN 0 ELSE 2 * more[i - 1] + Bit(b, i)
    <3>1. CASE i = k
      <4>1. more[i] = 2 * h[k - 1] + Bit(b, k) /\ more[k - 1] = h[k - 1]
        BY <2>1, <2>3, <3>1
      <4> QED
        BY <1>3, <3>1, <4>1
    <3>2. CASE i # k
      <4>1. i \in 0..(k - 1) /\ (i # 0 => i - 1 \in 0..(k - 1))
        BY <3>2, <1>1
      <4> HIDE DEF more
      <4>2. h[i] = IF i = 0 THEN 0 ELSE 2 * h[i - 1] + Bit(b, i)
        BY <2>2, <4>1 DEF IsHighest
      <4> QED
        BY <2>3, <4>1, <4>2
    <3> QED
      BY <3>1, <3>2
  <2>5. IsHighest(more, b, k)
    BY <2>4 DEF IsHighest
  <2> QED
    BY <2>5
<1> QED
  BY <1>2, <1>3

LEMMA HighestSteps ==
  ASSUME NEW b
  PROVE  /\ Highest(b)[0] = 0
         /\ \A k \in 1..Width : Highest(b)[k] = 2 * Highest(b)[k - 1] + Bit(b, k)
<1>1. Width \in Nat
  BY WidthAssumption
<1>2. \E h : IsHighest(h, b, Width)
  BY <1>1, HighestExists
<1>3. Highest(b) = CHOOSE h : IsHighest(h, b, Width)
  BY DEF Highest, IsHighest, Bit
<1>4. IsHighest(Highest(b), b, Width)
  BY <1>2, <1>3
<1> DEFINE h == Highest(b)
<1>5. h = [k \in 0..Width |-> IF k = 0 THEN 0 ELSE 2 * h[k - 1] + Bit(b, k)]
  BY <1>4 DEF IsHighest
<1> HIDE DEF h
<1>6. 0 \in 0..Width /\ \A k \in 1..Width : k \in 0..Width /\ k # 0
  BY <1>1
<1>7. h[0] = 0
  BY <1>5, <1>6, Zenon
<1>8. ASSUME NEW k \in 1..Width
      PROVE  h[k] = 2 * h[k - 1] + Bit(b, k)
  BY <1>5, <1>6, Zenon
<1> QED
  BY <1>7, <1>8 DEF h

LEMMA HighestType ==
  ASSUME NEW b, NEW k \in 0..Width
  PROVE  Highest(b)[k] \in Nat
<1> DEFINE T == {i \in 0..Width : Highest(b)[i] \notin Nat}
<1> SUFFICES ASSUME T # {}
             PROVE  FALSE
  OBVIOUS
<1>1. Width \in Nat
  BY WidthAssumption
<1>2. T \in SUBSET Nat
  BY <1>1
<1>3. PICK i \in T : \A j \in T : i <= j
  BY <1>2, LeastNumber
<1>4. i # 0
  BY <1>3, HighestSteps
<1>5. i \in 1..Width /\ i - 1 \in 0..Width /\ ~(i <= i - 1)
  BY <1>1, <1>3, <1>4
<1>6. Highest(b)[i - 1] \in Nat
  BY <1>3, <1>5
<1>7. Highest(b)[i] = 2 * Highest(b)[i - 1] + Bit(b, i) /\ Bit(b, i) \in Nat
  BY <1>5, HighestSteps DEF Bit
<1> QED
  BY <1>3, <1>6, <1>7

(* The lower bits make no difference to it.                                *)
LEMMA HighestAgree ==
  ASSUME NEW b, NEW c, NEW k \in 0..Width,
         \A i \in 1..k : Width - i \in b <=> Width - i \in c
  PROVE  Highest(b)[k] = Highest(c)[k]
<1> DEFINE T == {i \in 0..k : Highest(b)[i] # Highest(c)[i]}
<1>0. Width \in Nat /\ k \in Nat /\ k <= Width
  BY WidthAssumption
<1> SUFFICES ASSUME T # {}
             PROVE  FALSE
  BY <1>0
<1>1. T \in SUBSET Nat
  BY <1>0
<1>2. PICK i \in T : \A j \in T : i <= j
  BY <1>1, LeastNumber
<1>3. i # 0
  BY <1>2, HighestSteps
<1>4. i \in 1..k /\ i \in 1..Width /\ i - 1 \in 0..k /\ ~(i <= i - 1)
  BY <1>0, <1>2, <1>3
<1>5. Highest(b)[i - 1] = Highest(c)[i - 1]
  BY <1>2, <1>4
<1>6. Bit(b, i) = Bit(c, i)
  BY <1>4 DEF Bit
<1>7. /\ Highest(b)[i] = 2 * Highest(b)[i - 1] + Bit(b, i)
      /\ Highest(c)[i] = 2 * Highest(c)[i - 1] + Bit(c, i)
  BY <1>4, HighestSteps
<1> QED
  BY <1>2, <1>5, <1>6, <1>7

(* Every number up to the largest is the number of a byte.                 *)
LEMMA HighestReached ==
  ASSUME NEW k \in 0..Width
  PROVE  /\ k <= Highest(Bits)[k]
         /\ \A n \in 0..Highest(Bits)[k] :
              \E b \in Byte : Highest(b)[k] = n /\ \A i \in b : Width - k <= i
<1> DEFINE Good(i) == /\ i <= Highest(Bits)[i]
                      /\ \A n \in 0..Highest(Bits)[i] :
                           \E b \in Byte : Highest(b)[i] = n /\ \A j \in b : Width - i <= j
           T == {i \in 0..Width : ~Good(i)}
<1> SUFFICES ASSUME T # {}
             PROVE  FALSE
  OBVIOUS
<1>0. Width \in Nat
  BY WidthAssumption
<1>1. T \in SUBSET Nat
  BY <1>0
<1>2. PICK i \in T : \A j \in T : i <= j
  BY <1>1, LeastNumber
<1>3. i \in 0..Width /\ ~Good(i)
  BY <1>2
<1>4. CASE i = 0
  <2>1. \A b : Highest(b)[i] = 0
    BY <1>4, HighestSteps
  <2>2. {} \in Byte /\ \A j \in {} : Width - i <= j
    BY DEF Byte
  <2>3. \A n \in 0..0 : n = 0
    OBVIOUS
  <2> QED
    BY <1>3, <1>4, <2>1, <2>2, <2>3
<1>5. CASE i # 0
  <2> DEFINE M == Highest(Bits)[i - 1]
  <2>1. i \in 1..Width /\ i - 1 \in 0..Width /\ ~(i <= i - 1)
    BY <1>0, <1>3, <1>5
  <2>2. Good(i - 1)
    BY <1>2, <2>1
  <2>3. M \in Nat /\ i - 1 <= M
    BY <2>1, <2>2, HighestType
  <2>4. Width - i \in Bits
    BY <1>0, <2>1 DEF Bits
  <2>5. Highest(Bits)[i] = 2 * M + 1
    BY <2>1, <2>4, HighestSteps DEF Bit
  <2>6. ASSUME NEW n \in 0..(2 * M + 1)
        PROVE  \E b \in Byte : Highest(b)[i] = n /\ \A j \in b : Width - i <= j
    <3> DEFINE half == n \div 2
               odd == n % 2
    <3>1. half \in 0..M /\ odd \in 0..1 /\ n = 2 * half + odd
      BY <2>3
    <3> HIDE DEF half, odd
    <3>2. PICK b \in Byte :
            Highest(b)[i - 1] = half /\ \A j \in b : Width - (i - 1) <= j
      BY <2>2, <3>1
    <3> DEFINE c == IF odd = 1 THEN b \cup {Width - i} ELSE b
    <3>3. c \in Byte
      BY <2>4, <3>2 DEF Byte
    <3>4. \A j \in b : j \in Int /\ j # Width - i /\ Width - i <= j
      BY <1>0, <2>1, <3>2 DEF Byte, Bits
    <3>5. \A j \in c : Width - i <= j
      BY <1>0, <2>1, <3>4
    <3>6. \A j \in 1..(i - 1) : Width - j \in b <=> Width - j \in c
      <4>1. \A j \in 1..(i - 1) : Width - j # Width - i
        BY <1>0, <2>1
      <4> QED
        BY <4>1
    <3>7. Highest(b)[i - 1] = Highest(c)[i - 1]
      BY <2>1, <3>6, HighestAgree
    <3>8. Bit(c, i) = odd
      BY <3>1, <3>4 DEF Bit
    <3>9. Highest(c)[i] = 2 * Highest(c)[i - 1] + Bit(c, i)
      BY <2>1, HighestSteps
    <3>10. Highest(c)[i] = n
      BY <3>1, <3>2, <3>7, <3>8, <3>9
    <3> QED
      BY <3>3, <3>5, <3>10
  <2>7. i <= 2 * M + 1
    BY <2>1, <2>3
  <2> HIDE DEF M
  <2> QED
    BY <1>3, <2>5, <2>6, <2>7
<1> QED
  BY <1>4, <1>5

(* A byte that stores a number is not zero unless the number is.           *)
LEMMA StoredNumbers ==
  /\ CodeMax \in Nat /\ 2 <= CodeMax
  /\ \A b : Number(b) \in Nat
  /\ Number({}) = 0
  /\ \A n \in 0..CodeMax : ByteOf(n) \in Byte /\ Number(ByteOf(n)) = n
<1>0. Width \in Nat /\ 2 <= Width /\ Width \in 0..Width
  BY WidthAssumption
<1>1. \A b : Number(b) \in Nat
  BY <1>0, HighestType DEF Number
<1>2. CodeMax \in Nat /\ 2 <= CodeMax
  BY <1>0, <1>1, HighestReached DEF CodeMax, Number
<1>3. Number({}) = 0
  <2> DEFINE T == {k \in 0..Width : Highest({})[k] # 0}
  <2> SUFFICES ASSUME T # {}
               PROVE  FALSE
    BY <1>0 DEF Number
  <2>1. T \in SUBSET Nat
    BY <1>0
  <2>2. PICK k \in T : \A j \in T : k <= j
    BY <2>1, LeastNumber
  <2>3. k # 0
    BY <2>2, HighestSteps
  <2>4. k \in 1..Width /\ k - 1 \in 0..Width /\ ~(k <= k - 1)
    BY <1>0, <2>2, <2>3
  <2>5. Highest({})[k - 1] = 0
    BY <2>2, <2>4
  <2>6. Highest({})[k] = 2 * Highest({})[k - 1] + 0
    BY <2>4, HighestSteps DEF Bit
  <2> QED
    BY <2>2, <2>5, <2>6
<1>4. ASSUME NEW n \in 0..CodeMax
      PROVE  ByteOf(n) \in Byte /\ Number(ByteOf(n)) = n
  <2>1. n % (Number(Bits) + 1) = n
    BY <1>2 DEF CodeMax
  <2>2. \E b \in Byte : Number(b) = n
    BY <1>0, HighestReached DEF CodeMax, Number
  <2> QED
    BY <2>1, <2>2 DEF ByteOf
<1> QED
  BY <1>1, <1>2, <1>3, <1>4

-------------------------------------------------------------------------------
(* The loops over a message and over a frame, step by step.                *)
IsChecksum(cs, message, len) ==
  cs = [i \in 0..len |-> IF i = 0 THEN {} ELSE Xor(cs[i - 1], message[i])]

LEMMA ChecksumExists ==
  ASSUME NEW message, NEW len \in Nat
  PROVE  \E cs : IsChecksum(cs, message, len)
<1> DEFINE T == {k \in Nat : ~\E cs : IsChecksum(cs, message, k)}
<1> SUFFICES ASSUME T # {}
             PROVE  FALSE
  OBVIOUS
<1>1. PICK k \in T : \A j \in T : k <= j
  BY LeastNumber
<1>2. CASE k = 0
  <2>1. IsChecksum([i \in 0..0 |-> {}], message, 0)
    BY DEF IsChecksum
  <2> QED
    BY <1>2, <2>1
<1>3. CASE k # 0
  <2>1. k - 1 \in Nat /\ ~(k <= k - 1)
    BY <1>3
  <2>2. PICK cs : IsChecksum(cs, message, k - 1)
    BY <1>1, <2>1
  <2> DEFINE more == [i \in 0..k |-> IF i = k THEN Xor(cs[k - 1], message[k]) ELSE cs[i]]
  <2>3. \A i \in 0..(k - 1) : more[i] = cs[i]
    BY <1>1
  <2>4. ASSUME NEW i \in 0..k
        PROVE  more[i] = IF i = 0 THEN {} ELSE Xor(more[i - 1], message[i])
    <3>1. CASE i = k
      <4>1. more[i] = Xor(cs[k - 1], message[k]) /\ more[k - 1] = cs[k - 1]
        BY <2>1, <2>3, <3>1
      <4> QED
        BY <1>3, <3>1, <4>1
    <3>2. CASE i # k
      <4>1. i \in 0..(k - 1) /\ (i # 0 => i - 1 \in 0..(k - 1))
        BY <3>2, <1>1
      <4> HIDE DEF more
      <4>2. cs[i] = IF i = 0 THEN {} ELSE Xor(cs[i - 1], message[i])
        BY <2>2, <4>1 DEF IsChecksum
      <4> QED
        BY <2>3, <4>1, <4>2
    <3> QED
      BY <3>1, <3>2
  <2>5. IsChecksum(more, message, k)
    BY <2>4 DEF IsChecksum
  <2> QED
    BY <2>5
<1> QED
  BY <1>2, <1>3

IsEncoded(e, input, len) ==
  e = [i \in 0..len |->
         IF i = 0 THEN [output |-> <<>>, block |-> <<>>] ELSE Encoding(e[i - 1], input[i])]

LEMMA EncodedExists ==
  ASSUME NEW input, NEW len \in Nat
  PROVE  \E e : IsEncoded(e, input, len)
<1> DEFINE T == {k \in Nat : ~\E e : IsEncoded(e, input, k)}
           start == [output |-> <<>>, block |-> <<>>]
<1> SUFFICES ASSUME T # {}
             PROVE  FALSE
  OBVIOUS
<1>1. PICK k \in T : \A j \in T : k <= j
  BY LeastNumber
<1>2. CASE k = 0
  <2>1. IsEncoded([i \in 0..0 |-> start], input, 0)
    BY DEF IsEncoded
  <2> QED
    BY <1>2, <2>1
<1>3. CASE k # 0
  <2>1. k - 1 \in Nat /\ ~(k <= k - 1)
    BY <1>3
  <2>2. PICK e : IsEncoded(e, input, k - 1)
    BY <1>1, <2>1
  <2> DEFINE more == [i \in 0..k |-> IF i = k THEN Encoding(e[k - 1], input[k]) ELSE e[i]]
  <2>3. \A i \in 0..(k - 1) : more[i] = e[i]
    BY <1>1
  <2> HIDE DEF start
  <2>4. ASSUME NEW i \in 0..k
        PROVE  more[i] = IF i = 0 THEN start ELSE Encoding(more[i - 1], input[i])
    <3>1. CASE i = k
      <4>1. more[i] = Encoding(e[k - 1], input[k]) /\ more[k - 1] = e[k - 1]
        BY <2>1, <2>3, <3>1
      <4> QED
        BY <1>3, <3>1, <4>1
    <3>2. CASE i # k
      <4>1. i \in 0..(k - 1) /\ (i # 0 => i - 1 \in 0..(k - 1))
        BY <3>2, <1>1
      <4> HIDE DEF more
      <4>2. e[i] = IF i = 0 THEN start ELSE Encoding(e[i - 1], input[i])
        BY <2>2, <4>1 DEF IsEncoded, start
      <4> QED
        BY <2>3, <4>1, <4>2
    <3> QED
      BY <3>1, <3>2
  <2>5. IsEncoded(more, input, k)
    BY <2>4 DEF IsEncoded, start
  <2> QED
    BY <2>5
<1> QED
  BY <1>2, <1>3

LEMMA EncodedSteps ==
  ASSUME NEW input \in Seq(Byte)
  PROVE  /\ Encoded(input)[0] = [output |-> <<>>, block |-> <<>>]
         /\ \A i \in 1..Len(input) :
              Encoded(input)[i] = Encoding(Encoded(input)[i - 1], input[i])
<1>1. Len(input) \in Nat
  OBVIOUS
<1> DEFINE start == [output |-> <<>>, block |-> <<>>]
<1>2. \E e : IsEncoded(e, input, Len(input))
  BY <1>1, EncodedExists
<1>3. Encoded(input) = CHOOSE e : IsEncoded(e, input, Len(input))
  BY DEF Encoded, IsEncoded
<1>4. IsEncoded(Encoded(input), input, Len(input))
  BY <1>2, <1>3
<1> DEFINE e == Encoded(input)
<1>5. e = [i \in 0..Len(input) |-> IF i = 0 THEN start ELSE Encoding(e[i - 1], input[i])]
  BY <1>4 DEF IsEncoded
<1>6. 0 \in 0..Len(input) /\ \A i \in 1..Len(input) : i \in 0..Len(input) /\ i # 0
  BY <1>1
<1> HIDE DEF e, start
<1>7. e[0] = start
  BY <1>5, <1>6, Zenon
<1>8. ASSUME NEW i \in 1..Len(input)
      PROVE  e[i] = Encoding(e[i - 1], input[i])
  BY <1>5, <1>6, Zenon
<1> QED
  BY <1>7, <1>8 DEF e, start

LEMMA ChecksumIs ==
  ASSUME NEW message \in Seq(Byte)
  PROVE  \E cs : /\ Checksum(message) = cs[Len(message)]
                 /\ cs[0] = {}
                 /\ \A i \in 1..Len(message) : cs[i] = Xor(cs[i - 1], message[i])
<1>1. Len(message) \in Nat
  OBVIOUS
<1> DEFINE cs == CHOOSE c : IsChecksum(c, message, Len(message))
<1>2. IsChecksum(cs, message, Len(message))
  BY <1>1, ChecksumExists
<1>3. Checksum(message) = cs[Len(message)]
  BY DEF Checksum, IsChecksum
<1> HIDE DEF cs
<1>4. cs = [i \in 0..Len(message) |-> IF i = 0 THEN {} ELSE Xor(cs[i - 1], message[i])]
  BY <1>2 DEF IsChecksum
<1>5. 0 \in 0..Len(message) /\ \A i \in 1..Len(message) : i \in 0..Len(message) /\ i # 0
  BY <1>1
<1>6. cs[0] = {}
  BY <1>4, <1>5, Zenon
<1>7. ASSUME NEW i \in 1..Len(message)
      PROVE  cs[i] = Xor(cs[i - 1], message[i])
  BY <1>4, <1>5, Zenon
<1> QED
  BY <1>3, <1>6, <1>7

LEMMA XorType ==
  /\ \A b, c \in Byte : Xor(b, c) \in Byte
  /\ \A b \in Byte : Xor(b, b) = {}
BY DEF Xor, Byte

LEMMA ChecksumType ==
  ASSUME NEW message \in Seq(Byte)
  PROVE  Checksum(message) \in Byte
<1>1. Len(message) \in Nat /\ \A i \in 1..Len(message) : message[i] \in Byte
  OBVIOUS
<1>2. PICK cs : /\ Checksum(message) = cs[Len(message)]
                /\ cs[0] = {}
                /\ \A i \in 1..Len(message) : cs[i] = Xor(cs[i - 1], message[i])
  BY ChecksumIs
<1> DEFINE T == {i \in 0..Len(message) : cs[i] \notin Byte}
<1> SUFFICES ASSUME T # {}
             PROVE  FALSE
  BY <1>1, <1>2
<1>3. T \in SUBSET Nat
  BY <1>1
<1>4. PICK i \in T : \A j \in T : i <= j
  BY <1>3, LeastNumber
<1>5. i # 0
  BY <1>2, <1>4 DEF Byte
<1>6. i \in 1..Len(message) /\ i - 1 \in 0..Len(message) /\ ~(i <= i - 1)
  BY <1>1, <1>4, <1>5
<1>7. cs[i - 1] \in Byte
  BY <1>4, <1>6
<1>8. cs[i] \in Byte
  <2>1. cs[i] = Xor(cs[i - 1], message[i]) /\ message[i] \in Byte
    BY <1>1, <1>2, <1>6
  <2> QED
    BY <1>7, <2>1, XorType, Zenon
<1> QED
  BY <1>4, <1>8

(* One byte more, and the checksum is the exclusive or with it.            *)
LEMMA ChecksumAppend ==
  ASSUME NEW message \in Seq(Byte), NEW b \in Byte
  PROVE  Checksum(Append(message, b)) = Xor(Checksum(message), b)
<1> DEFINE longer == Append(message, b)
           n == Len(message)
<1>1. n \in Nat /\ Len(message) = n
  OBVIOUS
<1>2. /\ longer \in Seq(Byte) /\ Len(longer) = n + 1
      /\ \A i \in 1..n : longer[i] = message[i]
      /\ longer[n + 1] = b
  BY AppendProperties
<1> HIDE DEF longer, n
<1>3. PICK cs : /\ Checksum(message) = cs[n]
                /\ cs[0] = {}
                /\ \A i \in 1..n : cs[i] = Xor(cs[i - 1], message[i])
  BY <1>1, ChecksumIs
<1>4. PICK ds : /\ Checksum(longer) = ds[n + 1]
                /\ ds[0] = {}
                /\ \A i \in 1..(n + 1) : ds[i] = Xor(ds[i - 1], longer[i])
  <2>1. \E ds : /\ Checksum(longer) = ds[Len(longer)]
                /\ ds[0] = {}
                /\ \A i \in 1..Len(longer) : ds[i] = Xor(ds[i - 1], longer[i])
    BY <1>2, ChecksumIs, Zenon
  <2> QED
    BY <1>2, <2>1, Zenon
<1>5. ds[n] = cs[n]
  <2> DEFINE T == {i \in 0..n : ds[i] # cs[i]}
  <2> SUFFICES ASSUME T # {}
               PROVE  FALSE
    BY <1>1
  <2>1. T \in SUBSET Nat
    BY <1>1
  <2>2. PICK i \in T : \A j \in T : i <= j
    BY <2>1, LeastNumber
  <2>3. i # 0
    BY <1>3, <1>4, <2>2
  <2>4. i \in 1..n /\ i \in 1..(n + 1) /\ i - 1 \in 0..n /\ ~(i <= i - 1)
    BY <1>1, <2>2, <2>3
  <2>5. ds[i - 1] = cs[i - 1]
    BY <2>2, <2>4
  <2>6. ds[i] = cs[i]
    BY <1>2, <1>3, <1>4, <2>4, <2>5
  <2> QED
    BY <2>2, <2>6
<1>6. n + 1 \in 1..(n + 1) /\ (n + 1) - 1 = n
  BY <1>1
<1>7. ds[n + 1] = Xor(ds[(n + 1) - 1], longer[n + 1])
  BY <1>4, <1>6
<1> QED
  BY <1>2, <1>3, <1>4, <1>5, <1>6, <1>7 DEF longer

(* What a frame holds from one position on.                                *)
Taken(frame, from, i) ==
  LET next == i + Number(frame[i]) IN
    IF i > Len(frame) \/ next = i THEN <<>>
    ELSE IF next > Len(frame) THEN SubSeq(frame, i + 1, Len(frame))
    ELSE SubSeq(frame, i + 1, next - 1)
           \o (IF Number(frame[i]) = CodeMax THEN <<>> ELSE <<{}>>) \o from[next]

IsDecoded(f, frame, a) ==
  f = [i \in a..(Len(frame) + 1) |-> Taken(frame, f, i)]

(* Only what comes behind a position counts.                               *)
LEMMA TakenAgree ==
  ASSUME NEW frame \in Seq(Byte), NEW i \in 1..(Len(frame) + 1), NEW f, NEW g,
         \A j \in (i + 1)..Len(frame) : f[j] = g[j]
  PROVE  Taken(frame, f, i) = Taken(frame, g, i)
<1> DEFINE next == i + Number(frame[i])
<1>1. Len(frame) \in Nat /\ i \in Nat /\ Number(frame[i]) \in Nat /\ next \in Nat
  BY StoredNumbers
<1>2. CASE i > Len(frame) \/ next = i
  BY <1>2 DEF Taken
<1>3. CASE next > Len(frame)
  BY <1>3 DEF Taken
<1>4. CASE next # i /\ ~(next > Len(frame))
  <2>1. next \in (i + 1)..Len(frame)
    BY <1>1, <1>4
  <2>2. f[next] = g[next]
    BY <2>1
  <2> HIDE DEF next
  <2> QED
    BY <2>2 DEF Taken, next
<1> QED
  BY <1>2, <1>3, <1>4

LEMMA DecodedExists ==
  ASSUME NEW frame \in Seq(Byte)
  PROVE  \E f : IsDecoded(f, frame, 1)
<1> DEFINE n == Len(frame)
           T == {k \in 0..n : ~\E f : IsDecoded(f, frame, (n + 1) - k)}
<1>1. n \in Nat /\ Len(frame) = n
  OBVIOUS
<1> HIDE DEF n
<1> SUFFICES ASSUME T # {}
             PROVE  FALSE
  <2>1. n \in 0..n /\ (n + 1) - n = 1
    BY <1>1
  <2> QED
    BY <2>1
<1>2. T \in SUBSET Nat
  BY <1>1
<1>3. PICK k \in T : \A j \in T : k <= j
  BY <1>2, LeastNumber
<1>4. k \in 0..n /\ ~\E f : IsDecoded(f, frame, (n + 1) - k)
  BY <1>3
<1>5. CASE k = 0
  <2>1. IsDecoded([i \in (n + 1)..(n + 1) |-> <<>>], frame, n + 1)
    <3> DEFINE f == [i \in (n + 1)..(n + 1) |-> <<>>]
    <3>1. ASSUME NEW i \in (n + 1)..(n + 1)
          PROVE  Taken(frame, f, i) = <<>>
      BY <1>1 DEF Taken
    <3> QED
      BY <1>1, <3>1 DEF IsDecoded
  <2>2. (n + 1) - 0 = n + 1
    BY <1>1
  <2> QED
    BY <1>4, <1>5, <2>1, <2>2
<1>6. CASE k # 0
  <2> DEFINE a == (n + 1) - k
  <2>1. k - 1 \in 0..n /\ ~(k <= k - 1) /\ (n + 1) - (k - 1) = a + 1 /\ a \in 1..n
    BY <1>1, <1>4, <1>6
  <2>2. PICK f : IsDecoded(f, frame, a + 1)
    BY <1>3, <2>1
  <2> HIDE DEF a
  <2> DEFINE g == [i \in a..(n + 1) |-> IF i = a THEN Taken(frame, f, a) ELSE f[i]]
  <2>3. \A i \in (a + 1)..(n + 1) : g[i] = f[i]
    BY <1>1, <2>1
  <2>4. g[a] = Taken(frame, f, a)
    BY <1>1, <2>1
  <2>5. ASSUME NEW i \in a..(n + 1)
        PROVE  g[i] = Taken(frame, g, i)
    <3> HIDE DEF g
    <3>1. i \in 1..(Len(frame) + 1)
      BY <1>1, <2>1
    <3>2. \A j \in (i + 1)..Len(frame) : f[j] = g[j]
      BY <1>1, <2>1, <2>3
    <3>3. Taken(frame, f, i) = Taken(frame, g, i)
      BY <3>1, <3>2, TakenAgree
    <3>4. CASE i = a
      BY <2>4, <3>3, <3>4
    <3>5. CASE i # a
      <4>1. i \in (a + 1)..(n + 1) /\ i \in (a + 1)..(Len(frame) + 1)
        BY <1>1, <2>1, <3>5
      <4>2. f[i] = Taken(frame, f, i)
        BY <2>2, <4>1 DEF IsDecoded
      <4> QED
        BY <2>3, <3>3, <4>1, <4>2
    <3> QED
      BY <3>4, <3>5
  <2>6. IsDecoded(g, frame, a)
    BY <1>1, <2>5 DEF IsDecoded
  <2> QED
    BY <1>4, <2>6 DEF a
<1> QED
  BY <1>5, <1>6

LEMMA DecodedSteps ==
  ASSUME NEW frame \in Seq(Byte), NEW i \in 1..(Len(frame) + 1)
  PROVE  DecodedFrom(frame)[i] = Taken(frame, DecodedFrom(frame), i)
<1>1. \E f : IsDecoded(f, frame, 1)
  BY DecodedExists
<1>2. DecodedFrom(frame) = CHOOSE f : IsDecoded(f, frame, 1)
  BY DEF DecodedFrom, IsDecoded, Taken
<1>3. IsDecoded(DecodedFrom(frame), frame, 1)
  BY <1>1, <1>2
<1> DEFINE f == DecodedFrom(frame)
<1>4. f = [j \in 1..(Len(frame) + 1) |-> Taken(frame, f, j)]
  BY <1>3 DEF IsDecoded
<1> HIDE DEF f
<1>5. f[i] = Taken(frame, f, i)
  BY <1>4, Zenon
<1> QED
  BY <1>5 DEF f

LEMMA DecodedType ==
  ASSUME NEW frame \in Seq(Byte), NEW i \in 1..(Len(frame) + 1)
  PROVE  DecodedFrom(frame)[i] \in Seq(Byte)
<1> DEFINE n == Len(frame)
           T == {k \in 0..n : DecodedFrom(frame)[(n + 1) - k] \notin Seq(Byte)}
<1>1. n \in Nat /\ Len(frame) = n /\ i \in 1..(n + 1)
  OBVIOUS
<1> HIDE DEF n
<1> SUFFICES ASSUME T # {}
             PROVE  FALSE
  <2>1. (n + 1) - i \in 0..n /\ (n + 1) - ((n + 1) - i) = i
    BY <1>1
  <2> QED
    BY <2>1
<1>2. T \in SUBSET Nat
  BY <1>1
<1>3. PICK k \in T : \A j \in T : k <= j
  BY <1>2, LeastNumber
<1> DEFINE a == (n + 1) - k
           next == a + Number(frame[a])
<1>4. /\ k \in 0..n /\ a \in 1..(n + 1) /\ a \in 1..(Len(frame) + 1)
      /\ DecodedFrom(frame)[a] \notin Seq(Byte)
  BY <1>1, <1>3
<1>5. DecodedFrom(frame)[a] = Taken(frame, DecodedFrom(frame), a)
  BY <1>4, DecodedSteps
<1>6. next \in Nat /\ next >= a
  <2>1. Number(frame[a]) \in Nat /\ a \in Nat
    BY <1>1, <1>4, StoredNumbers
  <2> QED
    BY <2>1
<1>7. \A x, y \in 1..(n + 1) : SubSeq(frame, x, y - 1) \in Seq(Byte)
  <2> SUFFICES ASSUME NEW x \in 1..(n + 1), NEW y \in 1..(n + 1)
               PROVE  SubSeq(frame, x, y - 1) \in Seq(Byte)
    OBVIOUS
  <2>1. \A j \in x..(y - 1) : frame[j] \in Byte
    BY <1>1
  <2>2. x \in Int /\ y - 1 \in Int
    BY <1>1
  <2> QED
    BY <2>1, <2>2, SubSeqProperties
<1> HIDE DEF a
<1>8. CASE a > Len(frame) \/ next = a
  <2>1. <<>> \in Seq(Byte)
    OBVIOUS
  <2> QED
    BY <1>4, <1>5, <1>8, <2>1 DEF Taken
<1>9. CASE ~(a > Len(frame) \/ next = a) /\ next > Len(frame)
  <2>1. a + 1 \in 1..(n + 1) /\ n + 1 \in 1..(n + 1) /\ (n + 1) - 1 = Len(frame)
    BY <1>1, <1>4, <1>9
  <2>2. SubSeq(frame, a + 1, Len(frame)) \in Seq(Byte)
    BY <1>7, <2>1
  <2> QED
    BY <1>4, <1>5, <1>9, <2>2 DEF Taken
<1>10. CASE ~(a > Len(frame) \/ next = a) /\ ~(next > Len(frame))
  <2> DEFINE zero == IF Number(frame[a]) = CodeMax THEN <<>> ELSE <<{}>>
  <2>1. a + 1 \in 1..(n + 1) /\ next \in 1..(n + 1) /\ next > a
    BY <1>1, <1>4, <1>6, <1>10
  <2>2. SubSeq(frame, a + 1, next - 1) \in Seq(Byte)
    BY <1>7, <2>1
  <2>3. DecodedFrom(frame)[next] \in Seq(Byte)
    <3>1. (n + 1) - next \in 0..n /\ ~(k <= (n + 1) - next) /\ (n + 1) - ((n + 1) - next) = next
      BY <1>1, <1>3, <1>4, <1>6, <1>10, <2>1 DEF a
    <3> QED
      BY <1>3, <3>1
  <2>4. zero \in Seq(Byte)
    <3>1. {} \in Byte
      BY DEF Byte
    <3>2. <<{}>> \in Seq(Byte) /\ <<>> \in Seq(Byte)
      BY <3>1
    <3> QED
      BY <3>2
  <2>5. DecodedFrom(frame)[a] =
          SubSeq(frame, a + 1, next - 1) \o zero \o DecodedFrom(frame)[next]
    BY <1>5, <1>10 DEF Taken
  <2> HIDE DEF zero, next
  <2>6. SubSeq(frame, a + 1, next - 1) \o zero \in Seq(Byte)
    BY <2>2, <2>4, ConcatProperties
  <2>7. DecodedFrom(frame)[a] \in Seq(Byte)
    BY <2>3, <2>5, <2>6, ConcatProperties
  <2> QED
    BY <1>4, <2>7
<1> QED
  BY <1>8, <1>9, <1>10

-------------------------------------------------------------------------------
(* What the blocks of a frame are taken apart to.                          *)
Zero(code) == IF code = CodeMax THEN <<>> ELSE <<{}>>

LEMMA ZeroType == \A code : Zero(code) \in Seq(Byte)
<1>1. {} \in Byte
  BY DEF Byte
<1>2. <<{}>> \in Seq(Byte) /\ <<>> \in Seq(Byte)
  BY <1>1
<1> QED
  BY <1>2 DEF Zero

Joined(s, t) ==
  /\ s \o t \in Seq(Byte)
  /\ Len(s \o t) = Len(s) + Len(t)
  /\ \A k \in 1..(Len(s) + Len(t)) : (s \o t)[k] = IF k <= Len(s) THEN s[k] ELSE t[k - Len(s)]

LEMMA JoinedParts == \A s, t \in Seq(Byte) : Joined(s, t)
BY ConcatProperties DEF Joined

LEMMA BlockElements ==
  ASSUME NEW bytes \in Seq(Byte), Len(bytes) + 1 <= CodeMax
  PROVE  /\ Block(bytes) \in Seq(Byte)
         /\ Len(Block(bytes)) = Len(bytes) + 1
         /\ Number(Block(bytes)[1]) = Len(bytes) + 1
         /\ Block(bytes)[1] # {}
         /\ \A k \in 1..Len(bytes) : Block(bytes)[k + 1] = bytes[k]
<1> DEFINE code == <<ByteOf(Len(bytes) + 1)>>
           n == Len(bytes)
<1>1. n \in Nat /\ Len(bytes) = n
  OBVIOUS
<1>2. n + 1 \in 0..CodeMax
  BY <1>1, StoredNumbers
<1>3. ByteOf(n + 1) \in Byte /\ Number(ByteOf(n + 1)) = n + 1
  BY <1>2, StoredNumbers
<1>4. ByteOf(n + 1) # {}
  <2> SUFFICES ASSUME ByteOf(n + 1) = {}
               PROVE  FALSE
    OBVIOUS
  <2>1. n + 1 = 0
    BY <1>3, StoredNumbers
  <2> QED
    BY <1>1, <2>1
<1>5. code \in Seq(Byte) /\ Len(code) = 1 /\ code[1] = ByteOf(n + 1)
  BY <1>3
<1> HIDE DEF code, n
<1>6. /\ code \o bytes \in Seq(Byte)
      /\ Len(code \o bytes) = 1 + n
      /\ \A k \in 1..(1 + n) :
           (code \o bytes)[k] = IF k <= 1 THEN code[k] ELSE bytes[k - 1]
  <2>1. Joined(code, bytes)
    BY <1>5, JoinedParts
  <2> QED
    BY <1>1, <1>5, <2>1, Zenon DEF Joined
<1>7. 1 \in 1..(1 + n) /\ 1 <= 1 /\ 1 + n = n + 1
  BY <1>1
<1>8. (code \o bytes)[1] = ByteOf(n + 1)
  BY <1>5, <1>6, <1>7
<1>9. ASSUME NEW k \in 1..n
      PROVE  (code \o bytes)[k + 1] = bytes[k]
  <2>1. k + 1 \in 1..(1 + n) /\ ~(k + 1 <= 1) /\ (k + 1) - 1 = k
    BY <1>1
  <2> QED
    BY <1>6, <2>1
<1>10. Block(bytes) = code \o bytes
  BY DEF Block, code, n
<1> QED
  BY <1>1, <1>3, <1>4, <1>6, <1>7, <1>8, <1>9, <1>10

Starts(frame, s) ==
  Len(s) <= Len(frame) /\ \A k \in 1..Len(s) : frame[k] = s[k]

(* The block behind the ones of out, in the middle of a frame and at its   *)
(* end.                                                                    *)
BlockAt(frame, out, bytes) ==
  LET q == Len(out) + 1
      next == q + Len(bytes) + 1
  IN  /\ q \in Nat /\ next \in Nat /\ 1 <= q /\ q < next /\ next <= Len(frame) + 1
      /\ out \o Block(bytes) \in Seq(Byte)
      /\ Len(out \o Block(bytes)) + 1 = next
      /\ next <= Len(frame) =>
           DecodedFrom(frame)[q] =
             (bytes \o Zero(Len(bytes) + 1)) \o DecodedFrom(frame)[next]
      /\ next = Len(frame) + 1 => DecodedFrom(frame)[q] = bytes

LEMMA BlockDecodes ==
  ASSUME NEW out \in Seq(Byte), NEW bytes \in Seq(Byte), NEW frame \in Seq(Byte),
         Len(bytes) + 1 <= CodeMax, Starts(frame, out \o Block(bytes))
  PROVE  BlockAt(frame, out, bytes)
<1> DEFINE q == Len(out) + 1
           next == q + Len(bytes) + 1
<1> DEFINE n == Len(bytes)
           m == Len(out)
           end == Len(frame)
           block == Block(bytes)
           both == out \o block
<1>1. /\ n \in Nat /\ Len(bytes) = n /\ m \in Nat /\ Len(out) = m
      /\ end \in Nat /\ Len(frame) = end
  OBVIOUS
<1>2. /\ block \in Seq(Byte)
      /\ Len(block) = n + 1
      /\ Number(block[1]) = n + 1
      /\ \A k \in 1..n : block[k + 1] = bytes[k]
  BY BlockElements
<1>0. q = m + 1 /\ next = m + n + 2
  BY <1>1
<1> HIDE DEF n, m, end, block, q, next
<1>3. /\ both \in Seq(Byte)
      /\ Len(both) = m + (n + 1)
      /\ \A k \in 1..(m + (n + 1)) :
           both[k] = IF k <= m THEN out[k] ELSE block[k - m]
  <2>1. /\ both \in Seq(Byte)
        /\ Len(both) = Len(out) + Len(block)
        /\ \A k \in 1..(Len(out) + Len(block)) :
             both[k] = IF k <= Len(out) THEN out[k] ELSE block[k - Len(out)]
    BY <1>2, ConcatProperties
  <2> HIDE DEF both
  <2>2. Len(out) + Len(block) = m + (n + 1)
    BY <1>1, <1>2
  <2> QED
    BY <1>1, <2>1, <2>2
<1>4. /\ m + (n + 1) <= end
      /\ \A k \in 1..(m + (n + 1)) : frame[k] = both[k]
  BY <1>1, <1>3 DEF Starts, block
<1>5. /\ q = m + 1 /\ next = m + n + 2
      /\ q \in Nat /\ next \in Nat /\ 1 <= q /\ q < next /\ next <= end + 1
      /\ q + (n + 1) = next /\ next # q /\ ~(q > end)
      /\ q \in 1..(m + (n + 1)) /\ ~(q <= m) /\ q - m = 1
      /\ q \in 1..(end + 1)
  BY <1>0, <1>1, <1>4
<1>6. Number(frame[q]) = n + 1
  <2>1. frame[q] = both[q]
    BY <1>4, <1>5
  <2>2. both[q] = block[1]
    BY <1>3, <1>5
  <2> QED
    BY <1>2, <2>1, <2>2
<1> HIDE DEF both
<1>7. SubSeq(frame, q + 1, next - 1) = bytes
  <2>1. /\ q + 1 \in Int /\ next - 1 \in Int
        /\ (next - 1) - (q + 1) + 1 = n
        /\ (IF q + 1 <= next - 1 THEN (next - 1) - (q + 1) + 1 ELSE 0) = n
    BY <1>1, <1>5
  <2>2. \A k \in (q + 1)..(next - 1) : k \in 1..end
    BY <1>1, <1>5
  <2>3. \A k \in (q + 1)..(next - 1) : frame[k] \in Byte
    <3>1. \A k \in 1..end : frame[k] \in Byte
      BY <1>1, ElementOfSeq
    <3> QED
      BY <2>2, <3>1
  <2>4. /\ SubSeq(frame, q + 1, next - 1) \in Seq(Byte)
        /\ Len(SubSeq(frame, q + 1, next - 1)) = n
        /\ \A k \in 1..n : SubSeq(frame, q + 1, next - 1)[k] = frame[(q + 1) + k - 1]
    BY <2>1, <2>3, SubSeqProperties
  <2>5. ASSUME NEW k \in 1..n
        PROVE  SubSeq(frame, q + 1, next - 1)[k] = bytes[k]
    <3>1. /\ (q + 1) + k - 1 = q + k /\ q + k \in 1..(m + (n + 1))
          /\ ~(q + k <= m) /\ (q + k) - m = k + 1
      BY <1>1, <1>5
    <3>2. both[q + k] = block[k + 1]
      BY <1>3, <3>1 DEF both
    <3> QED
      BY <1>2, <1>4, <2>4, <3>1, <3>2
  <2> DEFINE part == SubSeq(frame, q + 1, next - 1)
  <2>6. part \in Seq(Byte) /\ Len(part) = Len(bytes) /\ \A k \in 1..Len(part) : part[k] = bytes[k]
    BY <1>1, <2>4, <2>5
  <2> HIDE DEF part
  <2>7. part = bytes
    BY <2>6, SeqEqual
  <2> QED
    BY <2>7 DEF part
<1>8. DecodedFrom(frame)[q] = Taken(frame, DecodedFrom(frame), q)
  BY <1>1, <1>5, DecodedSteps
<1>9. ASSUME next <= end
      PROVE  DecodedFrom(frame)[q] = (bytes \o Zero(n + 1)) \o DecodedFrom(frame)[next]
  <2>1. ~(next > end)
    BY <1>1, <1>5, <1>9
  <2> QED
    BY <1>1, <1>5, <1>6, <1>7, <1>8, <2>1 DEF Taken, Zero
<1>10. ASSUME next = end + 1
       PROVE  DecodedFrom(frame)[q] = bytes
  <2>1. next > end /\ next - 1 = end
    BY <1>1, <1>10
  <2> QED
    BY <1>1, <1>5, <1>6, <1>7, <1>8, <2>1 DEF Taken
<1>11. Len(both) + 1 = next
  BY <1>1, <1>3, <1>5
<1> QED
  <2>1. /\ q \in Nat /\ next \in Nat /\ 1 <= q /\ q < next /\ next <= Len(frame) + 1
        /\ both \in Seq(Byte)
        /\ Len(both) + 1 = next
        /\ next <= Len(frame) =>
             DecodedFrom(frame)[q] = (bytes \o Zero(Len(bytes) + 1)) \o DecodedFrom(frame)[next]
        /\ next = Len(frame) + 1 => DecodedFrom(frame)[q] = bytes
    BY <1>1, <1>3, <1>5, <1>9, <1>10, <1>11
  <2> QED
    BY <2>1, Zenon DEF BlockAt, both, block, q, next

(* Whatever follows the blocks of out, they are taken apart to data.       *)
Leads(out, data) ==
  \A frame \in Seq(Byte) :
    Starts(frame, out) /\ Len(out) < Len(frame) =>
      DecodedFrom(frame)[1] = data \o DecodedFrom(frame)[Len(out) + 1]

LEMMA LeadsNowhere == Leads(<<>>, <<>>)
<1> SUFFICES ASSUME NEW frame \in Seq(Byte), 0 < Len(frame)
             PROVE  DecodedFrom(frame)[1] = <<>> \o DecodedFrom(frame)[0 + 1]
  BY DEF Leads
<1>1. 1 \in 1..(Len(frame) + 1) /\ 0 + 1 = 1
  OBVIOUS
<1>2. DecodedFrom(frame)[1] \in Seq(Byte)
  BY <1>1, DecodedType
<1> QED
  BY <1>1, <1>2, ConcatEmptySeq

(* A frame that starts with a sequence starts with a part of it.           *)
LEMMA StartsWithPart ==
  ASSUME NEW out \in Seq(Byte), NEW more \in Seq(Byte), NEW frame \in Seq(Byte),
         more # <<>>, Starts(frame, out \o more)
  PROVE  Starts(frame, out) /\ Len(out) < Len(frame)
<1> DEFINE both == out \o more
<1>1. /\ Len(out) \in Nat /\ Len(more) \in Nat /\ Len(more) # 0 /\ Len(frame) \in Nat
  BY EmptySeq
<1>2. /\ Len(both) = Len(out) + Len(more)
      /\ \A k \in 1..(Len(out) + Len(more)) :
           both[k] = IF k <= Len(out) THEN out[k] ELSE more[k - Len(out)]
  BY ConcatProperties
<1>3. Len(both) <= Len(frame) /\ \A k \in 1..Len(both) : frame[k] = both[k]
  BY DEF Starts
<1> HIDE DEF both
<1>4. ASSUME NEW k \in 1..Len(out)
      PROVE  frame[k] = out[k]
  <2>1. k \in 1..(Len(out) + Len(more)) /\ k <= Len(out)
    BY <1>1
  <2> QED
    BY <1>2, <1>3, <2>1
<1>5. Len(out) < Len(frame) /\ Len(out) <= Len(frame)
  BY <1>1, <1>2, <1>3
<1> QED
  BY <1>4, <1>5 DEF Starts

Associates(s, t, u) == (s \o t) \o u = s \o (t \o u)

LEMMA ThreeParts ==
  \A s, t, u \in Seq(Byte) : Associates(s, t, u)
<1> SUFFICES ASSUME NEW s \in Seq(Byte), NEW t \in Seq(Byte), NEW u \in Seq(Byte)
             PROVE  (s \o t) \o u = s \o (t \o u)
  BY DEF Associates
<1> DEFINE n == Len(s)
           m == Len(t)
           p == Len(u)
           st == s \o t
           tu == t \o u
           left == st \o u
           right == s \o tu
<1>1. n \in Nat /\ m \in Nat /\ p \in Nat /\ Len(s) = n /\ Len(t) = m /\ Len(u) = p
  OBVIOUS
<1>2. /\ st \in Seq(Byte) /\ Len(st) = Len(s) + Len(t)
      /\ \A k \in 1..(Len(s) + Len(t)) : st[k] = IF k <= Len(s) THEN s[k] ELSE t[k - Len(s)]
  BY JoinedParts, Zenon DEF Joined
<1>3. /\ tu \in Seq(Byte) /\ Len(tu) = Len(t) + Len(u)
      /\ \A k \in 1..(Len(t) + Len(u)) : tu[k] = IF k <= Len(t) THEN t[k] ELSE u[k - Len(t)]
  BY JoinedParts, Zenon DEF Joined
<1> HIDE DEF st, tu
<1>4. /\ left \in Seq(Byte) /\ Len(left) = Len(st) + Len(u)
      /\ \A k \in 1..(Len(st) + Len(u)) : left[k] = IF k <= Len(st) THEN st[k] ELSE u[k - Len(st)]
  BY <1>2, JoinedParts, Zenon DEF Joined
<1>5. /\ right \in Seq(Byte) /\ Len(right) = Len(s) + Len(tu)
      /\ \A k \in 1..(Len(s) + Len(tu)) : right[k] = IF k <= Len(s) THEN s[k] ELSE tu[k - Len(s)]
  BY <1>3, JoinedParts, Zenon DEF Joined
<1> HIDE DEF n, m, p, left, right
<1>6. Len(left) = n + m + p /\ Len(right) = n + m + p
  BY <1>1, <1>2, <1>3, <1>4, <1>5
<1>7. ASSUME NEW k \in 1..(n + m + p)
      PROVE  left[k] = right[k]
  <2>1. CASE k <= n
    BY <1>1, <1>2, <1>3, <1>4, <1>5, <2>1
  <2>2. CASE n < k /\ k <= n + m
    <3>1. k - n \in 1..(m + p) /\ k - n <= m
      BY <1>1, <2>2
    <3> QED
      BY <1>1, <1>2, <1>3, <1>4, <1>5, <2>2, <3>1
  <2>3. CASE n + m < k
    <3>1. k - n \in 1..(m + p) /\ ~(k - n <= m) /\ k - (n + m) = (k - n) - m
      BY <1>1, <2>3
    <3> QED
      BY <1>1, <1>2, <1>3, <1>4, <1>5, <2>3, <3>1
  <2> QED
    BY <1>1, <2>1, <2>2, <2>3
<1>8. left = right
  BY <1>4, <1>5, <1>6, <1>7, SeqEqual
<1> QED
  BY <1>8 DEF left, right, st, tu

LEMMA LeadsFurther ==
  ASSUME NEW out \in Seq(Byte), NEW bytes \in Seq(Byte), NEW data \in Seq(Byte),
         Len(bytes) + 1 <= CodeMax, Leads(out, data)
  PROVE  Leads(out \o Block(bytes), data \o (bytes \o Zero(Len(bytes) + 1)))
<1> DEFINE zero == Zero(Len(bytes) + 1)
           both == out \o Block(bytes)
<1> SUFFICES ASSUME NEW frame \in Seq(Byte), Starts(frame, both), Len(both) < Len(frame)
             PROVE  DecodedFrom(frame)[1] =
                      (data \o (bytes \o zero)) \o DecodedFrom(frame)[Len(both) + 1]
  BY DEF Leads
<1>1. Block(bytes) \in Seq(Byte) /\ Block(bytes) # <<>>
  <2>1. Block(bytes) \in Seq(Byte) /\ Len(Block(bytes)) = Len(bytes) + 1
    BY BlockElements
  <2>2. Len(bytes) + 1 # 0
    BY LenProperties
  <2> QED
    BY <2>1, <2>2, EmptySeq
<1>2. Starts(frame, out) /\ Len(out) < Len(frame)
  BY <1>1, StartsWithPart
<1>3. DecodedFrom(frame)[1] = data \o DecodedFrom(frame)[Len(out) + 1]
  BY <1>2 DEF Leads
<1> DEFINE q == Len(out) + 1
           next == q + Len(bytes) + 1
<1>4. /\ next \in Nat /\ 1 <= next /\ next <= Len(frame) + 1
      /\ Len(both) + 1 = next /\ both \in Seq(Byte)
      /\ next <= Len(frame) =>
           DecodedFrom(frame)[q] = (bytes \o zero) \o DecodedFrom(frame)[next]
  <2>1. /\ q \in Nat /\ next \in Nat /\ 1 <= q /\ q < next /\ next <= Len(frame) + 1
        /\ both \in Seq(Byte) /\ Len(both) + 1 = next
        /\ next <= Len(frame) =>
             DecodedFrom(frame)[q] = (bytes \o zero) \o DecodedFrom(frame)[next]
    <3>1. BlockAt(frame, out, bytes)
      BY BlockDecodes
    <3> QED
      BY <3>1, Zenon DEF BlockAt
  <2>2. 1 <= next
    BY <2>1
  <2> QED
    BY <2>1, <2>2, Zenon
<1>a. DecodedFrom(frame)[1] = data \o DecodedFrom(frame)[q]
  BY <1>3
<1> HIDE DEF next, both, q
<1>5. Len(both) \in Nat /\ Len(frame) \in Nat
  BY <1>4
<1>6. next <= Len(frame) /\ next \in 1..(Len(frame) + 1)
  BY <1>4, <1>5
<1>7. DecodedFrom(frame)[next] \in Seq(Byte)
  BY <1>6, DecodedType
<1>8. zero \in Seq(Byte) /\ bytes \o zero \in Seq(Byte)
  BY ZeroType, ConcatProperties
<1>9. DecodedFrom(frame)[1] = data \o ((bytes \o zero) \o DecodedFrom(frame)[next])
  BY <1>a, <1>4, <1>6
<1> HIDE DEF zero
<1> DEFINE here == bytes \o zero
           rest == DecodedFrom(frame)[next]
<1>10. here \in Seq(Byte) /\ rest \in Seq(Byte)
  BY <1>7, <1>8
<1> HIDE DEF here, rest
<1>11. (data \o here) \o rest = data \o (here \o rest)
  <2>1. Associates(data, here, rest)
    BY <1>10, ThreeParts
  <2> QED
    BY <2>1, Zenon DEF Associates
<1> QED
  BY <1>4, <1>9, <1>11 DEF here, rest

LEMMA LeadsToEnd ==
  ASSUME NEW out \in Seq(Byte), NEW bytes \in Seq(Byte), NEW data \in Seq(Byte),
         Len(bytes) + 1 <= CodeMax, Leads(out, data)
  PROVE  /\ out \o Block(bytes) \in Seq(Byte)
         /\ Decoded(out \o Block(bytes)) = data \o bytes
<1> DEFINE frame == out \o Block(bytes)
<1>1. Block(bytes) \in Seq(Byte) /\ Block(bytes) # <<>>
  <2>1. Block(bytes) \in Seq(Byte) /\ Len(Block(bytes)) = Len(bytes) + 1
    BY BlockElements
  <2>2. Len(bytes) + 1 # 0
    BY LenProperties
  <2> QED
    BY <2>1, <2>2, EmptySeq
<1>2. frame \in Seq(Byte)
  BY <1>1, ConcatProperties
<1>3. Starts(frame, frame)
  BY <1>2, LenProperties DEF Starts
<1>4. Starts(frame, out) /\ Len(out) < Len(frame)
  BY <1>1, <1>2, <1>3, StartsWithPart
<1>5. DecodedFrom(frame)[1] = data \o DecodedFrom(frame)[Len(out) + 1]
  BY <1>2, <1>4 DEF Leads
<1>6. DecodedFrom(frame)[Len(out) + 1] = bytes
  <2> DEFINE q == Len(out) + 1
             next == q + Len(bytes) + 1
  <2>1. /\ Len(frame) + 1 = next
        /\ next = Len(frame) + 1 => DecodedFrom(frame)[q] = bytes
    <3>1. BlockAt(frame, out, bytes)
      BY <1>2, <1>3, BlockDecodes
    <3> QED
      BY <3>1, Zenon DEF BlockAt
  <2> QED
    BY <2>1
<1> QED
  BY <1>2, <1>5, <1>6 DEF Decoded

-------------------------------------------------------------------------------
(* The loop of cobsEncode(): what is written leads to the data taken in.   *)
NoZero(s) == \A k \in 1..Len(s) : s[k] # {}

LEMMA AppendJoins == \A s \in Seq(Byte), b \in Byte :
  /\ <<b>> \in Seq(Byte) /\ Len(<<b>>) = 1 /\ <<b>>[1] = b
  /\ Append(s, b) = s \o <<b>>
<1> SUFFICES ASSUME NEW s \in Seq(Byte), NEW b \in Byte
             PROVE  /\ <<b>> \in Seq(Byte) /\ Len(<<b>>) = 1 /\ <<b>>[1] = b
                    /\ Append(s, b) = s \o <<b>>
  OBVIOUS
<1>1. <<b>> \in Seq(Byte) /\ Len(<<b>>) = 1 /\ <<b>>[1] = b
  OBVIOUS
<1>2. Append(s, b) = s \o <<b>>
  BY AppendIsConcat
<1> QED
  BY <1>1, <1>2

LEMMA EmptyJoins ==
  /\ <<>> \in Seq(Byte) /\ Len(<<>>) = 0 /\ NoZero(<<>>)
  /\ \A s \in Seq(Byte) : s \o <<>> = s
<1>1. <<>> \in Seq(Byte) /\ Len(<<>>) = 0
  OBVIOUS
<1>2. NoZero(<<>>)
  BY <1>1 DEF NoZero
<1>3. \A s \in Seq(Byte) : s \o <<>> = s
  BY ConcatEmptySeq
<1> QED
  BY <1>1, <1>2, <1>3

LEMMA NoZeroJoins ==
  ASSUME NEW s \in Seq(Byte), NEW t \in Seq(Byte), NoZero(s), NoZero(t)
  PROVE  NoZero(s \o t)
<1> DEFINE both == s \o t
           n == Len(s)
           m == Len(t)
<1>1. n \in Nat /\ m \in Nat /\ Len(s) = n /\ Len(t) = m
  OBVIOUS
<1>2. /\ Len(both) = Len(s) + Len(t)
      /\ \A k \in 1..(Len(s) + Len(t)) : both[k] = IF k <= Len(s) THEN s[k] ELSE t[k - Len(s)]
  BY JoinedParts, Zenon DEF Joined
<1> HIDE DEF both, n, m
<1>3. ASSUME NEW k \in 1..(n + m)
      PROVE  both[k] # {}
  <2>1. CASE k <= n
    BY <1>1, <1>2, <2>1 DEF NoZero
  <2>2. CASE ~(k <= n)
    <3>1. k - n \in 1..m
      BY <1>1, <2>2
    <3> QED
      BY <1>1, <1>2, <2>2, <3>1 DEF NoZero
  <2> QED
    BY <2>1, <2>2
<1> QED
  BY <1>1, <1>2, <1>3 DEF NoZero, both

LEMMA NoZeroBlock ==
  ASSUME NEW bytes \in Seq(Byte), Len(bytes) + 1 <= CodeMax, NoZero(bytes)
  PROVE  NoZero(Block(bytes))
<1> DEFINE n == Len(bytes)
           block == Block(bytes)
<1>1. n \in Nat /\ Len(bytes) = n
  OBVIOUS
<1>2. /\ Len(block) = n + 1 /\ block[1] # {}
      /\ \A k \in 1..n : block[k + 1] = bytes[k]
  BY <1>1, BlockElements
<1> HIDE DEF block, n
<1>3. ASSUME NEW k \in 1..(n + 1)
      PROVE  block[k] # {}
  <2>1. CASE k = 1
    BY <1>2, <2>1
  <2>2. CASE k # 1
    <3>1. k - 1 \in 1..n /\ (k - 1) + 1 = k
      BY <1>1, <2>2
    <3> QED
      BY <1>1, <1>2, <3>1 DEF NoZero
  <2> QED
    BY <2>1, <2>2
<1> QED
  BY <1>2, <1>3 DEF NoZero, block

(* Between two steps, when the bytes of taken have been encoded.           *)
Stage(done, taken) ==
  /\ done.output \in Seq(Byte) /\ done.block \in Seq(Byte)
  /\ Len(done.block) + 1 < CodeMax
  /\ NoZero(done.output) /\ NoZero(done.block)
  /\ \E data \in Seq(Byte) : data \o done.block = taken /\ Leads(done.output, data)

LEMMA StageStarts == Stage([output |-> <<>>, block |-> <<>>], <<>>)
<1> DEFINE done == [output |-> <<>>, block |-> <<>>]
<1>1. done.output = <<>> /\ done.block = <<>>
  OBVIOUS
<1> HIDE DEF done
<1>2. Len(<<>>) + 1 < CodeMax
  BY EmptyJoins, StoredNumbers
<1>3. <<>> \o <<>> = <<>> /\ Leads(<<>>, <<>>)
  BY EmptyJoins, LeadsNowhere
<1>4. Stage(done, <<>>)
  BY <1>1, <1>2, <1>3, EmptyJoins DEF Stage
<1> QED
  BY <1>4 DEF done

LEMMA StageSteps ==
  ASSUME NEW done, NEW taken \in Seq(Byte), NEW b \in Byte, Stage(done, taken)
  PROVE  Stage(Encoding(done, b), Append(taken, b))
<1> DEFINE out == done.output
           block == done.block
           longer == Append(block, b)
           next == Encoding(done, b)
<1>1. /\ out \in Seq(Byte) /\ block \in Seq(Byte)
      /\ Len(block) + 1 < CodeMax
      /\ NoZero(out) /\ NoZero(block)
  BY DEF Stage
<1>2. PICK data \in Seq(Byte) : data \o block = taken /\ Leads(out, data)
  BY DEF Stage
<1>3. /\ <<b>> \in Seq(Byte)
      /\ longer = block \o <<b>> /\ Append(taken, b) = taken \o <<b>>
  BY <1>1, AppendJoins
<1>4. longer \in Seq(Byte) /\ Len(longer) = Len(block) + 1
  BY <1>1, AppendProperties
<1>5. /\ data \o longer \in Seq(Byte)
      /\ data \o longer = Append(taken, b)
  <2>1. (data \o block) \o <<b>> = data \o (block \o <<b>>)
    <3>1. Associates(data, block, <<b>>)
      BY <1>1, <1>3, ThreeParts
    <3> QED
      BY <3>1, Zenon DEF Associates
  <2>2. data \o longer \in Seq(Byte)
    BY <1>4, JoinedParts, Zenon DEF Joined
  <2> QED
    BY <1>2, <1>3, <2>1, <2>2, Zenon
<1>6. CodeMax \in Nat /\ Len(block) \in Nat /\ Len(longer) \in Nat
  BY <1>1, <1>4, StoredNumbers, LenProperties
<1>7. b # {} => NoZero(longer)
  <2> SUFFICES ASSUME b # {} PROVE NoZero(longer)
    OBVIOUS
  <2>1. NoZero(<<b>>)
    BY AppendJoins DEF NoZero
  <2> QED
    BY <1>1, <1>3, <2>1, NoZeroJoins
<1>8. CASE b = {}
  <2> DEFINE written == out \o Block(block)
  <2>1. next.output = written /\ next.block = <<>>
    BY <1>8 DEF Encoding
  <2>2. Len(block) + 1 <= CodeMax /\ Len(block) + 1 # CodeMax
    BY <1>1, <1>6
  <2>3. Leads(written, data \o longer)
    <3>1. Zero(Len(block) + 1) = <<b>>
      BY <1>8, <2>2 DEF Zero
    <3>2. Leads(written, data \o (block \o Zero(Len(block) + 1)))
      BY <1>1, <1>2, <2>2, LeadsFurther
    <3> QED
      BY <1>3, <3>1, <3>2, Zenon
  <2>4. written \in Seq(Byte) /\ NoZero(written)
    <3>1. Block(block) \in Seq(Byte) /\ NoZero(Block(block))
      BY <1>1, <2>2, BlockElements, NoZeroBlock
    <3>2. written \in Seq(Byte)
      BY <1>1, <3>1, JoinedParts, Zenon DEF Joined
    <3> QED
      BY <1>1, <3>1, <3>2, NoZeroJoins
  <2> HIDE DEF written, longer, next
  <2>5. (data \o longer) \o <<>> = Append(taken, b)
    BY <1>5, EmptyJoins
  <2>6. Len(<<>>) + 1 < CodeMax
    BY EmptyJoins, StoredNumbers
  <2>7. Stage(next, Append(taken, b))
    BY <1>5, <2>1, <2>3, <2>4, <2>5, <2>6, EmptyJoins, Zenon DEF Stage
  <2> QED
    BY <2>7 DEF next
<1>9. CASE b # {} /\ IsLongest(longer)
  <2> DEFINE written == out \o Block(longer)
  <2>1. next.output = written /\ next.block = <<>>
    BY <1>9 DEF Encoding
  <2>2. Len(longer) + 1 <= CodeMax /\ Len(longer) + 1 = CodeMax
    BY <1>6, <1>9 DEF IsLongest
  <2>3. Leads(written, data \o longer)
    <3>1. Zero(Len(longer) + 1) = <<>>
      BY <2>2 DEF Zero
    <3>2. Leads(written, data \o (longer \o Zero(Len(longer) + 1)))
      BY <1>1, <1>2, <1>4, <2>2, LeadsFurther
    <3>3. longer \o <<>> = longer
      BY <1>4, EmptyJoins
    <3> QED
      BY <3>1, <3>2, <3>3, Zenon
  <2>4. written \in Seq(Byte) /\ NoZero(written)
    <3>1. Block(longer) \in Seq(Byte) /\ NoZero(Block(longer))
      BY <1>4, <1>7, <1>9, <2>2, BlockElements, NoZeroBlock
    <3>2. written \in Seq(Byte)
      BY <1>1, <3>1, JoinedParts, Zenon DEF Joined
    <3> QED
      BY <1>1, <3>1, <3>2, NoZeroJoins
  <2> HIDE DEF written, longer, next
  <2>5. (data \o longer) \o <<>> = Append(taken, b)
    BY <1>5, EmptyJoins
  <2>6. Len(<<>>) + 1 < CodeMax
    BY EmptyJoins, StoredNumbers
  <2>7. Stage(next, Append(taken, b))
    BY <1>5, <2>1, <2>3, <2>4, <2>5, <2>6, EmptyJoins, Zenon DEF Stage
  <2> QED
    BY <2>7 DEF next
<1>10. CASE b # {} /\ ~IsLongest(longer)
  <2>1. next.output = out /\ next.block = longer
    BY <1>10 DEF Encoding
  <2>2. Len(longer) + 1 < CodeMax
    BY <1>1, <1>4, <1>6, <1>10 DEF IsLongest
  <2> HIDE DEF longer, next, out
  <2>3. Stage(next, Append(taken, b))
    BY <1>1, <1>2, <1>4, <1>5, <1>7, <1>10, <2>1, <2>2, Zenon DEF Stage
  <2> QED
    BY <2>3 DEF next
<1> QED
  BY <1>8, <1>9, <1>10

LEMMA StageEnds ==
  ASSUME NEW input \in Seq(Byte)
  PROVE  Stage(Encoded(input)[Len(input)], input)
<1> DEFINE n == Len(input)
           e == Encoded(input)
           Reaches(i) == \E taken \in Seq(Byte) :
                           Len(taken) = i /\ Starts(input, taken) /\ Stage(e[i], taken)
           T == {i \in 0..n : ~Reaches(i)}
<1>1. n \in Nat /\ Len(input) = n /\ \A i \in 1..n : input[i] \in Byte
  BY ElementOfSeq
<1>2. /\ e[0] = [output |-> <<>>, block |-> <<>>]
      /\ \A i \in 1..n : e[i] = Encoding(e[i - 1], input[i])
  BY EncodedSteps
<1> HIDE DEF e, n
<1>3. Reaches(0)
  <2>1. Starts(input, <<>>)
    BY <1>1, EmptyJoins DEF Starts
  <2> QED
    BY <1>2, <2>1, EmptyJoins, StageStarts
<1>4. ASSUME NEW i \in 1..n, Reaches(i - 1)
      PROVE  Reaches(i)
  <2>1. PICK taken \in Seq(Byte) :
          Len(taken) = i - 1 /\ Starts(input, taken) /\ Stage(e[i - 1], taken)
    BY <1>4
  <2> DEFINE more == Append(taken, input[i])
  <2>2. input[i] \in Byte
    BY <1>1
  <2>3. Stage(e[i], more)
    BY <1>2, <2>1, <2>2, StageSteps
  <2>4. /\ more \in Seq(Byte) /\ Len(more) = Len(taken) + 1
        /\ \A k \in 1..Len(taken) : more[k] = taken[k]
        /\ more[Len(taken) + 1] = input[i]
    BY <2>2, AppendProperties
  <2> HIDE DEF more
  <2>5. Len(more) = i
    BY <1>1, <2>1, <2>4
  <2>6. ASSUME NEW k \in 1..i
        PROVE  input[k] = more[k]
    <3>1. CASE k = i
      BY <1>1, <2>1, <2>4, <3>1
    <3>2. CASE k # i
      <4>1. k \in 1..Len(taken)
        BY <1>1, <2>1, <3>2
      <4> QED
        BY <2>1, <2>4, <4>1 DEF Starts
    <3> QED
      BY <3>1, <3>2
  <2>7. Starts(input, more)
    BY <1>1, <2>5, <2>6 DEF Starts
  <2> QED
    BY <2>3, <2>4, <2>5, <2>7
<1> HIDE DEF Reaches
<1>5. T = {}
  <2> SUFFICES ASSUME T # {}
               PROVE  FALSE
    OBVIOUS
  <2>1. T \in SUBSET Nat
    BY <1>1
  <2>2. PICK i \in T : \A j \in T : i <= j
    BY <2>1, LeastNumber
  <2>3. i \in 0..n /\ ~Reaches(i)
    BY <2>2
  <2>4. i # 0
    BY <1>3, <2>3
  <2>5. i \in 1..n /\ i - 1 \in 0..n /\ ~(i <= i - 1)
    BY <1>1, <2>3, <2>4
  <2>6. Reaches(i - 1)
    BY <2>2, <2>5
  <2> QED
    BY <1>4, <2>3, <2>5, <2>6
<1>6. Reaches(n)
  <2>1. n \in 0..n
    BY <1>1
  <2> QED
    BY <1>5, <2>1
<1>7. PICK taken \in Seq(Byte) : Len(taken) = n /\ Starts(input, taken) /\ Stage(e[n], taken)
  BY <1>6 DEF Reaches
<1>8. taken = input
  <2>1. Len(taken) = Len(input) /\ \A k \in 1..Len(taken) : taken[k] = input[k]
    BY <1>1, <1>7 DEF Starts
  <2> QED
    BY <2>1, SeqEqual
<1> QED
  BY <1>7, <1>8 DEF e, n

(* A receiver gets what was encoded, and no byte of a frame is zero.       *)
LEMMA EncodingDecodes ==
  ASSUME NEW input \in Seq(Byte)
  PROVE  /\ cobsEncode(input) \in Seq(Byte)
         /\ NoZero(cobsEncode(input))
         /\ Decoded(cobsEncode(input)) = input
<1> DEFINE end == Encoded(input)[Len(input)]
           out == end.output
           block == end.block
<1>1. /\ out \in Seq(Byte) /\ block \in Seq(Byte)
      /\ Len(block) + 1 < CodeMax
      /\ NoZero(out) /\ NoZero(block)
  BY StageEnds, Zenon DEF Stage
<1>2. PICK data \in Seq(Byte) : data \o block = input /\ Leads(out, data)
  BY StageEnds, Zenon DEF Stage
<1>3. cobsEncode(input) = out \o Block(block)
  BY DEF cobsEncode
<1> HIDE DEF out, block
<1>4. Len(block) + 1 <= CodeMax
  BY <1>1, StoredNumbers, LenProperties
<1>5. /\ out \o Block(block) \in Seq(Byte)
      /\ Decoded(out \o Block(block)) = data \o block
  BY <1>1, <1>2, <1>4, LeadsToEnd
<1>6. NoZero(out \o Block(block))
  <2>1. Block(block) \in Seq(Byte) /\ NoZero(Block(block))
    BY <1>1, <1>4, BlockElements, NoZeroBlock
  <2> QED
    BY <1>1, <2>1, NoZeroJoins
<1> QED
  BY <1>2, <1>3, <1>5, <1>6, Zenon

-------------------------------------------------------------------------------
(* What the coordinator writes to the UART.                                *)
LEMMA FrontOf ==
  \A s \in Seq(Byte), b \in Byte :
    /\ Append(s, b) \in Seq(Byte)
    /\ Len(Append(s, b)) = Len(s) + 1
    /\ \A k \in 1..Len(s) : Append(s, b)[k] = s[k]
    /\ Last(Append(s, b)) = b
    /\ Front(Append(s, b)) = s
<1> SUFFICES ASSUME NEW s \in Seq(Byte), NEW b \in Byte
             PROVE  /\ Append(s, b) \in Seq(Byte)
                    /\ Len(Append(s, b)) = Len(s) + 1
                    /\ \A k \in 1..Len(s) : Append(s, b)[k] = s[k]
                    /\ Last(Append(s, b)) = b
                    /\ Front(Append(s, b)) = s
  OBVIOUS
<1> DEFINE more == Append(s, b)
           n == Len(s)
           front == SubSeq(more, 1, Len(more) - 1)
<1>1. n \in Nat /\ Len(s) = n
  OBVIOUS
<1>2. /\ more \in Seq(Byte) /\ Len(more) = n + 1
      /\ \A k \in 1..n : more[k] = s[k]
      /\ more[n + 1] = b
  BY AppendProperties
<1> HIDE DEF more, n
<1>3. Last(more) = b
  BY <1>2 DEF Last
<1>4. front = s
  <2>1. Len(more) - 1 = n
    BY <1>1, <1>2
  <2>2. \A j \in 1..n : more[j] \in Byte
    BY <1>1, <1>2, ElementOfSeq
  <2>3. /\ SubSeq(more, 1, n) \in Seq(Byte) /\ Len(SubSeq(more, 1, n)) = n
        /\ \A k \in 1..n : SubSeq(more, 1, n)[k] = more[k]
    <3>1. /\ 1 \in Int /\ n \in Int
          /\ (IF 1 <= n THEN n - 1 + 1 ELSE 0) = n
          /\ \A k \in 1..n : 1 + k - 1 = k
      BY <1>1
    <3>2. /\ SubSeq(more, 1, n) \in Seq(Byte)
          /\ Len(SubSeq(more, 1, n)) = IF 1 <= n THEN n - 1 + 1 ELSE 0
          /\ \A k \in 1..(n - 1 + 1) : SubSeq(more, 1, n)[k] = more[1 + k - 1]
      BY <2>2, <3>1, SubSeqProperties
    <3> QED
      BY <1>1, <3>1, <3>2
  <2> DEFINE part == SubSeq(more, 1, n)
  <2>4. part \in Seq(Byte) /\ Len(part) = Len(s) /\ \A k \in 1..Len(part) : part[k] = s[k]
    BY <1>1, <1>2, <2>3
  <2> HIDE DEF part
  <2>5. part = s
    BY <2>4, SeqEqual
  <2> QED
    BY <2>1, <2>5 DEF part
<1>5. Front(more) = s
  BY <1>4 DEF Front
<1> QED
  BY <1>1, <1>2, <1>3, <1>5 DEF more

(* As long as no block can become the longest, what is written and what is *)
(* in the block make up what has been read, ...                            *)
Sized(done, n) ==
  /\ done.output \in Seq(Byte) /\ done.block \in Seq(Byte)
  /\ Len(done.output) + Len(done.block) = n

LEMMA SizeSteps ==
  ASSUME NEW done, NEW n \in Nat, NEW b \in Byte, Sized(done, n), n + 2 < CodeMax
  PROVE  Sized(Encoding(done, b), n + 1)
<1> DEFINE out == done.output
           block == done.block
           longer == Append(block, b)
           written == out \o Block(block)
           next == Encoding(done, b)
<1>1. out \in Seq(Byte) /\ block \in Seq(Byte) /\ Len(out) + Len(block) = n
  BY DEF Sized
<1>2. longer \in Seq(Byte) /\ Len(longer) = Len(block) + 1
  BY <1>1, AppendProperties
<1>3. /\ b = {} => next.output = written /\ next.block = <<>>
      /\ b # {} /\ ~IsLongest(longer) => next.output = out /\ next.block = longer
  BY DEF Encoding
<1> HIDE DEF out, block, longer, next
<1>4. Len(out) \in Nat /\ Len(block) \in Nat /\ CodeMax \in Nat
  BY <1>1, StoredNumbers, LenProperties
<1>5. Len(block) + 1 <= CodeMax /\ Len(longer) + 1 # CodeMax
  BY <1>1, <1>2, <1>4
<1>6. Block(block) \in Seq(Byte) /\ Len(Block(block)) = Len(block) + 1
  BY <1>1, <1>5, BlockElements
<1>7. written \in Seq(Byte) /\ Len(written) = Len(out) + Len(Block(block))
  BY <1>1, <1>6, JoinedParts, Zenon DEF Joined
<1> HIDE DEF written
<1>8. CASE b = {}
  <2>1. next.output = written /\ next.block = <<>>
    BY <1>3, <1>8
  <2>2. next.output \in Seq(Byte) /\ next.block \in Seq(Byte) /\ Len(next.block) = 0
    BY <1>7, <2>1, EmptyJoins, Zenon
  <2>3. Len(next.output) = Len(out) + (Len(block) + 1)
    BY <1>6, <1>7, <2>1, Zenon
  <2>4. Len(next.output) + Len(next.block) = n + 1
    BY <1>1, <1>4, <2>2, <2>3
  <2> QED
    BY <2>2, <2>4, Zenon DEF Sized, next
<1>9. CASE b # {}
  <2>1. next.output = out /\ next.block = longer
    BY <1>3, <1>5, <1>9 DEF IsLongest
  <2>2. next.output \in Seq(Byte) /\ next.block \in Seq(Byte)
    BY <1>1, <1>2, <2>1
  <2>3. Len(next.output) + Len(next.block) = n + 1
    BY <1>1, <1>2, <1>4, <2>1
  <2> QED
    BY <2>2, <2>3, Zenon DEF Sized, next
<1> QED
  BY <1>8, <1>9

(* ... so that a message is longer by one byte when it is encoded.         *)
LEMMA EncodedLength ==
  ASSUME NEW input \in Seq(Byte), Len(input) + 1 < CodeMax
  PROVE  Len(cobsEncode(input)) = Len(input) + 1
<1> DEFINE n == Len(input)
           e == Encoded(input)
           T == {i \in 0..n : ~Sized(e[i], i)}
<1>1. n \in Nat /\ Len(input) = n /\ \A i \in 1..n : input[i] \in Byte
  BY ElementOfSeq
<1>2. /\ e[0] = [output |-> <<>>, block |-> <<>>]
      /\ \A i \in 1..n : e[i] = Encoding(e[i - 1], input[i])
  BY EncodedSteps
<1>3. CodeMax \in Nat /\ n + 1 < CodeMax
  BY StoredNumbers
<1>4. Encoded(input)[Len(input)] = e[n]
  OBVIOUS
<1> HIDE DEF e, n
<1>5. Sized(e[0], 0)
  BY <1>2, EmptyJoins DEF Sized
<1>6. ASSUME NEW i \in 1..n, Sized(e[i - 1], i - 1)
      PROVE  Sized(e[i], i)
  <2>1. i - 1 \in Nat /\ (i - 1) + 2 < CodeMax /\ (i - 1) + 1 = i
    BY <1>1, <1>3
  <2>2. Sized(Encoding(e[i - 1], input[i]), (i - 1) + 1)
    BY <1>1, <1>6, <2>1, SizeSteps
  <2> QED
    BY <1>2, <2>1, <2>2
<1>7. T = {}
  <2> SUFFICES ASSUME T # {}
               PROVE  FALSE
    OBVIOUS
  <2>1. T \in SUBSET Nat
    BY <1>1
  <2>2. PICK i \in T : \A j \in T : i <= j
    BY <2>1, LeastNumber
  <2>3. i \in 0..n /\ ~Sized(e[i], i)
    BY <2>2
  <2>4. i # 0
    BY <1>5, <2>3
  <2>5. i \in 1..n /\ i - 1 \in 0..n /\ ~(i <= i - 1)
    BY <1>1, <2>3, <2>4
  <2>6. Sized(e[i - 1], i - 1)
    BY <2>2, <2>5
  <2> QED
    BY <1>6, <2>3, <2>5, <2>6
<1>8. Sized(e[n], n)
  <2>1. n \in 0..n
    BY <1>1
  <2> QED
    BY <1>7, <2>1
<1> DEFINE out == e[n].output
           block == e[n].block
<1>9. /\ out \in Seq(Byte) /\ block \in Seq(Byte)
      /\ Len(out) + Len(block) = n
  BY <1>8 DEF Sized
<1>10. cobsEncode(input) = out \o Block(block)
  BY <1>4 DEF cobsEncode
<1> HIDE DEF out, block
<1>11. Len(out) \in Nat /\ Len(block) \in Nat
  BY <1>9, LenProperties
<1>12. Len(block) + 1 <= CodeMax
  BY <1>1, <1>3, <1>9, <1>11
<1>13. Block(block) \in Seq(Byte) /\ Len(Block(block)) = Len(block) + 1
  BY <1>9, <1>12, BlockElements
<1>14. Len(out \o Block(block)) = Len(out) + Len(Block(block))
  BY <1>9, <1>13, JoinedParts, Zenon DEF Joined
<1> QED
  BY <1>1, <1>9, <1>10, <1>11, <1>13, <1>14

(* The checksum is written where AppMessage_t ends.                        *)
LEMMA ChecksumComesLast ==
  ASSUME NEW data \in Seq(Byte), Len(data) = MessageSize
  PROVE  /\ Front(data) \in Seq(Byte)
         /\ Checksum(Front(data)) \in Byte
         /\ Checksummed(data) = Append(Front(data), Checksum(Front(data)))
<1> DEFINE front == Front(data)
           sum == Checksum(front)
           sent == Checksummed(data)
           n == MessageSize
<1>1. n \in Nat /\ 1 <= n /\ n \in 1..Len(data) /\ Len(data) = n
  BY StoredNumbers, MessageAssumption
<1>2. \A k \in 1..n : data[k] \in Byte
  BY <1>1, ElementOfSeq
<1>3. front = SubSeq(data, 1, n - 1)
  BY DEF Front
<1>4. /\ front \in Seq(Byte) /\ Len(front) = n - 1
      /\ \A k \in 1..(n - 1) : front[k] = data[k]
  <2>1. /\ 1 \in Int /\ n - 1 \in Int
        /\ (IF 1 <= n - 1 THEN (n - 1) - 1 + 1 ELSE 0) = n - 1
        /\ \A k \in 1..(n - 1) : 1 + k - 1 = k
        /\ (n - 1) - 1 + 1 = n - 1
    BY <1>1
  <2>2. \A k \in 1..(n - 1) : data[k] \in Byte
    BY <1>1, <1>2
  <2>3. /\ SubSeq(data, 1, n - 1) \in Seq(Byte)
        /\ Len(SubSeq(data, 1, n - 1)) = IF 1 <= n - 1 THEN (n - 1) - 1 + 1 ELSE 0
        /\ \A k \in 1..((n - 1) - 1 + 1) : SubSeq(data, 1, n - 1)[k] = data[1 + k - 1]
    BY <2>1, <2>2, SubSeqProperties
  <2> QED
    BY <1>3, <2>1, <2>3
<1>5. sum \in Byte
  BY <1>4, ChecksumType
<1>6. sent = [data EXCEPT ![n] = sum]
  BY <1>3 DEF Checksummed
<1> HIDE DEF front, sum, sent, n
<1>7. /\ sent \in Seq(Byte) /\ Len(sent) = n /\ sent[n] = sum
      /\ \A k \in 1..(n - 1) : sent[k] = data[k]
  BY <1>1, <1>2, <1>5, <1>6, ExceptSeq
<1> DEFINE more == Append(front, sum)
<1>8. /\ more \in Seq(Byte) /\ Len(more) = Len(front) + 1
      /\ \A k \in 1..Len(front) : more[k] = front[k]
      /\ more[Len(front) + 1] = sum
  BY <1>4, <1>5, AppendProperties
<1> HIDE DEF more
<1>9. Len(more) = n /\ more[n] = sum /\ \A k \in 1..(n - 1) : more[k] = data[k]
  BY <1>1, <1>4, <1>8
<1>10. \A k \in 1..n : more[k] = sent[k]
  BY <1>1, <1>7, <1>9
<1>11. more = sent
  BY <1>1, <1>7, <1>8, <1>9, <1>10, SeqEqual
<1> QED
  BY <1>4, <1>5, <1>11 DEF front, sum, sent, more

LEMMA WholeSequence ==
  ASSUME NEW s \in Seq(Byte)
  PROVE  SubSeq(s, 1, Len(s)) = s
<1> DEFINE n == Len(s)
           part == SubSeq(s, 1, n)
<1>1. /\ n \in Nat /\ 1 \in Int /\ n \in Int /\ Len(s) = n
      /\ (IF 1 <= n THEN n - 1 + 1 ELSE 0) = n /\ n - 1 + 1 = n
      /\ \A k \in 1..n : 1 + k - 1 = k
  BY LenProperties
<1>2. \A k \in 1..n : s[k] \in Byte
  BY <1>1, ElementOfSeq
<1> HIDE DEF n
<1>3. /\ part \in Seq(Byte)
      /\ Len(part) = IF 1 <= n THEN n - 1 + 1 ELSE 0
      /\ \A k \in 1..(n - 1 + 1) : part[k] = s[1 + k - 1]
  BY <1>1, <1>2, SubSeqProperties
<1> HIDE DEF part
<1>4. Len(part) = Len(s) /\ \A k \in 1..Len(part) : part[k] = s[k]
  BY <1>1, <1>3
<1>5. part = s
  BY <1>3, <1>4, SeqEqual
<1> QED
  BY <1>5 DEF part, n

LEMMA MessageDecodes ==
  ASSUME NEW data \in Seq(Byte), Len(data) = MessageSize
  PROVE  LET frame == appSendMessage(data)
         IN  /\ frame \in Seq(Byte)
             /\ Last(frame) = {}
             /\ \A k \in 1..(Len(frame) - 1) : frame[k] # {}
             /\ Len(Front(frame)) <= BufferSize
             /\ Front(Decoded(Front(frame))) = Front(data)
             /\ Checksum(Decoded(Front(frame))) = {}
<1> DEFINE front == Front(data)
           sum == Checksum(front)
           sent == Checksummed(data)
           code == cobsEncode(sent)
           frame == appSendMessage(data)
<1>1. front \in Seq(Byte) /\ sum \in Byte /\ sent = Append(front, sum)
  BY ChecksumComesLast
<1>2. /\ MessageSize \in Nat /\ CodeMax \in Nat
      /\ 1 <= MessageSize /\ MessageSize + 1 < CodeMax
  BY StoredNumbers, MessageAssumption
<1> HIDE DEF sent, sum
<1>3. Len(sent) = MessageSize
  <2>1. Len(sent) = Len(front) + 1
    BY <1>1, AppendProperties
  <2>2. Len(front) = Len(data) - 1
    <3>1. front = SubSeq(data, 1, Len(data) - 1)
      BY DEF Front
    <3>2. Len(data) - 1 \in Int /\ 1 \in Int
          /\ (IF 1 <= Len(data) - 1 THEN (Len(data) - 1) - 1 + 1 ELSE 0) = Len(data) - 1
          /\ \A k \in 1..(Len(data) - 1) : data[k] \in Byte
      <4>1. \A k \in 1..Len(data) : data[k] \in Byte
        BY ElementOfSeq
      <4> QED
        BY <1>2, <4>1
    <3>3. Len(SubSeq(data, 1, Len(data) - 1)) =
            IF 1 <= Len(data) - 1 THEN (Len(data) - 1) - 1 + 1 ELSE 0
      BY <3>2, SubSeqProperties
    <3> QED
      BY <3>1, <3>2, <3>3
  <2> QED
    BY <1>2, <2>1, <2>2
<1> HIDE DEF front
<1>4. sent \in Seq(Byte) /\ Front(sent) = front
  BY <1>1, FrontOf
<1>5. Checksum(sent) = {}
  <2>1. Checksum(sent) = Xor(Checksum(front), sum)
    BY <1>1, ChecksumAppend
  <2> QED
    BY <1>1, <2>1, XorType DEF sum
<1>6. /\ code \in Seq(Byte) /\ NoZero(code)
      /\ Decoded(code) = sent
  BY <1>4, EncodingDecodes
<1>7. Len(code) = MessageSize + 1
  BY <1>2, <1>3, <1>4, EncodedLength
<1>8. frame = Append(SubSeq(code, 1, Len(code) % (CodeMax + 1)), {})
  BY DEF appSendMessage, sent
<1> HIDE DEF code, frame
<1>9. Len(code) % (CodeMax + 1) = Len(code)
  BY <1>2, <1>7
<1>10. frame = Append(code, {})
  BY <1>6, <1>8, <1>9, WholeSequence
<1>11. {} \in Byte
  BY DEF Byte
<1>12. /\ frame \in Seq(Byte) /\ Len(frame) = Len(code) + 1
       /\ \A k \in 1..Len(code) : frame[k] = code[k]
       /\ Last(frame) = {} /\ Front(frame) = code
  BY <1>6, <1>10, <1>11, FrontOf
<1>13. ASSUME NEW k \in 1..(Len(frame) - 1)
       PROVE  frame[k] # {}
  <2>1. k \in 1..Len(code)
    BY <1>2, <1>7, <1>12
  <2> QED
    BY <1>6, <1>12, <2>1 DEF NoZero
<1>14. Len(Front(frame)) <= BufferSize
  BY <1>2, <1>7, <1>12 DEF BufferSize
<1>15. Front(Decoded(Front(frame))) = Front(data) /\ Checksum(Decoded(Front(frame))) = {}
  BY <1>4, <1>5, <1>6, <1>12, Zenon DEF front
<1> QED
  BY <1>12, <1>13, <1>14, <1>15 DEF frame

(* FramesDecode: of every AppMessage_t that comes to the coordinator,      *)
(* whatever its bytes, it writes a frame that fits its buffer and has no   *)
(* zero before its end; a receiver that takes the frame apart gets back    *)
(* all but the last byte, which is the checksum of the others              *)
(* (Coordinator.c:25-105).  That is so for every size of the message whose *)
(* frame a byte can count.                                                 *)
THEOREM FramesAreDecoded == Spec => []FramesDecode
<1>1. Init => FramesDecode
  BY DEF Init, FramesDecode
<1>2. FramesDecode /\ [Next]_vars => FramesDecode'
  <2> SUFFICES ASSUME FramesDecode, [Next]_vars
               PROVE  FramesDecode'
    OBVIOUS
  <2>1. CASE Indication
    <3>1. PICK data \in Payloads : wire' = appSendMessage(data) /\ payload' = data
      BY <2>1 DEF Indication
    <3>2. data \in Seq(Byte) /\ Len(data) = MessageSize
      BY PayloadsAssumption
    <3> QED
      BY <3>1, <3>2, MessageDecodes DEF FramesDecode
  <2>2. wire' = <<>> => FramesDecode'
    BY DEF FramesDecode
  <2>3. wire' = wire /\ payload' = payload => FramesDecode'
    BY DEF FramesDecode
  <2>4. CASE PowerFails \/ WatchdogResets \/ Command \/ NoCommand
    <3>1. wire' = <<>>
      BY <2>4 DEF PowerFails, WatchdogResets, Restart, Command, NoCommand
    <3> QED
      BY <2>2, <3>1
  <2>5. CASE \/ EepromReady \/ Boot \/ WriteByte \/ WriteDone \/ Confirm
             \/ Traffic \/ ReportTimer \/ NwkDone \/ App \/ SleepEnds
             \/ UNCHANGED vars
    <3>1. wire' = wire /\ payload' = payload
      BY <2>5
      DEF EepromReady, Boot, WriteByte, WriteDone, Confirm, Traffic, ReportTimer,
          NwkDone, App, SleepEnds, vars, ram, history
    <3> QED
      BY <2>3, <3>1
  <2> QED
    BY <2>1, <2>4, <2>5 DEF Next
<1> QED
  BY <1>1, <1>2, PTL DEF Spec

-------------------------------------------------------------------------------
(* Types.  Those of the store, the configuration and the places in the     *)
(* code are in IInv.                                                       *)
RestTypeOK ==
  /\ appState \in AppStates
  /\ request \in BOOLEAN /\ others \in BOOLEAN /\ radioOn \in BOOLEAN
  /\ applied \in Byte
  /\ paused \in BOOLEAN
  /\ wire \in Seq(Byte) /\ payload \in Seq(Byte)
  /\ asleep \in Nat \cup {UNKNOWN}
  /\ commanded \in BOOLEAN
  /\ failures \in 0..MaxFailures /\ commands \in 0..MaxCommands

LEMMA SleepIsTime ==
  ASSUME NEW b, ~Overflows(b), NEW r \in Rands
  PROVE  Slept(SleepTicks(SleepTime(b, r))) \in Nat
<1> DEFINE t == SleepTicks(SleepTime(b, r))
<1>1. SleepTime(b, r) \in Nat
  <2>1. Interval(b) - Interval(b) \div 8 \in Nat /\ Interval(b) + Interval(b) \div 8 \in Nat
    BY ShortIntervals
  <2> QED
    BY <2>1, SleepTimeRange
<1>2. t \in Nat
  BY <1>1, TicksGrow
<1> HIDE DEF t
<1>3. Slept(t) \in Nat
  <2>1. t \div 256 \in Nat /\ t % 256 \in 0..255
    BY <1>2
  <2> QED
    BY <2>1 DEF Slept
<1> QED
  BY <1>3 DEF t

LEMMA InitTypes == Init => RestTypeOK
<1>1. {} \in Byte
  BY DEF Byte
<1>2. <<>> \in Seq(Byte)
  OBVIOUS
<1>3. 0 \in 0..MaxFailures /\ 0 \in 0..MaxCommands /\ 0 \in Nat \cup {UNKNOWN}
  BY BoundsAssumption
<1>4. "INITIAL" \in AppStates
  BY DEF AppStates
<1> SUFFICES ASSUME Init PROVE RestTypeOK
  OBVIOUS
<1>5. /\ appState \in AppStates
      /\ request \in BOOLEAN /\ others \in BOOLEAN /\ radioOn \in BOOLEAN
      /\ paused \in BOOLEAN /\ commanded \in BOOLEAN
  BY <1>4 DEF Init
<1>6. /\ applied \in Byte
      /\ wire \in Seq(Byte) /\ payload \in Seq(Byte)
      /\ asleep \in Nat \cup {UNKNOWN}
      /\ failures \in 0..MaxFailures /\ commands \in 0..MaxCommands
  BY <1>1, <1>2, <1>3, Zenon DEF Init
<1> QED
  BY <1>5, <1>6 DEF RestTypeOK

LEMMA RestartTypes ==
  ASSUME RestTypeOK, Restart, failures' \in 0..MaxFailures, commands' = commands
  PROVE  RestTypeOK'
<1>1. {} \in Byte
  BY DEF Byte
<1>2. <<>> \in Seq(Byte)
  OBVIOUS
<1> QED
  BY <1>1, <1>2 DEF Restart, RestTypeOK, AppStates

(* The steps that leave the radio's settings and the frames alone.         *)
LEMMA StateTypes ==
  ASSUME RestTypeOK, appState' \in AppStates, request' \in BOOLEAN, others' \in BOOLEAN,
         UNCHANGED <<radioOn, applied, paused, wire, asleep, payload, commanded, bounds>>
  PROVE  RestTypeOK'
BY DEF RestTypeOK, bounds

LEMMA CommandTypes == ASSUME RestTypeOK, Command PROVE RestTypeOK'
<1>1. <<>> \in Seq(Byte)
  OBVIOUS
<1>2. paused' \in BOOLEAN /\ commanded' \in BOOLEAN
  BY DEF Command, ChangeNodeType, ChangeParameter, ChangePaused, ResetCommand, RestTypeOK
<1>3. commands' \in 0..MaxCommands
  BY BoundsAssumption DEF Command, RestTypeOK
<1>4. wire' = <<>> /\ payload' = <<>>
      /\ UNCHANGED <<appState, request, others, radioOn, applied, asleep, failures>>
  BY DEF Command
<1> QED
  BY <1>1, <1>2, <1>3, <1>4 DEF RestTypeOK

LEMMA AppTypes == ASSUME IInv, RestTypeOK, App PROVE RestTypeOK'
<1>1. UNCHANGED <<others, paused, wire, payload, commanded, failures, commands>>
  BY DEF App, history, bounds
<1>2. config[AckByte] \in Byte
  BY CellsOfConfig DEF IInv, StoreTypeOK
<1>3. /\ appState' \in AppStates /\ request' \in BOOLEAN /\ radioOn' \in BOOLEAN
      /\ applied' \in Byte
  <2>1. CASE onInit \/ onSend \/ onSendingDone \/ onPrepareToSleep
    BY <1>2, <2>1
    DEF onInit, onSend, onSendingDone, onPrepareToSleep, RestTypeOK, AppStates
  <2>2. CASE onSleep \/ onWakeup \/ NothingToDo
    BY <2>2 DEF onSleep, onWakeup, NothingToDo, RestTypeOK, AppStates
  <2> QED
    BY <2>1, <2>2 DEF App
<1>4. asleep' \in Nat \cup {UNKNOWN}
  <2>1. CASE onSleep
    BY <2>1, SleepIsTime DEF onSleep
  <2>2. CASE onInit \/ onSend \/ onSendingDone \/ onPrepareToSleep \/ onWakeup \/ NothingToDo
    BY <2>2
    DEF onInit, onSend, onSendingDone, onPrepareToSleep, onWakeup, NothingToDo, RestTypeOK
  <2> QED
    BY <2>1, <2>2 DEF App
<1> QED
  BY <1>1, <1>3, <1>4 DEF RestTypeOK

LEMMA NextTypes == ASSUME IInv, RestTypeOK, [Next]_vars PROVE RestTypeOK'
<1>0. <<>> \in Seq(Byte)
  OBVIOUS
<1>1. CASE PowerFails
  <2>1. failures' \in 0..MaxFailures /\ commands' = commands /\ Restart
    BY <1>1, BoundsAssumption DEF PowerFails, RestTypeOK
  <2> QED
    BY <2>1, RestartTypes
<1>2. CASE WatchdogResets
  <2>1. failures' \in 0..MaxFailures /\ commands' = commands /\ Restart
    BY <1>2 DEF WatchdogResets, RestTypeOK, bounds
  <2> QED
    BY <2>1, RestartTypes
<1>3. CASE EepromReady \/ WriteByte \/ NwkDone \/ UNCHANGED vars
  BY <1>3 DEF EepromReady, WriteByte, NwkDone, vars, ram, history, bounds, RestTypeOK
<1>4. CASE Boot
  BY <1>4 DEF Boot, ram, bounds, RestTypeOK
<1>5. CASE WriteDone
  <2>1. config[AckByte] \in Byte
    BY CellsOfConfig DEF IInv, StoreTypeOK
  <2>2. appState' \in AppStates /\ applied' \in Byte
    BY <1>5, <2>1 DEF WriteDone, RestTypeOK, AppStates
  <2>3. UNCHANGED <<request, others, radioOn, paused, wire, asleep, payload, commanded,
                    failures, commands>>
    BY <1>5 DEF WriteDone, history, bounds
  <2> QED
    BY <2>2, <2>3 DEF RestTypeOK
<1>6. CASE Confirm
  <2>1. appState' \in AppStates
    BY <1>6 DEF Confirm, RestTypeOK, AppStates
  <2> QED
    BY <1>6, <2>1, StateTypes DEF Confirm, RestTypeOK
<1>7. CASE Indication
  <2>1. PICK data \in Payloads : wire' = appSendMessage(data) /\ payload' = data
    BY <1>7 DEF Indication
  <2>2. data \in Seq(Byte) /\ Len(data) = MessageSize
    BY PayloadsAssumption
  <2>3. wire' \in Seq(Byte) /\ payload' \in Seq(Byte)
    BY <2>1, <2>2, MessageDecodes
  <2>4. UNCHANGED <<appState, request, others, radioOn, applied, paused, asleep,
                    commanded, failures, commands>>
    BY <1>7 DEF Indication, bounds
  <2> QED
    BY <2>3, <2>4 DEF RestTypeOK
<1>8. CASE Traffic \/ ReportTimer
  <2>1. appState' \in AppStates /\ request' \in BOOLEAN /\ others' \in BOOLEAN
    BY <1>8 DEF Traffic, ReportTimer, RestTypeOK, AppStates
  <2>2. UNCHANGED <<radioOn, applied, paused, wire, asleep, payload, commanded, bounds>>
    BY <1>8 DEF Traffic, ReportTimer, history
  <2> QED
    BY <2>1, <2>2, StateTypes
<1>9. CASE Command
  BY <1>9, CommandTypes
<1>10. CASE NoCommand
  BY <1>0, <1>10 DEF NoCommand, bounds, RestTypeOK
<1>11. CASE App
  BY <1>11, AppTypes
<1>12. CASE SleepEnds
  BY <1>12 DEF SleepEnds, history, bounds, RestTypeOK, AppStates
<1> QED
  BY <1>1, <1>2, <1>3, <1>4, <1>5, <1>6, <1>7, <1>8, <1>9, <1>10, <1>11, <1>12 DEF Next

(* TypeOK: every byte stays a byte, whatever is written, commanded or cut  *)
(* off, a sleep never has fewer than no ticks, and what is written to the  *)
(* UART is made of bytes (main.c, at.c, BaseNode.c, EndDevice.c,           *)
(* Coordinator.c, halSleep.c).                                             *)
THEOREM TypeCorrect == Spec => []TypeOK
<1>1. Init => IInv /\ RestTypeOK
  BY InitIInv, InitTypes
<1>2. (IInv /\ RestTypeOK) /\ [Next]_vars => (IInv /\ RestTypeOK)'
  BY NextIInv, NextTypes
<1>3. IInv /\ RestTypeOK => TypeOK
  BY DEF IInv, StoreTypeOK, RestTypeOK, TypeOK
<1> QED
  BY <1>1, <1>2, <1>3, PTL DEF Spec
===============================================================================
