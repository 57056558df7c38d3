---------------------------------- MODULE Eeprom ----------------------------------
(***************************************************************************)
(* The EEPROM and its driver (eeprom.c).  Erasing a byte sets all its      *)
(* bits; programming it clears those that are 0 in the data register.  An  *)
(* operation goes on after the driver has returned, and what it leaves of  *)
(* its byte when the power fails meanwhile is anything.                    *)
(***************************************************************************)
EXTENDS Bytes

CONSTANT Size  \* sizeof(AppConfig_t), which is all that is stored

ASSUME SizeAssumption == Size \in Nat \ {0}

Cells == 0..(Size - 1)

VARIABLES
  eeprom,  \* the bytes in the array
  eecr     \* the operation under way: EECR with EEAR and EEDR

eepromVars == <<eeprom, eecr>>

(* EEPE is set in every mode but "IDLE".                                   *)
Modes == {"IDLE", "ERASE_WRITE", "ERASE", "WRITE"}
Operation == [mode : Modes, addr : Cells, data : Byte]
Idle == [mode |-> "IDLE", addr |-> 0, data |-> {}]

EepromTypeOK ==
  /\ eeprom \in [Cells -> Byte]
  /\ eecr \in Operation

EepromInit ==
  /\ eeprom = [a \in Cells |-> Bits]
  /\ eecr = Idle

(* What an operation makes of a byte.                                      *)
Result(op, old) ==
  (IF op.mode \in {"ERASE", "ERASE_WRITE"} THEN Bits ELSE old)
    \cap (IF op.mode \in {"WRITE", "ERASE_WRITE"} THEN op.data ELSE Bits)

(* The array once the operation under way is over.                         *)
Settled ==
  IF eecr.mode = "IDLE" THEN eeprom
  ELSE [eeprom EXCEPT ![eecr.addr] = Result(eecr, @)]

(* For mutation runs: a byte is never erased.                              *)
ModeNoErase(old, new) == IF old = new THEN "IDLE" ELSE "WRITE"

(* The cheapest operation that turns one value into the other.             *)
Mode(old, new) ==
  IF new \ old # {} THEN IF new # Bits THEN "ERASE_WRITE" ELSE "ERASE"
  ELSE IF old # new THEN "WRITE" ELSE "IDLE"

(* Both operations of the driver wait for EEPE.                            *)
Ready == eecr.mode = "IDLE"

(* For mutation runs: an operation is started over the one under way.      *)
EEPROM_PutCharAtOnce(addr, new) ==
  /\ eecr' = IF eeprom[addr] = new THEN eecr
             ELSE [mode |-> Mode(eeprom[addr], new), addr |-> addr, data |-> new]
  /\ UNCHANGED eeprom

EEPROM_PutChar(addr, new) ==
  /\ Ready
  /\ eecr' = IF eeprom[addr] = new THEN eecr
             ELSE [mode |-> Mode(eeprom[addr], new), addr |-> addr, data |-> new]
  /\ UNCHANGED eeprom

(* The operation is over, whatever the processor does, in reset too.       *)
EepromDone ==
  /\ ~Ready
  /\ eeprom' = Settled
  /\ eecr' = Idle

(* The power fails.                                                        *)
EepromFails ==
  /\ \/ Ready /\ UNCHANGED eeprom
     \/ ~Ready /\ \E b \in Byte : eeprom' = [eeprom EXCEPT ![eecr.addr] = b]
  /\ eecr' = Idle
===============================================================================
