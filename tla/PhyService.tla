------------------------------- MODULE PhyService -------------------------------
(***************************************************************************)
(* What a radio driver promises to the network layer (phy.h).  A frame     *)
(* handed over by PHY_DataReq() is confirmed once, with the result of its  *)
(* transmission.  A frame that came in is indicated at most once and as it *)
(* came; it may be lost, above all when a transmission is asked for, but   *)
(* nothing is indicated while one is going on, or during sleep.            *)
(***************************************************************************)
CONSTANTS
  Air,        \* frames that other nodes send
  Results,    \* how a transmission may end
  NONE

VARIABLES
  tx,         \* "none", "sending" or the result that is to be confirmed
  awake,
  got,        \* the frame that has come in, or NONE
  ind, conf   \* what PHY_DataInd() and PHY_DataConf() tell in this step

vars == <<tx, awake, got, ind, conf>>

Init ==
  /\ tx = "none" /\ awake = TRUE
  /\ got = NONE /\ ind = NONE /\ conf = NONE

MayLose == got' \in {got, NONE}

DataReq ==
  /\ tx = "none" /\ awake /\ tx' = "sending" /\ got' = NONE
  /\ UNCHANGED <<awake, ind, conf>>

Transmitted ==
  /\ tx = "sending" /\ tx' \in Results
  /\ UNCHANGED <<awake, got, ind, conf>>

DataConf ==
  /\ tx \in Results /\ conf = NONE
  /\ conf' = tx /\ tx' = "none" /\ MayLose
  /\ UNCHANGED <<awake, ind>>

Arrives ==
  /\ tx = "none" /\ awake /\ got' \in Air
  /\ UNCHANGED <<tx, awake, ind, conf>>

DataInd ==
  /\ tx = "none" /\ awake /\ got # NONE /\ ind = NONE
  /\ ind' = got /\ got' = NONE
  /\ UNCHANGED <<tx, awake, conf>>

Lose ==
  /\ MayLose
  /\ UNCHANGED <<tx, awake, ind, conf>>

(* The call returns: the network layer has been told.                      *)
Taken ==
  /\ ind' = NONE /\ conf' = NONE /\ MayLose
  /\ UNCHANGED <<tx, awake>>

Sleep ==
  /\ tx = "none" /\ awake /\ awake' = FALSE /\ got' = NONE
  /\ UNCHANGED <<tx, ind, conf>>

Wakeup ==
  /\ ~awake /\ awake' = TRUE
  /\ UNCHANGED <<tx, got, ind, conf>>

Next ==
  \/ DataReq \/ Transmitted \/ DataConf
  \/ Arrives \/ DataInd \/ Lose \/ Taken
  \/ Sleep \/ Wakeup

Spec == Init /\ [][Next]_vars
===============================================================================
