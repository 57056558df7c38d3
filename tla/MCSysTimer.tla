------------------------------- MODULE MCSysTimer -------------------------------
(* Three timers, one of them periodic, with intervals that are and are not *)
(* multiples of a tick.                                                    *)
EXTENDS SysTimer

CONSTANTS ackWait, sending, aging

AllTimers == {ackWait, sending, aging}

SomeIntervals ==
  [t \in AllTimers |->
     CASE t = ackWait -> {2}
       [] t = sending -> {3, 5}
       [] t = aging -> {4}]

OnePeriodic == {aging}
===============================================================================
