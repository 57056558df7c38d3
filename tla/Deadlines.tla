------------------------------- MODULE Deadlines -------------------------------
(***************************************************************************)
(* What the software timers promise (sysTimer.h): every running timer has  *)
(* a time left, all of them lose time together, and none loses more than   *)
(* it has left before its handler is called.  Time is taken off when the   *)
(* main loop gets to it; "lag" is the time that has gone by until then.    *)
(* A timer that is started while there is lag is charged with it: by the   *)
(* clock it may run that much too short.                                   *)
(***************************************************************************)
EXTENDS Integers

CONSTANTS
  Timers,      \* the timers of the program
  Intervals,   \* for each timer, the intervals it may be given
  Periodic,    \* the timers of SYS_TIMER_PERIODIC_MODE
  TickLength,  \* time between two ticks of the hardware timer
  OFF          \* not a time: the timer is not running

VARIABLES left, lag

Running(t) == left[t] # OFF

Less(u, d) == IF Running(u) THEN left[u] - d ELSE OFF

Init ==
  /\ left = [t \in Timers |-> OFF]
  /\ lag = 0

Tick ==
  /\ lag' = lag + TickLength
  /\ UNCHANGED left

Start(t, interval) ==
  /\ ~Running(t)
  /\ left' = [left EXCEPT ![t] = interval]
  /\ UNCHANGED lag

Stop(t) ==
  /\ Running(t)
  /\ left' = [left EXCEPT ![t] = OFF]
  /\ UNCHANGED lag

(* Time passes, but not as far as the next deadline.                       *)
Pass(d) ==
  /\ d \in 1..lag
  /\ \A u \in Timers : Running(u) => d < left[u]
  /\ left' = [u \in Timers |-> Less(u, d)]
  /\ lag' = lag - d

(* Time passes up to the deadline of t and its handler is called.          *)
Expire(t, interval) ==
  /\ Running(t)
  /\ left[t] <= lag
  /\ \A u \in Timers : Running(u) => left[t] <= left[u]
  /\ left' = [u \in Timers |->
                IF u # t THEN Less(u, left[t])
                ELSE IF t \in Periodic THEN interval ELSE OFF]
  /\ lag' = lag - left[t]

Next ==
  \/ Tick
  \/ \E t \in Timers : Stop(t)
  \/ \E t \in Timers : \E i \in Intervals[t] : Start(t, i) \/ Expire(t, i)
  \/ \E d \in 1..lag : Pass(d)

Spec == Init /\ [][Next]_<<left, lag>>
===============================================================================
