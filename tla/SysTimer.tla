-------------------------------- MODULE SysTimer --------------------------------
(***************************************************************************)
(* The software timers (sysTimer.c) over the tick counter of the hardware  *)
(* timer (halTimer.c).  Running timers are in a list; each holds the time  *)
(* from the deadline of the one before it to its own.  The main loop takes *)
(* the ticks that the interrupt has counted off the list, timer by timer,  *)
(* and calls the handlers on the way; a handler may start and stop timers, *)
(* its own among them, while the rest of the time is still to be taken     *)
(* off.                                                                    *)
(***************************************************************************)
EXTENDS Integers, Sequences, SequencesExt

CONSTANTS
  Timers,      \* the SYS_Timer_t of the program
  Intervals,   \* for each timer, the values its interval field may have
  Periodic,    \* the timers of SYS_TIMER_PERIODIC_MODE
  TickLength,  \* HAL_TIMER_INTERVAL
  CountSize,   \* halTimerIrqCount is a uint8_t: 256
  PassTicks,   \* the longest pass of the main loop, in ticks
  NULL         \* no timer

ASSUME IntervalsAssumption ==
  /\ \A t \in Timers : Intervals[t] \subseteq Nat \ {0}
  /\ Periodic \subseteq Timers
ASSUME TickAssumption == TickLength \in Nat \ {0}
(* halTimer.c counts in a byte and has no answer to an overflow: the loop  *)
(* is taken to come round before it.                                       *)
ASSUME PassAssumption == CountSize \in Nat /\ PassTicks \in 1..(CountSize - 1)
ASSUME NullAssumption == NULL \notin Timers

VARIABLES
  timers,     \* the list, first deadline first
  timeout,    \* timeout field; 0 when not listed, where nothing reads it
  irqCount,   \* halTimerIrqCount
  elapsed,    \* the local of SYS_TimerTaskHandler()
  firing,     \* the timer whose handler is being called, or NULL
  inHandler   \* SYS_TimerTaskHandler() is running

vars == <<timers, timeout, irqCount, elapsed, firing, inHandler>>

Times == {n \in Nat : n = 0 \/ \E t \in Timers : \E i \in Intervals[t] : n <= i}

(* Types of the variables, with the bounds that the fields must keep: a    *)
(* timeout is a distance between deadlines, never negative (the field is   *)
(* unsigned) and never longer than an interval.                            *)
TypeOK ==
  /\ timers \in Seq(Timers)
  /\ timeout \in [Timers -> Times]
  /\ irqCount \in 0..(CountSize - 1)
  /\ elapsed \in 0..(PassTicks * TickLength)
  /\ firing \in Timers \cup {NULL}
  /\ inHandler \in BOOLEAN

Started(t) == \E i \in DOMAIN timers : timers[i] = t

(* The time from now to the deadline of the p-th timer of a list.          *)
Due(list, times, p) ==
  LET sum[i \in 0..Len(list)] ==
        IF i = 0 THEN 0 ELSE sum[i - 1] + times[list[i]]
  IN  sum[p]

(* placeTimer(): the timer goes behind the p timers whose deadlines are    *)
(* not after its own, and the one behind it then waits for it.             *)
Place(list, times, t, interval, p) ==
  /\ Due(list, times, p) <= interval
  /\ p < Len(list) => interval < Due(list, times, p + 1)
  /\ timers' = InsertAt(list, p + 1, t)
  /\ LET rest == interval - Due(list, times, p)
     IN  timeout' = [u \in Timers |->
                       IF u = t THEN rest
                       ELSE IF p < Len(list) /\ u = list[p + 1]
                            THEN times[u] - rest
                            ELSE times[u]]

(* For mutation runs: without asking whether the timer is started.         *)
SYS_TimerStartAnyway(t, interval) ==
  \E p \in 0..Len(timers) : Place(timers, timeout, t, interval, p)

SYS_TimerStart(t, interval) ==
  /\ ~Started(t)
  /\ \E p \in 0..Len(timers) : Place(timers, timeout, t, interval, p)

(* For mutation runs: the share of the stopped timer is dropped.           *)
SYS_TimerStopDropsTime(i) ==
  /\ timers' = RemoveAt(timers, i)
  /\ timeout' = [timeout EXCEPT ![timers[i]] = 0]

(* The timer behind the stopped one takes over its share of the time.      *)
SYS_TimerStop(i) ==
  /\ timers' = RemoveAt(timers, i)
  /\ timeout' = [u \in Timers |->
                   IF u = timers[i] THEN 0
                   ELSE IF i < Len(timers) /\ u = timers[i + 1]
                        THEN timeout[u] + timeout[timers[i]]
                        ELSE timeout[u]]

(* ISR(TIMER4_COMPA_vect)                                                  *)
Tick ==
  /\ irqCount < PassTicks
  /\ irqCount' = (irqCount + 1) % CountSize
  /\ UNCHANGED <<timers, timeout, elapsed, firing, inHandler>>

(* Timers are started and stopped by the main loop and by the handlers.    *)
Start ==
  /\ inHandler => firing # NULL
  /\ \E t \in Timers : \E interval \in Intervals[t] : SYS_TimerStart(t, interval)
  /\ UNCHANGED <<irqCount, elapsed, firing, inHandler>>

Stop ==
  /\ inHandler => firing # NULL
  /\ \E i \in DOMAIN timers : SYS_TimerStop(i)
  /\ UNCHANGED <<irqCount, elapsed, firing, inHandler>>

-------------------------------------------------------------------------------
(* SYS_TimerTaskHandler().  The count is read and cleared with interrupts  *)
(* off.                                                                    *)
TakeTicks ==
  /\ ~inHandler
  /\ irqCount # 0
  /\ elapsed' = irqCount * TickLength
  /\ irqCount' = 0
  /\ inHandler' = TRUE
  /\ UNCHANGED <<timers, timeout, firing>>

Expired ==
  /\ timers # <<>>
  /\ timeout[Head(timers)] <= elapsed

(* The first timer leaves the list; a periodic one is placed again, from   *)
(* its own deadline, before its handler is called.                         *)
Expire ==
  /\ inHandler
  /\ firing = NULL
  /\ Expired
  /\ LET t == Head(timers)
     IN  /\ elapsed' = elapsed - timeout[t]
         /\ firing' = t
         /\ IF t \in Periodic
            THEN \E interval \in Intervals[t], p \in 0..(Len(timers) - 1) :
                   Place(Tail(timers), timeout, t, interval, p)
            ELSE /\ timers' = Tail(timers)
                 /\ timeout' = [timeout EXCEPT ![t] = 0]
  /\ UNCHANGED <<irqCount, inHandler>>

HandlerReturns ==
  /\ firing # NULL
  /\ firing' = NULL
  /\ UNCHANGED <<timers, timeout, irqCount, elapsed, inHandler>>

(* For mutation runs: what is left of the time is dropped.                 *)
FinishDropsTime ==
  /\ inHandler
  /\ firing = NULL
  /\ ~Expired
  /\ elapsed' = 0
  /\ inHandler' = FALSE
  /\ UNCHANGED <<timers, timeout, irqCount, firing>>

(* What is left of the time is taken off the timer that comes next.        *)
Finish ==
  /\ inHandler
  /\ firing = NULL
  /\ ~Expired
  /\ timeout' = [u \in Timers |->
                   IF timers # <<>> /\ u = Head(timers)
                   THEN timeout[u] - elapsed
                   ELSE timeout[u]]
  /\ elapsed' = 0
  /\ inHandler' = FALSE
  /\ UNCHANGED <<timers, irqCount, firing>>

Init ==
  /\ timers = <<>>
  /\ timeout = [t \in Timers |-> 0]
  /\ irqCount = 0
  /\ elapsed = 0
  /\ firing = NULL
  /\ inHandler = FALSE

Next == Tick \/ Start \/ Stop \/ TakeTicks \/ Expire \/ HandlerReturns \/ Finish

Spec == Init /\ [][Next]_vars

(* The hardware timer goes on, main() comes back to the task handler, and  *)
(* every handler returns.                                                  *)
FairSpec ==
  /\ Spec
  /\ WF_vars(Tick)
  /\ WF_vars(TakeTicks)
  /\ WF_vars(Expire)
  /\ WF_vars(HandlerReturns)
  /\ WF_vars(Finish)

-------------------------------------------------------------------------------
(* The list against deadlines: the time left of a timer is the sum of the  *)
(* timeouts up to its own.                                                 *)
OFF == -1

Left(t) ==
  IF Started(t)
  THEN Due(timers, timeout, CHOOSE i \in DOMAIN timers : timers[i] = t)
  ELSE OFF

DeadlinesSpec == INSTANCE Deadlines WITH
  left <- [t \in Timers |-> Left(t)],
  lag <- irqCount * TickLength + elapsed

(* Whatever is started and stopped, and whenever the ticks come, every     *)
(* timer is called when its time is up, none before, and no tick is lost   *)
(* (sysTimer.c:70-183, halTimer.c:89).                                     *)
ImplementsDeadlines == DeadlinesSpec!Spec

(* No timer is in the list twice, which would make the list a ring: a      *)
(* periodic timer is already back in the list when its handler, or anyone  *)
(* else, starts it (sysTimer.c:72 and 133).                                *)
ListedOnce ==
  \A i, j \in DOMAIN timers : timers[i] = timers[j] => i = j

(* A started timer is called, or stopped, whatever the others do, and      *)
(* however often a handler starts timers in the middle of the list         *)
(* (sysTimer.c:127-139).                                                   *)
TimersExpire ==
  \A t \in Timers : Started(t) ~> (firing = t \/ ~Started(t))
===============================================================================
