SPECIFICATION FairSpec
CONSTANTS
  ackWait = ackWait
  sending = sending
  aging = aging
  NULL = NULL
  Timers <- AllTimers
  Intervals <- SomeIntervals
  Periodic <- OnePeriodic
  TickLength = 2
  CountSize = 4
  PassTicks = 3
INVARIANTS
  ListedOnce
PROPERTIES
  ImplementsDeadlines
  TimersExpire
