SPECIFICATION MCSpec
CONSTANTS
  e1 = e1
  e2 = e2
  e3 = e3
  events <- MCevents
  ManualReset = {e2}
  NoEvent = NoEvent
  GroupWaiters = {g1, g2}
  EventWaiters = {w1}
  Setters = {t1, t2}
  Threads = {r1, r2, r3, r4}
  NoThread = NoThread
  MaxNesting = 2
  ClockModulus = 6
  Timeouts = {1, 3}
  MaxLate = 1
INVARIANTS
  NoSleepOnSignaled
  ReadersOrOwner
PROPERTIES
  TimersCallBack
CHECK_DEADLOCK FALSE
