CONSTANTS
  c1 = c1
  t1 = t1
  t2 = t2
  t3 = t3
  Nothing = nothing
  Timers = {t1, t2, t3}
  Clients = {c1}
  MaxTicks = 3
SPECIFICATION FairSpec
INVARIANTS
  TimersSound
PROPERTY ExpiredIsHandled
CHECK_DEADLOCK FALSE
