CONSTANTS
  c1 = c1
  t1 = t1
  t2 = t2
  t3 = t3
  Nothing = nothing
  Timers = {t1, t2}
  Clients = {c1}
  MaxTicks = 2
SPECIFICATION Spec
INVARIANTS
  ReadHandleValid
CHECK_DEADLOCK FALSE
