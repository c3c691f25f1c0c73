CONSTANTS
  c1 = c1
  c2 = c2
  LoopThread = loop
  Clients = {c1, c2}
  MaxCalls = 3
SPECIFICATION FairSpec
INVARIANTS
  ClosedOnce
  LateTasksBounded
PROPERTY CloseAnswered
CHECK_DEADLOCK FALSE
