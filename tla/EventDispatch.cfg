CONSTANTS
  c1 = c1
  l1 = l1
  l2 = l2
  l3 = l3
  Nothing = nothing
  LoopThread = loop
  Clients = {c1}
  Listeners = {l1, l2, l3}
  MaxEvents = 2
  MaxEdges = 3
SPECIFICATION FairSpec
INVARIANTS
  OwnCloseIsFinal
  RoundUndisturbed
  OneStaleDispatch
PROPERTY EdgeHandled
CHECK_DEADLOCK FALSE
