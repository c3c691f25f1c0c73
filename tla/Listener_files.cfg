CONSTANTS
  MaxFiles = 1
  MaxPeers = 2
  MaxSignals = 1
SPECIFICATION ListenerSpec
INVARIANTS
  AssertionsHold
CHECK_DEADLOCK FALSE
