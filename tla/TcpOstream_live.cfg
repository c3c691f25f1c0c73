CONSTANTS
  c1 = c1
  c2 = c2
  Clients = {c1}
  BufferSize = 2
  Sizes = {1, 3}
  MaxBytes = 3
  MaxOob = 0
  MaxSwitches = 2
  PartialSends = FALSE
  MayReset = TRUE
  MayClose = TRUE
SPECIFICATION FairSpec
PROPERTY DataIsSent
CHECK_DEADLOCK FALSE
