CONSTANTS
  c1 = c1
  c2 = c2
  Clients = {c1, c2}
  BufferSize = 2
  Sizes = {1, 2}
  MaxBytes = 3
  MaxOob = 1
  MaxSwitches = 1
  PartialSends = TRUE
  MayReset = TRUE
  MayClose = TRUE
SPECIFICATION Spec
SYMMETRY ClientSymmetry
INVARIANTS
  IndicesValid
  NoStrandedWrite
  StreamIntact
CHECK_DEADLOCK FALSE
