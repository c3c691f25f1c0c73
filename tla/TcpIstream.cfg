CONSTANTS
  c1 = c1
  c2 = c2
  Clients = {c1}
  Sizes = {1, 2}
  MaxReads = 3
  MaxBytes = 2
  MayReset = TRUE
  MaySendOob = TRUE
  MayClose = TRUE
SPECIFICATION FairSpec
INVARIANTS
  NoStrandedRead
  ReadsInOrder
  QuietWhenClosed
PROPERTY DataIsRead
CHECK_DEADLOCK FALSE
