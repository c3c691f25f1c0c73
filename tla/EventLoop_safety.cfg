CONSTANTS
  c1 = c1
  c2 = c2
  LoopThread = loop
  Clients = {c1, c2}
  Stoppers = {c1, c2}
  HandlersPost = TRUE
  HandlersStop = TRUE
  WaitMayThrow = TRUE
  MaxTasks = 3
  MaxEvents = 1
  MaxRuns = 2
SPECIFICATION Spec
SYMMETRY ClientSymmetry
INVARIANTS
  SleepJustified
  OneHandlerAfterStop
PROPERTY ExecutorSpec
CHECK_DEADLOCK FALSE
