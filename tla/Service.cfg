CONSTANTS
  c1 = c1
  c2 = c2
  Owner = c1
  LoopThread = loop
  Clients = {c1, c2}
  Stoppers = {c1}
  HandlersPost = TRUE
  HandlersStop = FALSE
  WaitMayThrow = FALSE
  MaxTasks = 2
  MaxEvents = 1
  MaxRuns = 1
SPECIFICATION FairServiceSpec
INVARIANT StopIsSafe
PROPERTIES
  PostedTaskRuns
  StopCompletes
  JoinReturns
CHECK_DEADLOCK FALSE
