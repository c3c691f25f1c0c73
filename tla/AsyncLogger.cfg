CONSTANTS
  w1 = w1
  w2 = w2
  Writers = {w1, w2}
  CallbackPosts = TRUE
  MaxRecords = 5
SPECIFICATION FairSpec
INVARIANTS
  DataValid
  SleepJustified
  DrainedAtJoin
PROPERTIES
  LoggerProgress
  LogExecutorSpec
CHECK_DEADLOCK FALSE
