CONSTANTS
  n1 = n1
  n2 = n2
  n3 = n3
  n4 = n4
  n5 = n5
  n6 = n6
  n7 = n7
  o1 = o1
  o2 = o2
  o3 = o3
  Nodes = {n1, n2, n3, n4, n5, n6, n7}
  Objects = {o1, o2, o3}
  Null = null
  Stray = stray
  Reserve = 1
  MaxSize = 4
  Heads = {h1, h2}
  Entries = {e1, e2, e3}
  Poison = poison
  OutBufs = {p1, p2}
  InBufs = {b1, b2}
  SourceSize = 2
  MemorySize = 2
  MaxWire = 2
  SizeLimit = 8
  Socks = {s1, s2}
  Fds = {f1, f2}
  OptionsUsed = {"nonblock", "keepalive"}
  Threads = {t1, t2, t3}
  MaxDepth = 2
  Permits = 2
  MaxRefused = 2
  ThreadObjects = {d1, d2}
  QueueTimers = {q1, q2}
  Callers = {c1}
  MaxNow = 3
  Forever = 9
  MaxFiles = 4
  MaxPeers = 4
  MaxSignals = 1
  BarrierThreads = {u1, u2, u3, u4}
  MaxRounds = 2
SPECIFICATION BaseSpec
INVARIANTS
  ContainerSound
  ListsIntact
  BuffersFaithful
  SocketsOwnDescriptors
  LocksCounted
  ThreadsReleasedOnce
  BarrierMeets
  TimersServed
  NoStrandedConnection
PROPERTIES
  BacklogDrained
  MeetingSpec
CHECK_DEADLOCK FALSE
