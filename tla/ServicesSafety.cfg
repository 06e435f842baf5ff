SPECIFICATION ServicesSpec
CONSTANTS
  Parts = {"manager", "command", "pool", "service", "sets", "files", "shm", "pubsub"}
  Clients = {c1, c2}
  MgrOps = {"start", "stop", "restart", "remove", "set_restart", "add", "quit", "sigterm",
            "restartall", "stopall"}
  MaxCalls = 2
  Tags = {t1, t2}
  InsMaxFaults = 1
  Workers = {w1, w2, w3}
  MaxStarts = 2
  Direct = {qtask, j1}
  FrameId <- SameFrame
  RecvFaults = {"copy", "framedb"}
  DataTimeout = TRUE
  Svc = {a, b}
  Gens = 2
  Watched = {a}
  Refusing = {b}
  Threshold = 1
  NoTag = none
  Owner = main
  Others = {o1}
  PoolTasks = {qtask, s1, j1}
  QTask = qtask
  Servers = {s1}
  Jobs = {j1}
  SetTasks = {"top", "seq", "a", "b", "c", "x", "recv1", "recv2", "set1", "set2", "save1", "save2"}
  AndSets = {"top", "set1", "set2"}
  SeqSets = {"seq"}
  Runners = {"recv1", "recv2"}
  Kids <- MCKids
  Extras = {"x"}
  Roots = {"top"}
  NumWorkers = 5
  LeafResults = {"ok", "bad", "error"}
  Groups <- MCGroups
  Transfers = {"save1", "save2"}
  NoFile = nofile
  OldFile = oldfile
  OldFrames = {"frame1"}
  Writers = {w1, w2}
  Readers = {r1}
  Pixels = {p1}
  MaxWrites = 2
  Nodes <- MCNodes
  Channels <- MCChannels
  Nets <- FaultyNets
  MaxTasks = 1
  MaxBunches = 3
INVARIANTS ServicesTypeOK StoppedStaysStopped AutoRestartBudget OkOnlyIfEnded NoFalseFailure StatusMatches StoppedMeansGone SetsAreConclusive ReceivedIsOnDisk CounterNeverAhead NoCyclicUpdates
CHECK_DEADLOCK FALSE
