SPECIFICATION ServicesSpec
CONSTANTS
  Parts = {"manager", "command", "pool", "service", "sets", "files", "shm", "pubsub"}
  Clients = {c1}
  MgrOps = {"start", "stop", "restart", "remove", "add", "quit", "sigterm",
            "stopall", "clear", "shutdown"}
  MaxCalls = 2
  Tags = {t1}
  InsMaxFaults = 1
  Workers = {w1, w2, w3}
  MaxStarts = 2
  Direct = {j1}
  FrameId <- SameFrame
  RecvFaults = {"host", "payload", "empty", "ab", "de", "copy"}
  DataTimeout = TRUE
  Svc = {a, b}
  Gens = 2
  Watched = {a}
  Refusing = {b}
  Threshold = 1
  NoTag = none
  Owner = main
  Others = {o1}
  PoolTasks = {qtask, s1, j1}
  QTask = qtask
  Servers = {s1}
  Jobs = {j1}
  SetTasks = {"top", "seq", "a", "b", "c", "x", "recv1", "recv2", "set1", "set2", "save1", "save2"}
  AndSets = {"top", "set1", "set2"}
  SeqSets = {"seq"}
  Runners = {"recv1", "recv2"}
  Kids <- MCKids
  Extras = {"x"}
  Roots = {"top"}
  NumWorkers = 3
  LeafResults = {"ok", "bad", "error"}
  Groups <- MCGroups
  Transfers = {"save1", "save2"}
  NoFile = nofile
  OldFile = oldfile
  OldFrames = {}
  Writers = {w1, w2}
  Readers = {r1}
  Pixels = {p1}
  MaxWrites = 2
  Nodes <- MCNodes
  Channels <- MCChannels
  Nets <- CrashNets
  MaxTasks = 1
  MaxBunches = 3
PROPERTIES ManagerRestarts ManagerQuits CommandReports PoolCallsReturn ServiceWorks SetsFinish FilesAnswered ImageUsersServed SubscribersTold DeadSubscribersDropped
CHECK_DEADLOCK FALSE
