SPECIFICATION MgrSpec
CONSTANTS
  Svc = {a, b}
  Gens = 2
  Watched = {}
  Clients = {c1, c2}
  MgrOps = {"start", "remove"}
  Refusing = {}
  Threshold = 1
  MaxCalls = 4
INVARIANTS StopsAllItControls
CHECK_DEADLOCK FALSE
