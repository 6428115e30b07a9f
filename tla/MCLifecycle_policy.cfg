SPECIFICATION LSpec
CONSTANTS
  a = a
  b = b
  Service = {a}
  Edges <- NoEdges
  Policy <- OnFailure
  HasHealthcheck = {}
  Retries <- OneRetry
  ExitCode = {1}
  Request <- EveryKind
  MaxRequests = 2
  MaxExits = 1
  MayFail = TRUE
  Cgroup = FALSE
INVARIANTS EveryProcessReachable NoTransientAtRest
PROPERTIES ActorSpec
