SPECIFICATION LSpec
CONSTANTS
  a = a
  b = b
  Service = {a}
  Edges <- NoEdges
  Policy <- NoPolicy
  HasHealthcheck = {a}
  Retries <- OneRetry
  ExitCode = {0, 1}
  Request <- EveryKind
  MaxRequests = 1
  MaxExits = 2
  MayFail = TRUE
  Cgroup = TRUE
INVARIANTS RunningHasProcess ProcessIsShown
