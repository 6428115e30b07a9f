SPECIFICATION LSpec
CONSTANTS
  a = a
  b = b
  Service = {a}
  Edges <- NoEdges
  Policy <- NoPolicy
  HasHealthcheck = {}
  Retries <- OneRetry
  ExitCode = {0}
  Request <- EveryKind
  MaxRequests = 3
  MaxExits = 0
  MayFail = TRUE
  Cgroup = FALSE
INVARIANTS LTypeOK OneProcessPerService NoTransientAtRest
