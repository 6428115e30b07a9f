SPECIFICATION LSpec
CONSTANTS
  a = a
  b = b
  Service = {a}
  Edges <- NoEdges
  Policy <- OnFailure
  HasHealthcheck = {}
  Retries <- OneRetry
  ExitCode = {0, 1}
  Request <- StartOnly
  MaxRequests = 1
  MaxExits = 2
  MayFail = FALSE
  Cgroup = FALSE
INVARIANTS RunningHasProcess
