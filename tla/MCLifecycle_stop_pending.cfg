SPECIFICATION LSpec
CONSTANTS
  a = a
  b = b
  Service = {a}
  Edges <- NoEdges
  Policy <- OnFailure
  HasHealthcheck = {}
  Retries <- OneRetry
  ExitCode = {1}
  Request <- StartStop
  MaxRequests = 2
  MaxExits = 1
  MayFail = FALSE
  Cgroup = FALSE
PROPERTIES StopCancelsPendingStartup
