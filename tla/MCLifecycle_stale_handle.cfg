SPECIFICATION LSpec
CONSTANTS
  a = a
  b = b
  Service = {a}
  Edges <- NoEdges
  Policy <- NoPolicy
  HasHealthcheck = {}
  Retries <- OneRetry
  ExitCode = {0}
  Request <- StartRestart
  MaxRequests = 2
  MaxExits = 1
  MayFail = FALSE
  Cgroup = FALSE
PROPERTIES StaleExitKeepsHandle
