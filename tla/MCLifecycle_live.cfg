SPECIFICATION FairSpec
CONSTANTS
  a = a
  b = b
  Service = {a, b}
  Edges <- OnceStarted
  Policy <- NoPolicy
  HasHealthcheck = {}
  Retries <- OneRetry
  ExitCode = {}
  Request <- StartRestartStop
  MaxRequests = 2
  MaxExits = 1
  MayFail = FALSE
  Cgroup = FALSE
INVARIANTS NoTransientAtRest
PROPERTIES SignalsFollowState RequestsFinish DroppedIsReaped StartupsResolve
\* A task that is stuck is what RequestsFinish and StartupsResolve report.
CHECK_DEADLOCK FALSE
