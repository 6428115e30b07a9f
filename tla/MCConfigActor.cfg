SPECIFICATION MCSpec
CONSTANTS
  a = a
  Service = {a}
  Edges <- NoEdges
  Policy <- NoPolicy
  HasHealthcheck = {a}
  Retries <- MCRetries
  ExitCode = {1}
  MaxGeneration = 2
  MaxInstance = 2
  MaxSession = 2
INVARIANTS TypeOK ClaimsAreCurrent NoStartupGrantedTwice GrantsArePast HealthSessionOfLiveInstance
PROPERTIES CancelledStaysCancelled SignalsFollowState
