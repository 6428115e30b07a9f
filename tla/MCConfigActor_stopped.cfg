SPECIFICATION MCSpec
CONSTANTS
  a = a
  Service = {a}
  Edges <- NoEdges
  Policy <- AlwaysPolicy
  HasHealthcheck = {}
  Retries <- MCRetries
  ExitCode = {1}
  MaxGeneration = 2
  MaxInstance = 1
  MaxSession = 0
INVARIANTS StoppedIsTerminal
