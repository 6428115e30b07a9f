SPECIFICATION LogFairSpec
CONSTANTS
  a = a
  Entry <- OneLine
  Backlog <- NoRows
  ClearCall <- NoClear
  Flusher = {}
  Retention = FALSE
  Cutoff = 4
  batch_size = 2
  CleanupBatch = 1
  MaxFaults = 1
PROPERTIES DegradedRevalidated
\* The writer thread may exit, or block on an empty channel.
CHECK_DEADLOCK FALSE
