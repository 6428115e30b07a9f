SPECIFICATION LogSpec
CONSTANTS
  a = a
  Entry <- TwoLinesAndRow
  Backlog <- OneRow
  ClearCall <- ClearHooks
  Flusher = {1}
  Retention = TRUE
  Cutoff = 4
  batch_size = 2
  CleanupBatch = 1
  MaxFaults = 3
INVARIANTS LogTypeOK PendingCountExact FlushSyncMeansStored OnlyOutagesLose RowsInOrder ClearedStaysCleared NobodyForgotten
\* The writer thread may exit, or block on an empty channel.
CHECK_DEADLOCK FALSE
