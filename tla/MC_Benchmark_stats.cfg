\* The blocking mode with two workers.
SPECIFICATION Spec
CONSTANTS
  Mode = "blocking"
  Workers = 2
  Duration = 40
  ChunkTicks <- MCChunks
  Native = TRUE
INVARIANT ReportComputes
CHECK_DEADLOCK FALSE
