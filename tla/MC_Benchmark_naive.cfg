\* The naive mode with two workers: the probe's samples and the length of the run.
SPECIFICATION Spec
CONSTANTS
  Mode = "naive"
  Workers = 2
  Duration = 60
  ChunkTicks <- MCChunks
  Native = TRUE
INVARIANT LatencyBounded DurationHonest
CHECK_DEADLOCK FALSE
