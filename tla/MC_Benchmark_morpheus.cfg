\* One morpheus-mode worker under kernel hints.
SPECIFICATION Spec
CONSTANTS
  Mode = "morpheus"
  Workers = 1
  Duration = 30
  ChunkTicks <- MCUnitChunks
  Native = TRUE
INVARIANT TypeOK
PROPERTY RunEnds
CHECK_DEADLOCK FALSE
