\* batch_process on a registered Celery worker thread under moving pressure.
SPECIFICATION Spec
CONSTANTS
  Program = "celery"
  Registered = TRUE
  Levels <- MCLevels
  MaxSeq = 1
  Blocks = 2
  Items = 102
  MaxRequests = 1
INVARIANT BatchGapBounded
CHECK_DEADLOCK FALSE
