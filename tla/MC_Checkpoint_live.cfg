\* Hints with two tasks that do not await inside morpheus_critical: every
\* published hint is acknowledged.
SPECIFICATION Spec
CONSTANTS
  Tasks = {t1, t2}
  MaxSeq = 3
  MaxDepth = 2
  DefensiveExit = 2
  SuspendInCritical = FALSE
PROPERTY HintAcknowledged
CHECK_DEADLOCK FALSE
