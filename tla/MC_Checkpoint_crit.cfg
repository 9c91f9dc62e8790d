\* Interleaved critical scopes of two tasks, with awaits, exceptions and
\* cancellations inside them.
SPECIFICATION Spec
CONSTANTS
  Tasks = {t1, t2}
  MaxSeq = 3
  MaxDepth = 2
  DefensiveExit = 2
  SuspendInCritical = TRUE
SYMMETRY TaskSymmetry
INVARIANT TypeOK CritAccounting
CHECK_DEADLOCK FALSE
