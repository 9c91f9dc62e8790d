\* Two loops over one checker, ten iterations each, pressure over three levels
\* and absent.
CONSTANTS
  MinInterval = 2
  MaxInterval = 4
  Iterations = 10
  Loops = 2
  Levels <- MCLevels
  Absent = Absent
SPECIFICATION Spec
INVARIANT TypeOK GapBounded
PROPERTY ChecksSpaced
