CONSTANTS
  Variant = "package"
  Entries <- EntryPoints
  Binding = "native"
  Work = 6
  MaxRuns = 3
SPECIFICATION Spec
INVARIANT TypeOK 
PROPERTY RunReturns
CHECK_DEADLOCK FALSE
