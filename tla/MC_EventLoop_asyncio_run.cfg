CONSTANTS
  Variant = "package"
  Entries <- MCEntriesDocumented
  Binding = "native"
  Work = 6
  MaxRuns = 3
SPECIFICATION Spec
INVARIANT EntryRuns
CHECK_DEADLOCK FALSE
