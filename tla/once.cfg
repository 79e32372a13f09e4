SPECIFICATION OnceSpec
CONSTANTS
  Paths <- TwoPaths
  Above <- FlatAbove
  Contents <- StackContents
  UserContents <- MCUserContents
  Absent = Absent
  Dir = Dir
  Null = Null
  Torn = "torn"
  Bundles <- StackBundles
  Options <- FullAndDryRun
  Callers = {c1}
  MaxRecords = 5
INVARIANTS NeverStranded
PROPERTIES ImplementsUndoLog
CHECK_DEADLOCK FALSE
