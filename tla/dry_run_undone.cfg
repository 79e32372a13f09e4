SPECIFICATION QuietSpec
CONSTANTS
  Paths <- OnePath
  Above <- OneAbove
  Contents <- MCContents
  UserContents <- MCUserContents
  Absent = Absent
  Dir = Dir
  Null = Null
  Torn = "torn"
  Bundles <- OnePathBundles
  Options <- FullAndDryRun
  Callers = {c1}
  MaxRecords = 2
INVARIANTS RollbackUndoesAnApply
