SPECIFICATION Spec
CONSTANTS
  Paths <- OnePath
  Above <- OneAbove
  Contents <- MCContents
  UserContents <- MCUserContents
  Absent = Absent
  Dir = Dir
  Null = Null
  Torn = "torn"
  Bundles <- OnePathBundles
  Options <- OneFullOptions
  Callers = {c1, c2}
  MaxRecords = 2
INVARIANTS RestoredIsPrior
PROPERTIES CallsEnd
