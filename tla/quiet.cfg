SPECIFICATION QuietSpec
CONSTANTS
  Paths <- TwoPaths
  Above <- NestedAbove
  Contents <- MCContents
  UserContents <- MCUserContents
  Absent = Absent
  Dir = Dir
  Null = Null
  Torn = "torn"
  Bundles <- NestedBundles
  Options <- FlawedOptions
  Callers = {c1}
  MaxRecords = 2
INVARIANTS TypeOK ReadsBackTargets MutationIsAuthorized
PROPERTIES OverwritesOnlyCaptured AllOrNothing
