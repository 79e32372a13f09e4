SPECIFICATION FairSpec
CONSTANTS
  Paths = {".", "d", "d/a.ts", "b.bin", "i", "g.ts"}
  Root = "."
  Parent <- In
  Contents = {"short", "long"}
  Dir = Dir
  Absent = Absent
  SizeOf <- Sizes
  Ignored = {"i"}
  GitIgnored = {"g.ts"}
  Matchable = {"d/a.ts", "g.ts"}
  MaxTextScanBytes = 2
  Branches = {"main", "topic"}
  InitialTrees <- OneTree
  Null = Null
  Idle = Idle
  MaxChanges = 3
INVARIANTS
  TypeOK
  EachPathWasSo
  DirtIsNoticed
  UndisturbedIsExact
PROPERTY ScansEnd
CHECK_DEADLOCK FALSE
