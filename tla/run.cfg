SPECIFICATION FairSpec
CONSTANTS
  Null = Null
  Garbled = Garbled
  Checks = {"t1", "s1"}
  Assertions = {"a1", "a2"}
  Fields = {"confidence", "provenance"}
  Callers = {c1, c2}
  Invocations <- OneTriesEverything
  MaxCalls = 2
INVARIANTS TypeOK RecordsTellOutcome LinksResolve MoreEvidenceNeverBlocks ContinuedIsVerified
PROPERTIES ImplementsPureRun CallsEnd
CHECK_DEADLOCK FALSE
