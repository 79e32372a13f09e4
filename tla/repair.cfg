SPECIFICATION FairSpec
CONSTANTS
  Null = Null
  Garbled = Garbled
  Callers = {c1, c2}
  Inputs <- OneTriesEverything
  MaxCalls = 2
INVARIANTS TypeOK ResultIsVerdict OneOutcomePerCall LinksResolve
CHECK_DEADLOCK FALSE
PROPERTIES CallsEnd
