SPECIFICATION Spec
CONSTANTS
  Null = Null
  Garbled = Garbled
  Checks = {"t1", "s1"}
  Assertions = {"a1", "a2"}
  Fields = {"confidence", "provenance"}
  Callers = {c1}
  Invocations <- OnlyTold
  MaxCalls = 1
INVARIANTS EveryLinkResolves
CHECK_DEADLOCK FALSE
