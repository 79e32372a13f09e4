SPECIFICATION Spec
CONSTANTS
  Null = Null
  Garbled = Garbled
  Callers = {c1}
  Inputs <- Masked
  MaxCalls = 1
INVARIANTS HardStopsStop
CHECK_DEADLOCK FALSE
