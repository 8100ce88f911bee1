SPECIFICATION Spec
CONSTANTS
  MaxSymbols = 3
  Batch = 2
  Cancellers = {c1}
  MaxFaults = 1
INVARIANT FailureIsReported
CHECK_DEADLOCK FALSE
