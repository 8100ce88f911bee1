SPECIFICATION Spec
CONSTANTS
  Sec = 3
  Timeout = 2
  MaxTime = 24
INVARIANTS
  TypeOK
  TtlWins
PROPERTY NotStolenEarly
CHECK_DEADLOCK FALSE
