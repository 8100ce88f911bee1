SPECIFICATION Spec
CONSTANTS
  Sec = 3
  Timeout = 2
  MaxTime = 24
INVARIANT DeadWorkersTaskIsRecoverable
CHECK_DEADLOCK FALSE
