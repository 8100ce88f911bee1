SPECIFICATION Spec
CONSTANT Callers = {c1, c2}
PROPERTY SkippedOnlyWhileBusy
CHECK_DEADLOCK FALSE
