SPECIFICATION Spec
CONSTANTS
  Rows = {r1}
  Recorders = {e1}
  Callers = {c1}
  Deleters = {d1}
  Recent = 0
  ZombieAge = 1
  Period = 2
  Delay = 1
  NoRow = NoRow
  MaxTime = 5
  MaxFaults = 2
INVARIANT RunningRowsGetClosed
PROPERTY RowsLiveOnce
CHECK_DEADLOCK FALSE
