SPECIFICATION Spec
CONSTANTS
  Rows = {r1, r2}
  Recorders = {e1}
  Callers = {c1}
  Deleters = {d1}
  Recent = 0
  ZombieAge = 1
  Period = 1
  Delay = 1
  NoRow = NoRow
  MaxTime = 3
  MaxFaults = 0
SYMMETRY MCSymmetry
INVARIANTS
  TypeOK
PROPERTIES
  SuccessIsNoZombie
  RunningRowsAreKept
  RowsLiveOnce
CHECK_DEADLOCK FALSE
