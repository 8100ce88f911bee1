SPECIFICATION HistorySpec
CONSTANTS
  Rows = {r1, r2}
  Recorders = {e1}
  Callers = {c1}
  Deleters = {}
  Recent = 1
  ZombieAge = 2
  Period = 1
  Delay = 1
  NoRow = NoRow
  MaxTime = 5
  MaxFaults = 0
INVARIANT ZombieMeansDead
CHECK_DEADLOCK FALSE
