SPECIFICATION Spec
CONSTANTS
  t1 = t1
  t2 = t2
  t3 = t3
  u1 = u1
  u2 = u2
  Tasks <- MCThreeTasks
  Users = {u1, u2}
  Owner <- MCTwoOwners
  Workers = {w1, w2}
  Cancellers = {}
  Cleaners = {}
  UserLimit = 1
  GlobalLimit = 2
  NoTask = NoTask
  Outcomes = {"completed", "failed"}
  MaxCrashes = 0

INVARIANT UserLimitHolds
CHECK_DEADLOCK FALSE
