SPECIFICATION Spec
CONSTANTS
  t1 = t1
  t2 = t2
  t3 = t3
  u1 = u1
  u2 = u2
  Tasks <- MCTwoTasks
  Users = {u1}
  Owner <- MCOneOwnerOfTwo
  Workers = {w1, w2}
  Cancellers = {}
  Cleaners = {k1}
  UserLimit = 1
  GlobalLimit = 1
  NoTask = NoTask
  Outcomes = {"completed"}
  MaxCrashes = 1
SYMMETRY MCTwoTaskSymmetry
INVARIANTS
  NoLeakedSlot
  RunningIsCounted
  SingleDelivery
PROPERTY RunsAtMostOnce
CHECK_DEADLOCK FALSE
