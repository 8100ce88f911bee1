SPECIFICATION Spec
CONSTANTS
  t1 = t1
  t2 = t2
  t3 = t3
  u1 = u1
  u2 = u2
  Tasks <- MCThreeTasks
  Users = {u1}
  Owner <- MCOneOwner
  Workers = {w1, w2}
  Cancellers = {c1}
  Cleaners = {}
  UserLimit = 1
  GlobalLimit = 1
  NoTask = NoTask
  Outcomes = {"completed", "failed"}
  MaxCrashes = 1
SYMMETRY MCThreeTaskSymmetry
INVARIANTS
  TypeOK
  RecordBeforeReady
  NoLeakedSlot
  BoundedOvershoot
  SingleDelivery
  RunningIsCounted
  QueuedIsReachable
PROPERTY FinishedStays
CHECK_DEADLOCK FALSE
