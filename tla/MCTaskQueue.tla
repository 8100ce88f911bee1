----------------------------- MODULE MCTaskQueue -----------------------------
(* Instances of TaskQueue for TLC.                                          *)
EXTENDS TaskQueueRefinement, TLC

CONSTANTS t1, t2, t3, u1, u2

MCTwoTasks == {t1, t2}
MCThreeTasks == {t1, t2, t3}

\* One user owns every task.
MCOneOwner == [t \in {t1, t2, t3} |-> u1]
MCOneOwnerOfTwo == [t \in {t1, t2} |-> u1]
\* The third task is another user's.
MCTwoOwners == [t \in {t1, t2, t3} |-> IF t = t3 THEN u2 ELSE u1]

\* The tasks of these instances have one owner, so they are interchangeable.
MCThreeTaskSymmetry == Permutations({t1, t2, t3}) \cup Permutations(Workers)
MCTwoTaskSymmetry == Permutations({t1, t2}) \cup Permutations(Workers)
=============================================================================
