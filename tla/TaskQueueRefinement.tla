------------------------- MODULE TaskQueueRefinement -------------------------
(* TaskQueue as an AbstractQueue: where a task is follows from the ready    *)
(* list, from the workers' hands and from the sets of finished tasks, never *)
(* from the "status" field, which a cancellation may overwrite at any time. *)
EXTENDS TaskQueue

Held(t) == \E w \in Workers : wtask[w] = t
HeldToDequeue(t) == \E w \in Workers : wtask[w] = t /\ wpc[w] \in Dequeuing

Place(t) ==
  IF t \in expiries \cup abandoned THEN "exempt"
  ELSE IF InReady(t) \/ HeldToDequeue(t) THEN "waiting"
  ELSE IF Held(t) THEN "running"
  ELSE IF enq[t] # "done" THEN "outside"
  ELSE IF t \in completed THEN "completed"
  ELSE IF t \in failed THEN "failed"
  ELSE "withdrawn"

Stage == [t \in Tasks |-> Place(t)]

Abstract == INSTANCE AbstractQueue WITH stage <- Stage, requested <- cancels

(* The Redis commands of all the coroutines together do no more than the    *)
(* abstract queue allows: no task is run twice, none is forgotten between   *)
(* the list and a worker, none leaves the list unrun without a request.     *)
RunsAtMostOnce == Abstract!Spec
=============================================================================
