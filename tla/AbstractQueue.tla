---------------------------- MODULE AbstractQueue ----------------------------
(* What the task queue promises to its callers, one task at a time and with *)
(* no Redis key in sight: an accepted task waits, is run by one worker at   *)
(* most once, and ends.  It stops waiting without having run only if        *)
(* somebody asked for its cancellation.  A task whose visibility timeout    *)
(* passed, or on which a coroutine died, is "exempt": nothing is promised   *)
(* of it any more.                                                          *)
CONSTANT Tasks

VARIABLES stage,     \* where each task is in its life
          requested  \* the tasks whose cancellation was requested

vars == <<stage, requested>>

Stages == {"outside", "waiting", "running", "completed", "failed",
           "withdrawn", "exempt"}

Init == stage = [t \in Tasks |-> "outside"] /\ requested = {}

Move(t, from, to) ==
  /\ stage[t] = from
  /\ stage' = [stage EXCEPT ![t] = to]
  /\ UNCHANGED requested

Accept(t) == Move(t, "outside", "waiting")
Start(t) == Move(t, "waiting", "running")
Finish(t) == Move(t, "running", "completed") \/ Move(t, "running", "failed")
Withdraw(t) == t \in requested /\ Move(t, "waiting", "withdrawn")

Request(t) == requested' = requested \cup {t} /\ UNCHANGED stage

(* Any number of tasks at once; none is what a step of no interest does.     *)
Exempt ==
  /\ stage' \in [Tasks -> Stages]
  /\ \A t \in Tasks : stage'[t] \in {stage[t], "exempt"}
  /\ UNCHANGED requested

Next ==
  \/ Exempt
  \/ \E t \in Tasks : Accept(t) \/ Start(t) \/ Finish(t) \/ Withdraw(t) \/ Request(t)

Spec == Init /\ [][Next]_vars
=============================================================================
