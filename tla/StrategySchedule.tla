--------------------------- MODULE StrategySchedule ---------------------------
(***************************************************************************)
(* The daily jobs of strategies: rows of strategy_definitions, which       *)
(* requests create and edit (app/services/strategy_task_service.py), and   *)
(* one APScheduler job for each of them, which                             *)
(* register_enabled_strategy_jobs takes away and adds again when the       *)
(* process starts and every ten minutes (app/main.py).  An edit reads a    *)
(* row and commits it later; since a request may ask for anything, what    *)
(* it commits may be anything too, and the commit alone is its step.  The  *)
(* loop that adds the jobs does not suspend.  What a job does when it is   *)
(* due changes nothing here.                                               *)
(***************************************************************************)

CONSTANT Strategies

VARIABLES
  strategyStatus,  \* status of each row, or "absent"
  plan,            \* its schedule: not enabled, enabled, or with a crontab
                   \* expression that does not parse
  cronJob,         \* APScheduler's job for it
  found,           \* the plan of each enabled row the last SELECT read
  planner          \* progress of register_enabled_strategy_jobs

scheduleVars == <<strategyStatus, plan, cronJob, found, planner>>

Plans == {"off", "daily", "broken"}

ScheduleTypeOK ==
  /\ strategyStatus \in [Strategies -> {"absent", "draft", "enabled", "disabled"}]
  /\ plan \in [Strategies -> Plans] /\ found \in [Strategies -> Plans]
  /\ cronJob \in [Strategies -> {"none", "armed", "paused"}]
  /\ planner \in {"down", "startLook", "startAdd", "idle", "look", "add"}

ScheduleInit ==
  /\ strategyStatus = [s \in Strategies |-> "absent"]
  /\ plan = [s \in Strategies |-> "off"] /\ found = [s \in Strategies |-> "off"]
  /\ cronJob = [s \in Strategies |-> "none"] /\ planner = "down"

-----------------------------------------------------------------------------
(* Requests, which the process takes once it has started.                   *)
Serves == planner \in {"idle", "look", "add"}

\* A strategy that is created enabled has its schedule enabled as well.
CreateStrategy(s) ==
  /\ Serves /\ strategyStatus[s] = "absent"
  /\ \E q \in {"draft", "enabled"}, p \in Plans :
       /\ q = "enabled" => p # "off"
       /\ strategyStatus' = [strategyStatus EXCEPT ![s] = q]
       /\ plan' = [plan EXCEPT ![s] = p]
  /\ UNCHANGED <<cronJob, found, planner>>

\* One that is enabled later keeps the schedule it has, unless it is given one.
UpdateStrategy(s) ==
  /\ Serves /\ strategyStatus[s] # "absent"
  /\ \E q \in {strategyStatus[s], "enabled", "disabled"}, p \in Plans :
       /\ strategyStatus' = [strategyStatus EXCEPT ![s] = q]
       /\ plan' = [plan EXCEPT ![s] = p]
  /\ UNCHANGED <<cronJob, found, planner>>

PauseJob(s) ==
  /\ Serves /\ cronJob[s] # "none"
  /\ cronJob' = [cronJob EXCEPT ![s] = "paused"]
  /\ UNCHANGED <<strategyStatus, plan, found, planner>>

ResumeJob(s) ==
  /\ Serves /\ cronJob[s] # "none"
  /\ cronJob' = [cronJob EXCEPT ![s] = "armed"]
  /\ UNCHANGED <<strategyStatus, plan, found, planner>>

-----------------------------------------------------------------------------
(* The process and its scheduler, which keeps its jobs in memory.           *)
StartUp ==
  /\ planner = "down" /\ planner' = "startLook"
  /\ UNCHANGED <<strategyStatus, plan, cronJob, found>>

GoesDown == planner' = "down" /\ cronJob' = [s \in Strategies |-> "none"]

ProcessStops == planner # "down" /\ GoesDown /\ UNCHANGED <<strategyStatus, plan, found>>

-----------------------------------------------------------------------------
(* register_enabled_strategy_jobs.                                          *)

MutRemoveJobs ==  \* replace_existing is trusted to do it
  /\ planner = "idle" /\ planner' = "look"
  /\ UNCHANGED <<strategyStatus, plan, cronJob, found>>

\* Ten minutes are over.
RemoveJobs ==
  /\ planner = "idle" /\ planner' = "look"
  /\ cronJob' = [s \in Strategies |-> "none"]
  /\ UNCHANGED <<strategyStatus, plan, found>>

Wanted(s) == strategyStatus[s] = "enabled" /\ plan[s] # "off"

FindEnabled ==
  /\ planner \in {"startLook", "look"}
  /\ planner' = IF planner = "look" THEN "add" ELSE "startAdd"
  /\ found' = [s \in Strategies |-> IF Wanted(s) THEN plan[s] ELSE "off"]
  /\ UNCHANGED <<strategyStatus, plan, cronJob>>

\* An exception ends the start of the process, or this turn of the job.
Raises(adding) ==
  /\ planner' \in {"down", "idle"}
  /\ planner' = "down" <=> planner \in {"startLook", "startAdd"}
  /\ cronJob' = [s \in Strategies |->
       IF planner' = "down" THEN "none" ELSE IF s \in adding THEN "armed" ELSE cronJob[s]]
  /\ UNCHANGED <<strategyStatus, plan, found>>

FindFails == planner \in {"startLook", "look"} /\ Raises({})

Daily == {s \in Strategies : found[s] = "daily"}

AddJobs ==
  /\ planner \in {"startAdd", "add"} /\ \A s \in Strategies : found[s] # "broken"
  /\ planner' = "idle"
  /\ cronJob' = [s \in Strategies |-> IF s \in Daily THEN "armed" ELSE cronJob[s]]
  /\ UNCHANGED <<strategyStatus, plan, found>>

\* The expression of one row does not parse: those the SELECT, which states
\* no order, read after it get no job.
AddFails ==
  /\ planner \in {"startAdd", "add"} /\ \E s \in Strategies : found[s] = "broken"
  /\ \E adding \in SUBSET Daily : Raises(adding)

PlannerProceeds == RemoveJobs \/ FindEnabled \/ FindFails \/ AddJobs \/ AddFails

ScheduleNext ==
  \/ StartUp \/ ProcessStops \/ PlannerProceeds
  \/ \E s \in Strategies :
       CreateStrategy(s) \/ UpdateStrategy(s) \/ PauseJob(s) \/ ResumeJob(s)

ScheduleSpec == ScheduleInit /\ [][ScheduleNext]_scheduleVars

-----------------------------------------------------------------------------
(* Whatever was edited since and however the process came up, a job belongs *)
(* to a strategy that the last look found enabled, with a schedule that is, *)
(* and between a removal and the next adding there is none.                 *)
JobsWereFound ==
  \A s \in Strategies :
    cronJob[s] # "none" => found[s] = "daily" /\ planner = "idle"

(* A strategy that nobody wants any more stops: its job is gone for good in *)
(* the end, whatever becomes of the looks, of other rows' expressions, of   *)
(* pauses and of the process.                                               *)
StoppedStrategiesStop == \A s \in Strategies : <>[]~Wanted(s) => <>[](cronJob[s] = "none")
=============================================================================
