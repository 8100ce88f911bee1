---------------------------- MODULE JobExecutions ----------------------------
(***************************************************************************)
(* The execution records of one scheduled job: the rows SchedulerService   *)
(* (app/services/scheduler_service.py) keeps in scheduler_executions while *)
(* APScheduler runs the job, users trigger it, mark a row as failed or     *)
(* delete one, and the zombie check closes rows that stay "running".       *)
(* A row is not linked to the run it announces: the listeners pick the     *)
(* latest "running" row that is young enough, or insert another one.       *)
(*                                                                         *)
(* The listeners and the job of the check belong to the service, which the *)
(* process does not start with: its first user creates it, and the job of  *)
(* the check may be paused, resumed and triggered like any other.          *)
(*                                                                         *)
(* Each action is one committed statement or one read.  Time is a counter; *)
(* Tick waits for statements that take Delay and for a check that is timed *)
(* and due, so now - rowAt[i] is a row's real age.  update_job_progress is left out:*)
(* its only caller passes an unknown keyword and never awaits it, so no    *)
(* progress is ever written and cancel_requested is never read.            *)
(***************************************************************************)
EXTENDS Naturals, FiniteSets

CONSTANTS
  Rows,       \* bound: ids the table may hand out
  Recorders,  \* bound: listener coroutines at work at the same time
  Callers,    \* concurrent trigger_job calls
  Deleters,   \* concurrent delete_execution calls
  Recent,     \* 5 minutes: the age up to which a listener finds a row
  ZombieAge,  \* 30 minutes: the age past which the check closes a row
  Period,     \* 5 minutes: the interval of the check
  Delay,      \* the longest time between two statements of one coroutine
  NoRow,
  MaxTime,    \* bound: how long a behaviour lasts
  MaxFaults   \* bound: restarts of the process, and checks that fail or are missed

ASSUME TimesAssumption ==
  /\ Recent \in Nat /\ ZombieAge \in Nat /\ Period \in Nat \ {0} /\ Delay \in Nat
  /\ Recent + Delay <= ZombieAge
  /\ MaxTime \in Nat /\ MaxFaults \in Nat
ASSUME NoRowAssumption == NoRow \notin Rows

VARIABLES
  now,
  status, rowAt,          \* the table: status and timestamp of each row
  sched,                  \* next_run_time of the job: none, the trigger's, or now
  run,                    \* its only instance (max_instances is 1)
  rpc, outcome, target, foundAt,  \* the _record_job_execution of each listener
  tpc,                    \* each trigger_job call
  dpc, drow,              \* each delete_execution call
  check, zombieDue,       \* the job of the zombie check ("none": no service), its next run
  zpc, zset, scannedAt,   \* its run
  calmSince, faults       \* history: when the check was last armed, missed or in error

table == <<status, rowAt>>
aps == <<sched, run>>
listeners == <<rpc, outcome, target, foundAt>>
deletes == <<dpc, drow>>
checkJob == <<check, zombieDue>>
checkRun == <<zpc, zset, scannedAt>>
zombies == <<checkJob, checkRun>>
process == <<calmSince, faults>>
vars == <<now, table, aps, listeners, tpc, deletes, zombies, process>>

Closed == {"success", "failed", "missed", "zombie"}
Statuses == {"none", "running", "gone"} \cup Closed
Busy == {"look", "update", "insert"}

Init ==
  /\ now = 0
  /\ status = [i \in Rows |-> "none"] /\ rowAt = [i \in Rows |-> 0]
  /\ sched \in {"timed", "paused"} /\ run = "none"
  /\ rpc = [e \in Recorders |-> "idle"] /\ outcome = [e \in Recorders |-> "none"]
  /\ target = [e \in Recorders |-> NoRow] /\ foundAt = [e \in Recorders |-> 0]
  /\ tpc = [c \in Callers |-> "idle"]
  /\ dpc = [d \in Deleters |-> "idle"] /\ drow = [d \in Deleters |-> NoRow]
  /\ check = "none" /\ zombieDue = 0
  /\ zpc = "idle" /\ zset = {} /\ scannedAt = 0
  /\ calmSince = 0 /\ faults = 0

Insert(i, st) ==
  /\ status[i] = "none"
  /\ status' = [status EXCEPT ![i] = st]
  /\ rowAt' = [rowAt EXCEPT ![i] = now]

-----------------------------------------------------------------------------
(* get_scheduler_service.  The first request that needs the service creates  *)
(* it, which adds the listeners and the job of the check.                    *)

CreateService ==
  /\ check = "none"
  /\ check' = "timed" /\ zombieDue' = now + Period
  /\ calmSince' = now
  /\ UNCHANGED <<now, table, aps, listeners, tpc, deletes, checkRun, faults>>

ServiceIsUp == check # "none"

\* pause_job, resume_job and trigger_job of the check itself.
PauseCheck ==
  /\ check = "timed"
  /\ check' = "paused" /\ zombieDue' = 0 /\ calmSince' = 0
  /\ UNCHANGED <<now, table, aps, listeners, tpc, deletes, checkRun, faults>>

\* Its trigger times it again, within an interval, whether it was paused or not.
ResumeCheck ==
  /\ ServiceIsUp
  /\ check' = "timed" /\ zombieDue' \in now..(now + Period)
  /\ calmSince' = now
  /\ UNCHANGED <<now, table, aps, listeners, tpc, deletes, checkRun, faults>>

TriggerCheck ==
  /\ ServiceIsUp
  /\ check' = "timed" /\ zombieDue' = now
  /\ calmSince' = IF check = "paused" THEN now ELSE calmSince
  /\ UNCHANGED <<now, table, aps, listeners, tpc, deletes, checkRun, faults>>

-----------------------------------------------------------------------------
(* The scheduler, as the service uses it: a paused job has no next run time, *)
(* a job that is due runs unless its instance still does, and is then timed  *)
(* again by its trigger.                                                     *)

PauseOrResume ==
  /\ ServiceIsUp
  /\ sched' \in {"timed", "paused"} \ {sched}
  /\ UNCHANGED <<now, table, run, listeners, tpc, deletes, zombies, process>>

CronFires ==
  /\ sched = "timed"
  /\ sched' = "due"
  /\ UNCHANGED <<now, table, run, listeners, tpc, deletes, zombies, process>>

RunStarts ==
  /\ sched = "due"
  /\ sched' = "timed" /\ run' = "active"
  /\ UNCHANGED <<now, table, listeners, tpc, deletes, zombies, process>>

Listen(e, result) ==
  /\ rpc[e] = "idle"
  /\ rpc' = [rpc EXCEPT ![e] = IF result = "missed" THEN "insert" ELSE "look"]
  /\ outcome' = [outcome EXCEPT ![e] = result]
  /\ UNCHANGED <<target, foundAt>>

\* One of the listeners is called with the outcome of a run or of a missed one,
\* if there are listeners.
Heard(e, result) ==
  IF ServiceIsUp THEN Listen(e, result) ELSE UNCHANGED listeners

RunMissed(e) ==
  /\ sched = "due" /\ run = "none"
  /\ sched' = "timed"
  /\ Heard(e, "missed")
  /\ UNCHANGED <<now, table, run, tpc, deletes, zombies, process>>

RunEnds(e, result) ==
  /\ run = "active"
  /\ run' = "none"
  /\ Heard(e, result)
  /\ UNCHANGED <<now, table, sched, tpc, deletes, zombies, process>>

-----------------------------------------------------------------------------
(* _record_job_execution with status "success" or "failed".                 *)

MutYoung == {i \in Rows : status[i] = "running"}  \* no look at the timestamp

Young == {i \in Rows : status[i] = "running" /\ rowAt[i] + Recent >= now}

MutRecordLook(e) ==  \* no look whether a row was found
  /\ rpc[e] = "look"
  /\ foundAt' = [foundAt EXCEPT ![e] = now]
  /\ rpc' = [rpc EXCEPT ![e] = "update"]
  /\ \E i \in IF Young = {} THEN {NoRow} ELSE Young :
       target' = [target EXCEPT ![e] = i]
  /\ UNCHANGED <<now, table, aps, outcome, tpc, deletes, zombies, process>>

RecordLook(e) ==
  /\ rpc[e] = "look"
  /\ foundAt' = [foundAt EXCEPT ![e] = now]
  /\ IF Young = {}
       THEN /\ rpc' = [rpc EXCEPT ![e] = "insert"]
            /\ UNCHANGED target
       ELSE \E i \in Young :
              /\ \A j \in Young : rowAt[j] <= rowAt[i]
              /\ target' = [target EXCEPT ![e] = i]
              /\ rpc' = [rpc EXCEPT ![e] = "update"]
  /\ UNCHANGED <<now, table, aps, outcome, tpc, deletes, zombies, process>>

ListenerEnds(e) ==
  /\ rpc' = [rpc EXCEPT ![e] = "idle"]
  /\ outcome' = [outcome EXCEPT ![e] = "none"]
  /\ target' = [target EXCEPT ![e] = NoRow]
  /\ foundAt' = [foundAt EXCEPT ![e] = 0]

\* By id alone: whatever the row has become, unless it was deleted.
RecordUpdate(e) ==
  /\ rpc[e] = "update"
  /\ ListenerEnds(e)
  /\ status' = [status EXCEPT ![target[e]] = IF @ = "gone" THEN @ ELSE outcome[e]]
  /\ UNCHANGED <<now, rowAt, aps, tpc, deletes, zombies, process>>

RecordInsert(e) ==
  /\ rpc[e] = "insert"
  /\ ListenerEnds(e)
  /\ \E i \in Rows : Insert(i, outcome[e])
  /\ UNCHANGED <<now, aps, tpc, deletes, zombies, process>>

\* Every statement may raise: the handler logs it and nothing is recorded.
RecordFails(e) ==
  /\ rpc[e] \in Busy
  /\ ListenerEnds(e)
  /\ UNCHANGED <<now, table, aps, tpc, deletes, zombies, process>>

-----------------------------------------------------------------------------
(* Users.  trigger_job resumes a paused job and makes it due at once; its    *)
(* "running" row is inserted after an await, while the job may already run.  *)

TriggerJob(c) ==
  /\ ServiceIsUp /\ tpc[c] = "idle"
  /\ tpc' = [tpc EXCEPT ![c] = "insert"]
  /\ sched' = "due"
  /\ UNCHANGED <<now, table, run, listeners, deletes, zombies, process>>

TriggerInsert(c) ==
  /\ tpc[c] = "insert"
  /\ tpc' = [tpc EXCEPT ![c] = "idle"]
  /\ \E i \in Rows : Insert(i, "running")
  /\ UNCHANGED <<now, aps, listeners, deletes, zombies, process>>

\* The row is not inserted, and trigger_job returns True all the same.
TriggerFails(c) ==
  /\ tpc[c] = "insert"
  /\ tpc' = [tpc EXCEPT ![c] = "idle"]
  /\ UNCHANGED <<now, table, aps, listeners, deletes, zombies, process>>

MarkFailed(i) ==
  /\ ServiceIsUp /\ status[i] \notin {"none", "gone"}
  /\ status' = [status EXCEPT ![i] = "failed"]
  /\ UNCHANGED <<now, rowAt, aps, listeners, tpc, deletes, zombies, process>>

MutDeleteCheck(d, i) ==  \* the status is not looked at
  /\ ServiceIsUp /\ dpc[d] = "idle" /\ status[i] \notin {"none", "gone"}
  /\ dpc' = [dpc EXCEPT ![d] = "delete"]
  /\ drow' = [drow EXCEPT ![d] = i]
  /\ UNCHANGED <<now, table, aps, listeners, tpc, zombies, process>>

DeleteCheck(d, i) ==
  /\ ServiceIsUp /\ dpc[d] = "idle" /\ status[i] \notin {"none", "gone", "running"}
  /\ dpc' = [dpc EXCEPT ![d] = "delete"]
  /\ drow' = [drow EXCEPT ![d] = i]
  /\ UNCHANGED <<now, table, aps, listeners, tpc, zombies, process>>

DeleteRow(d) ==
  /\ dpc[d] = "delete"
  /\ dpc' = [dpc EXCEPT ![d] = "idle"]
  /\ drow' = [drow EXCEPT ![d] = NoRow]
  /\ status' = [status EXCEPT ![drow[d]] = "gone"]
  /\ rowAt' = [rowAt EXCEPT ![drow[d]] = 0]
  /\ UNCHANGED <<now, aps, listeners, tpc, zombies, process>>

DeleteFails(d) ==
  /\ dpc[d] = "delete"
  /\ dpc' = [dpc EXCEPT ![d] = "idle"]
  /\ drow' = [drow EXCEPT ![d] = NoRow]
  /\ UNCHANGED <<now, table, aps, listeners, tpc, zombies, process>>

-----------------------------------------------------------------------------
(* _check_zombie_tasks: one SELECT, one UPDATE by id per row found, and one  *)
(* commit for all.                                                           *)

CheckIsDue == check = "timed" /\ now = zombieDue

MutZombieScan ==  \* the age is not looked at
  /\ zpc = "idle" /\ CheckIsDue
  /\ zpc' = "scanned"
  /\ zset' = {i \in Rows : status[i] = "running"}
  /\ scannedAt' = now
  /\ zombieDue' = zombieDue + Period
  /\ UNCHANGED <<now, table, aps, listeners, tpc, deletes, check, process>>

ZombieScan ==
  /\ zpc = "idle" /\ CheckIsDue
  /\ zpc' = "scanned"
  /\ zset' = {i \in Rows : status[i] = "running" /\ rowAt[i] + ZombieAge < now}
  /\ scannedAt' = now
  /\ zombieDue' = zombieDue + Period
  /\ UNCHANGED <<now, table, aps, listeners, tpc, deletes, check, process>>

MutZombieClose ==  \* the session is closed without a commit
  /\ zpc = "scanned"
  /\ zpc' = "idle"
  /\ zset' = {} /\ scannedAt' = 0
  /\ UNCHANGED <<now, table, aps, listeners, tpc, deletes, checkJob, process>>

ZombieClose ==
  /\ zpc = "scanned"
  /\ zpc' = "idle"
  /\ zset' = {}
  /\ status' = [i \in Rows |->
                  IF i \in zset /\ status[i] # "gone" THEN "zombie" ELSE status[i]]
  /\ scannedAt' = 0
  /\ UNCHANGED <<now, rowAt, aps, listeners, tpc, deletes, checkJob, process>>

\* One of its statements raises: the handler logs it, and nothing is committed.
ZombieFails ==
  /\ zpc = "scanned" /\ faults < MaxFaults
  /\ zpc' = "idle"
  /\ zset' = {} /\ scannedAt' = 0
  /\ faults' = faults + 1 /\ calmSince' = now
  /\ UNCHANGED <<now, table, aps, listeners, tpc, deletes, checkJob>>

\* The loop is late for it, or its last run has not ended: it waits an interval.
ZombieMissed ==
  /\ CheckIsDue
  /\ \/ zpc = "scanned" /\ UNCHANGED faults
     \/ zpc = "idle" /\ faults < MaxFaults /\ faults' = faults + 1
  /\ zombieDue' = now + Period /\ calmSince' = now
  /\ UNCHANGED <<now, table, aps, listeners, tpc, deletes, check, checkRun>>

-----------------------------------------------------------------------------
Tick ==
  /\ now < MaxTime /\ ~CheckIsDue
  /\ zpc = "scanned" => now < scannedAt + Delay
  /\ \A e \in Recorders : rpc[e] = "update" => now < foundAt[e] + Delay
  /\ now' = now + 1
  /\ UNCHANGED <<table, aps, listeners, tpc, deletes, zombies, process>>

\* The process is restarted: only the table survives, and the service waits for
\* its first user.
Restart ==
  /\ faults < MaxFaults
  /\ faults' = faults + 1 /\ calmSince' = 0
  /\ sched' \in {"timed", "paused"} /\ run' = "none"
  /\ rpc' = [e \in Recorders |-> "idle"] /\ outcome' = [e \in Recorders |-> "none"]
  /\ target' = [e \in Recorders |-> NoRow] /\ foundAt' = [e \in Recorders |-> 0]
  /\ tpc' = [c \in Callers |-> "idle"]
  /\ dpc' = [d \in Deleters |-> "idle"] /\ drow' = [d \in Deleters |-> NoRow]
  /\ check' = "none" /\ zombieDue' = 0
  /\ zpc' = "idle" /\ zset' = {} /\ scannedAt' = 0
  /\ UNCHANGED <<now, table>>

Listener(e) ==
  \/ RunMissed(e)
  \/ \E result \in {"success", "failed"} : RunEnds(e, result)
  \/ RecordLook(e) \/ RecordUpdate(e) \/ RecordInsert(e) \/ RecordFails(e)

Next ==
  \/ CreateService \/ PauseCheck \/ ResumeCheck \/ TriggerCheck
  \/ PauseOrResume \/ CronFires \/ RunStarts
  \/ \E e \in Recorders : Listener(e)
  \/ \E c \in Callers : TriggerJob(c) \/ TriggerInsert(c) \/ TriggerFails(c)
  \/ \E i \in Rows : MarkFailed(i)
  \/ \E d \in Deleters : DeleteRow(d) \/ DeleteFails(d) \/ \E i \in Rows : DeleteCheck(d, i)
  \/ ZombieScan \/ ZombieClose \/ ZombieFails \/ ZombieMissed
  \/ Tick \/ Restart

Spec == Init /\ [][Next]_vars

-----------------------------------------------------------------------------
TypeOK ==
  /\ now \in 0..MaxTime
  /\ status \in [Rows -> Statuses] /\ rowAt \in [Rows -> 0..MaxTime]
  /\ sched \in {"timed", "due", "paused"} /\ run \in {"none", "active"}
  /\ rpc \in [Recorders -> Busy \cup {"idle"}]
  /\ outcome \in [Recorders -> {"none", "success", "failed", "missed"}]
  /\ target \in [Recorders -> Rows \cup {NoRow}] /\ foundAt \in [Recorders -> 0..MaxTime]
  /\ \A e \in Recorders : /\ rpc[e] = "update" => target[e] \in Rows
                          /\ rpc[e] = "idle" <=> outcome[e] = "none"
  /\ tpc \in [Callers -> {"idle", "insert"}]
  /\ dpc \in [Deleters -> {"idle", "delete"}]
  /\ drow \in [Deleters -> Rows \cup {NoRow}]
  /\ \A d \in Deleters : dpc[d] = "delete" => drow[d] \in Rows
  /\ zpc \in {"idle", "scanned"} /\ zset \in SUBSET Rows
  /\ check \in {"none", "timed", "paused"} /\ zombieDue \in Nat /\ scannedAt \in 0..MaxTime
  /\ calmSince \in 0..MaxTime /\ faults \in 0..MaxFaults

(* While the service is there and its check is timed, no row says "running"  *)
(* longer than ZombieAge, one period of the check and the time it takes,     *)
(* counted at the latest from when the check was armed (the service created, *)
(* the check resumed) or last missed or in error.  So neither a run that was *)
(* recorded before its row, nor a failed statement, nor a crash leaves a row *)
(* open for good: whoever opens a page of the scheduler after the restart,   *)
(* and leaves the check alone, sees it closed in time.  Nothing is promised  *)
(* before the service is created, nor while the check is paused.             *)
RunningRowsGetClosed ==
  check = "timed" => \A i \in Rows : status[i] = "running" =>
    \/ now <= rowAt[i] + ZombieAge + Period + Delay
    \/ now <= calmSince + Period + Delay

(* A recorded success is not overwritten by the zombie check, which writes   *)
(* by id what it decided before: only a user takes a success back, or the    *)
(* listener of a later run that found the row before it was closed.          *)
SuccessIsNoZombie ==
  [][\A i \in Rows : status[i] = "success" => status'[i] # "zombie"]_vars

(* delete_execution never removes a row that is running, although it looks   *)
(* and deletes in two statements: no row goes back to "running".             *)
RunningRowsAreKept ==
  [][\A i \in Rows : status[i] = "running" => status'[i] # "gone"]_vars

=============================================================================
