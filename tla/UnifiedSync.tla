----------------------------- MODULE UnifiedSync -----------------------------
(***************************************************************************)
(* The unified sync jobs of one web process: the job table of              *)
(* app/services/unified_sync_service.py, the step loop of each job, and    *)
(* the AKShare service that all of them and the rest of the process share  *)
(* (app/worker/akshare_sync_service.py), created by whoever needs it       *)
(* first.  A step is recorded as "failed" (success False), or with success *)
(* True: "answered", though it "swallowed" an exception of its own, or     *)
(* "nothing" done, its source being unknown.  The loop suspends inside a   *)
(* step only; where the model lets others act between two steps as well,   *)
(* it allows more than the code does.                                      *)
(***************************************************************************)
EXTENDS Naturals, Sequences

CONSTANTS Jobs,      \* requests of /unified/run; each has a job id of its own
          MaxSteps,  \* bound: (data type, source) pairs of one request
          MaxTaken   \* bound: symbols one step takes up

ASSUME SyncConstants == MaxSteps \in Nat /\ MaxTaken \in Nat

VARIABLES
  jobStatus,  \* _running_jobs[j]["status"], or "absent"
  stepCount,  \* its total_steps
  results,    \* its results: how each step so far ended
  jobPc,      \* progress of its run_sync
  left,       \* the symbols that step has yet to count
  service,    \* _akshare_sync_service: "none", "untested" or "tested"
  other       \* a caller outside the jobs: "idle", "connect" or "gone"

jobVars == <<jobStatus, stepCount, results, jobPc, left>>
syncVars == <<jobVars, service, other>>

Ways == {"failed", "answered", "swallowed", "nothing"}
JobPCs == {"unrequested", "created", "loop", "connect", "take", "symbols", "returned"}

SyncInit ==
  /\ jobStatus = [j \in Jobs |-> "absent"]
  /\ stepCount = [j \in Jobs |-> 0]
  /\ results = [j \in Jobs |-> <<>>]
  /\ jobPc = [j \in Jobs |-> "unrequested"]
  /\ left = [j \in Jobs |-> 0]
  /\ service = "none" /\ other = "idle"

Goes(j, from, to) == jobPc[j] = from /\ jobPc' = [jobPc EXCEPT ![j] = to]

-----------------------------------------------------------------------------
(* Requests.  The record in scheduler_executions is never made: the         *)
(* scheduler service has no attribute db, and the exception is swallowed.   *)

Request(j) ==
  /\ Goes(j, "unrequested", "created")
  /\ UNCHANGED <<jobStatus, stepCount, results, left, service, other>>

CancelJob(j) ==
  /\ jobStatus[j] # "absent"
  /\ jobStatus' = [jobStatus EXCEPT ![j] = "cancelled"]
  /\ UNCHANGED <<stepCount, results, jobPc, left, service, other>>

-----------------------------------------------------------------------------
(* get_akshare_sync_service: the instance is everybody's from the moment    *)
(* its creator starts to test the connection, and stays if the test fails.  *)

OtherCreates ==
  /\ other = "idle"
  /\ other' = IF service = "none" THEN "connect" ELSE "gone"
  /\ service' = IF service = "none" THEN "untested" ELSE service
  /\ UNCHANGED jobVars

OtherConnects ==
  /\ other = "connect" /\ other' = "gone"
  /\ service' \in {"tested", "untested"}
  /\ UNCHANGED jobVars

More(j) == Len(results[j]) < stepCount[j]

MutStartStep(j) ==  \* the instance is published once it was tested
  /\ More(j)
  /\ Goes(j, "loop", IF service # "tested" THEN "connect" ELSE "take")
  /\ UNCHANGED <<jobStatus, stepCount, results, left, service, other>>

StartStep(j) ==
  /\ More(j)
  /\ Goes(j, "loop", IF service = "none" THEN "connect" ELSE "take")
  /\ service' = IF service = "none" THEN "untested" ELSE service
  /\ UNCHANGED <<jobStatus, stepCount, results, left, other>>

Connected(j) ==
  /\ Goes(j, "connect", "take")
  /\ service' = "tested"
  /\ UNCHANGED <<jobStatus, stepCount, results, left, other>>

-----------------------------------------------------------------------------
(* run_sync.                                                                *)

Begin(j, n) ==
  /\ Goes(j, "created", "loop")
  /\ jobStatus' = [jobStatus EXCEPT ![j] = "running"]
  /\ stepCount' = [stepCount EXCEPT ![j] = n]
  /\ UNCHANGED <<results, left, service, other>>

Record(j, way) ==
  /\ jobPc' = [jobPc EXCEPT ![j] = "loop"]
  /\ results' = [results EXCEPT ![j] = Append(@, way)]
  /\ left' = [left EXCEPT ![j] = 0]
  /\ UNCHANGED <<jobStatus, stepCount, service, other>>

\* Tushare is offered as a source, and no step is written for it.
UnknownStep(j) == jobPc[j] = "loop" /\ More(j) /\ Record(j, "nothing")

ConnectFails(j) == jobPc[j] = "connect" /\ Record(j, "failed")

MutComplete(j) ==  \* a cancelled job leaves the loop, as completed
  /\ ~More(j) \/ jobStatus[j] = "cancelled"
  /\ Goes(j, "loop", "returned")
  /\ jobStatus' = [jobStatus EXCEPT ![j] = "completed"]
  /\ UNCHANGED <<stepCount, results, left, service, other>>

MutCompleteUncancelled(j) ==  \* only a job still shown as running is closed
  /\ ~More(j) /\ jobStatus[j] = "running"
  /\ Goes(j, "loop", "returned")
  /\ jobStatus' = [jobStatus EXCEPT ![j] = "completed"]
  /\ UNCHANGED <<stepCount, results, left, service, other>>

\* No step asked whether the job was cancelled, and the end does not either.
Complete(j) ==
  /\ ~More(j)
  /\ Goes(j, "loop", "returned")
  /\ jobStatus' = [jobStatus EXCEPT ![j] = "completed"]
  /\ UNCHANGED <<stepCount, results, left, service, other>>

-----------------------------------------------------------------------------
(* The sync_* methods of the service.                                       *)

\* The symbols that were requested, the favourites, or all that are known.
TakeUp(j, n) ==
  /\ Goes(j, "take", "symbols")
  /\ left' = [left EXCEPT ![j] = n]
  /\ UNCHANGED <<jobStatus, stepCount, results, service, other>>

\* The query for the symbols, or the snapshot of all quotes before any of
\* them is stored, raises: the method notes it and returns its statistics.
Swallow(j) == jobPc[j] = "take" /\ Record(j, "swallowed")

MutHandle(j) ==  \* the loop does not stop at the last symbol
  /\ jobPc[j] = "symbols"
  /\ left' = [left EXCEPT ![j] = @ - 1]
  /\ UNCHANGED <<jobStatus, stepCount, results, jobPc, service, other>>

\* One symbol: every branch, and the handler of every exception, counts it
\* once, as a success, an error or skipped; downloads are retried a few times.
Handle(j) ==
  /\ jobPc[j] = "symbols" /\ left[j] > 0
  /\ left' = [left EXCEPT ![j] = @ - 1]
  /\ UNCHANGED <<jobStatus, stepCount, results, jobPc, service, other>>

Answer(j) == jobPc[j] = "symbols" /\ left[j] = 0 /\ Record(j, "answered")

-----------------------------------------------------------------------------
RunSync(j) ==
  \/ \E n \in 0..MaxSteps : Begin(j, n)
  \/ \E n \in 0..MaxTaken : TakeUp(j, n)
  \/ StartStep(j) \/ UnknownStep(j) \/ Connected(j) \/ ConnectFails(j)
  \/ Swallow(j) \/ Handle(j) \/ Answer(j) \/ Complete(j)

SyncNext ==
  \/ OtherCreates \/ OtherConnects
  \/ \E j \in Jobs : Request(j) \/ CancelJob(j) \/ RunSync(j)

SyncSpec == SyncInit /\ [][SyncNext]_syncVars

-----------------------------------------------------------------------------
SyncTypeOK ==
  /\ jobStatus \in [Jobs -> {"absent", "running", "cancelled", "completed"}]
  /\ stepCount \in [Jobs -> 0..MaxSteps]
  /\ results \in [Jobs -> Seq(Ways)]
  /\ jobPc \in [Jobs -> JobPCs]
  /\ left \in [Jobs -> 0..MaxTaken]
  /\ service \in {"none", "untested", "tested"}
  /\ other \in {"idle", "connect", "gone"}

(* What the job table says of a job is true of its run: one shown as        *)
(* running is at work, and one shown as completed has returned with an      *)
(* outcome for every step of its request, cancelled on the way or not.      *)
TableIsTrue ==
  \A j \in Jobs :
    /\ jobStatus[j] = "running" => jobPc[j] \notin {"unrequested", "created", "returned"}
    /\ jobStatus[j] = "completed" => jobPc[j] = "returned" /\ Len(results[j]) = stepCount[j]

(* However many jobs and steps use it, the connection is tested once: no    *)
(* second step of the process's life is recorded as failed for want of it,  *)
(* whether or not AKShare can be reached.                                   *)
ConnectionFailsOnce ==
  \A j, k \in Jobs : \A a \in 1..Len(results[j]), b \in 1..Len(results[k]) :
    results[j][a] = "failed" /\ results[k][b] = "failed" => j = k /\ a = b
=============================================================================
