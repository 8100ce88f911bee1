--------------------------- MODULE PatternScreening ---------------------------
(***************************************************************************)
(* One screening task of app/services/pattern_screening_service.py: its    *)
(* row in pattern_screening_tasks, the background run that scans a market  *)
(* symbol by symbol, and the cancel_task calls that race with it.  Every   *)
(* action ends with one committed database transaction (or is one read);   *)
(* the reads and the writes of the read-modify-write cycles over the       *)
(* "parameters" column are separate, as other sessions run between them.   *)
(* Symbols, candidates and scores are abstracted to counts: "stored" is    *)
(* the number of scanned symbols the saved result accounts for.            *)
(***************************************************************************)
EXTENDS Naturals

CONSTANTS MaxSymbols,  \* bound: symbols a universe may hold
          Batch,       \* symbols between two progress updates (50 in the code)
          Cancellers,  \* concurrent cancel_task calls
          MaxFaults    \* bound: exceptions raised in the scan, and crashes

ASSUME BoundsAssumption == MaxSymbols \in Nat /\ MaxFaults \in Nat
ASSUME BatchAssumption == Batch \in Nat \ {0}

VARIABLES
  status, stopFlag, stored,  \* the row: status, parameters.cancel_requested, result
  rpc,                       \* progress of the background run
  total, scanned,            \* its total_symbols and idx
  paramsRead,                \* cancel_requested in the copy of parameters it holds
  cpc, flagRead,             \* progress of each cancel_task and its copy
  early,                     \* history: "yes" if cancelled before the run loaded it
  faults

row == <<status, stopFlag, stored>>
run == <<rpc, total, scanned, paramsRead>>
calls == <<cpc, flagRead>>
vars == <<row, run, calls, early, faults>>

Active == {"queued", "running"}
Ended == {"completed", "failed", "cancelled"}
Flag == {"set", "unset"}
InTry == {"universe", "check", "progress_read", "progress_write", "store",
          "final", "confirm", "stopping"}
Handling == {"error_read", "error_write", "error_status"}
RunPCs == {"scheduled", "loaded", "returned", "errored", "dead"} \cup InTry \cup Handling
CancelPCs == {"idle", "mark_read", "mark_write"}

\* create_task, committed before the run is scheduled.
Init ==
  /\ status = "queued" /\ stopFlag = "unset" /\ stored = 0
  /\ rpc = "scheduled" /\ total = 0 /\ scanned = 0 /\ paramsRead = "unset"
  /\ cpc = [c \in Cancellers |-> "idle"]
  /\ flagRead = [c \in Cancellers |-> "unset"]
  /\ early = "no" /\ faults = 0

-----------------------------------------------------------------------------
(* run_task_background.                                                     *)

Moves(from, to) == rpc = from /\ rpc' = to

MutRunLoad ==  \* a task that is no longer wanted is run all the same
  /\ Moves("scheduled", "loaded")
  /\ UNCHANGED <<row, total, scanned, paramsRead, calls, early, faults>>

RunLoad ==
  /\ Moves("scheduled", IF status \in Active THEN "loaded" ELSE "returned")
  /\ UNCHANGED <<row, total, scanned, paramsRead, calls, early, faults>>

\* The status is written whatever it has become since it was read.
RunStart ==
  /\ Moves("loaded", "universe")
  /\ status' = "running"
  /\ UNCHANGED <<stopFlag, stored, total, scanned, paramsRead, calls, early, faults>>

RunUniverse ==
  /\ total' \in 0..MaxSymbols
  /\ Moves("universe", IF total' = 0 THEN "final" ELSE "check")
  /\ UNCHANGED <<row, scanned, paramsRead, calls, early, faults>>

AfterSymbol == IF scanned' = total THEN "final" ELSE "check"

MutRunCheck ==  \* one symbol too many
  /\ rpc = "check"
  /\ scanned' = scanned + 1
  /\ rpc' = IF scanned' > total THEN "final" ELSE "check"
  /\ UNCHANGED <<row, total, paramsRead, calls, early, faults>>

\* One symbol: the flag is read, then the symbol is scanned.  A symbol with
\* too short a history leaves the loop body before the progress update.
RunCheck ==
  /\ rpc = "check"
  /\ IF stopFlag = "set"
       THEN scanned' = scanned /\ rpc' = "stopping"
       ELSE /\ scanned' = scanned + 1
            /\ \E shortHistory \in BOOLEAN :
                 rpc' = IF ~shortHistory /\ (scanned' % Batch = 0 \/ scanned' = total)
                          THEN "progress_read" ELSE AfterSymbol
  /\ UNCHANGED <<row, total, paramsRead, calls, early, faults>>

MutRunStopping ==  \* the run ends without a word
  /\ Moves("stopping", "returned")
  /\ UNCHANGED <<row, total, scanned, paramsRead, calls, early, faults>>

RunStopping ==
  /\ Moves("stopping", "returned")
  /\ status' = "cancelled"
  /\ UNCHANGED <<stopFlag, stored, total, scanned, paramsRead, calls, early, faults>>

\* _update_task_progress rewrites parameters from its copy; the "running" it
\* prepares is never written.
ProgressRead ==
  /\ Moves("progress_read", "progress_write")
  /\ paramsRead' = stopFlag
  /\ UNCHANGED <<row, total, scanned, calls, early, faults>>

ProgressWrite ==
  /\ Moves("progress_write", "store")
  /\ stopFlag' = paramsRead
  /\ UNCHANGED <<status, stored, total, scanned, paramsRead, calls, early, faults>>

RunStore ==
  /\ rpc = "store"
  /\ rpc' = IF scanned = total THEN "final" ELSE "check"
  /\ stored' = scanned
  /\ UNCHANGED <<status, stopFlag, total, scanned, paramsRead, calls, early, faults>>

MutRunFinal ==  \* the result is left as the last batch stored it
  /\ Moves("final", "confirm")
  /\ status' = "completed"
  /\ UNCHANGED <<stopFlag, stored, total, scanned, paramsRead, calls, early, faults>>

RunFinal ==
  /\ Moves("final", "confirm")
  /\ status' = "completed" /\ stored' = scanned
  /\ UNCHANGED <<stopFlag, total, scanned, paramsRead, calls, early, faults>>

RunConfirm ==
  /\ Moves("confirm", "returned")
  /\ status' = "completed"
  /\ UNCHANGED <<stopFlag, stored, total, scanned, paramsRead, calls, early, faults>>

(* Any statement of the try block may raise.  With a message, the handler   *)
(* stores it in parameters and returns; "failed" is written only for an     *)
(* exception whose text is empty.                                           *)
Fault == faults < MaxFaults /\ faults' = faults + 1

RunRaises ==
  /\ rpc \in InTry
  /\ rpc' \in {"error_read", "error_status"}
  /\ Fault
  /\ UNCHANGED <<row, total, scanned, paramsRead, calls, early>>

ErrorRead ==
  /\ Moves("error_read", "error_write")
  /\ paramsRead' = stopFlag
  /\ UNCHANGED <<row, total, scanned, calls, early, faults>>

ErrorWrite ==
  /\ Moves("error_write", "errored")
  /\ stopFlag' = paramsRead
  /\ UNCHANGED <<status, stored, total, scanned, paramsRead, calls, early, faults>>

ErrorStatus ==
  /\ Moves("error_status", "errored")
  /\ status' = "failed"
  /\ UNCHANGED <<stopFlag, stored, total, scanned, paramsRead, calls, early, faults>>

\* The process stops, or a statement outside the try block raises.
RunnerDies ==
  /\ rpc \notin {"returned", "errored", "dead"}
  /\ rpc' = "dead"
  /\ Fault
  /\ UNCHANGED <<row, total, scanned, paramsRead, calls, early>>

-----------------------------------------------------------------------------
(* cancel_task.                                                             *)

MutCancelUpdate(c) ==  \* no WHERE on the status
  /\ cpc[c] = "idle"
  /\ status' = "cancelled"
  /\ cpc' = cpc
  /\ early' = IF rpc = "scheduled" THEN "yes" ELSE early
  /\ UNCHANGED <<stopFlag, stored, run, flagRead, faults>>

CancelUpdate(c) ==
  /\ cpc[c] = "idle"
  /\ IF status \in Active
       THEN /\ status' = "cancelled" /\ cpc' = cpc
            /\ early' = IF rpc = "scheduled" THEN "yes" ELSE early
       ELSE /\ cpc' = [cpc EXCEPT ![c] = "mark_read"]
            /\ UNCHANGED <<status, early>>
  /\ UNCHANGED <<stopFlag, stored, run, flagRead, faults>>

MarkRead(c) ==
  /\ cpc[c] = "mark_read"
  /\ cpc' = [cpc EXCEPT ![c] = "mark_write"]
  /\ flagRead' = [flagRead EXCEPT ![c] = stopFlag]
  /\ UNCHANGED <<row, run, early, faults>>

\* A copy that already held the flag is unchanged, and no UPDATE is sent.
MarkWrite(c) ==
  /\ cpc[c] = "mark_write"
  /\ cpc' = [cpc EXCEPT ![c] = "idle"]
  /\ stopFlag' = IF flagRead[c] = "set" THEN stopFlag ELSE "set"
  /\ flagRead' = [flagRead EXCEPT ![c] = "unset"]
  /\ UNCHANGED <<status, stored, run, early, faults>>

-----------------------------------------------------------------------------
RunProceeds ==
  \/ RunLoad \/ RunStart \/ RunUniverse \/ RunCheck \/ RunStopping
  \/ ProgressRead \/ ProgressWrite \/ RunStore \/ RunFinal \/ RunConfirm
  \/ ErrorRead \/ ErrorWrite \/ ErrorStatus

Cancel(c) == CancelUpdate(c) \/ MarkRead(c) \/ MarkWrite(c)

Next ==
  \/ RunProceeds
  \/ RunRaises
  \/ RunnerDies
  \/ \E c \in Cancellers : Cancel(c)

Spec == Init /\ [][Next]_vars

-----------------------------------------------------------------------------
TypeOK ==
  /\ status \in Active \cup Ended /\ stopFlag \in Flag
  /\ rpc \in RunPCs
  /\ total \in 0..MaxSymbols /\ scanned \in 0..total /\ stored \in 0..scanned
  /\ paramsRead \in Flag
  /\ cpc \in [Cancellers -> CancelPCs] /\ flagRead \in [Cancellers -> Flag]
  /\ early \in {"yes", "no"} /\ faults \in 0..MaxFaults

(* A task shown as completed has the result of the whole universe, whatever *)
(* was skipped since the last batch and whatever cancel_task did meanwhile. *)
CompletedIsWhole ==
  status = "completed" => stored = total /\ scanned = total

(* A task cancelled before its run looked at it stays cancelled, and the    *)
(* run neither scans nor saves anything.                                    *)
EarlyCancelSticks ==
  early = "yes" => status = "cancelled" /\ scanned = 0 /\ rpc \in {"scheduled", "returned", "dead"}

(* A run that returns by itself leaves a row that says so: no task is shown *)
(* as running after its run ended, unless the run raised or died.           *)
ReturnedIsReported == rpc = "returned" => status \in {"completed", "cancelled"}

(* What was reported as completed is never taken back, by a cancellation    *)
(* that comes late or by the run's own last statements, unless those raise. *)
CompletedStays ==
  [][status = "completed" => status' \in {"completed"} \cup
       (IF faults > 0 THEN {"failed"} ELSE {})]_vars

(* While nothing raises, the task leaves the active states for good, also   *)
(* when the run overwrote the cancellation that came before it.             *)
TaskSettles == <>[](status \in Ended \/ faults > 0)

(* The reading of the handler's log ("task failed") and of the status it    *)
(* passes: a run that ended in the handler leaves status "failed".          *)
FailureIsReported == rpc = "errored" => status = "failed"
=============================================================================
