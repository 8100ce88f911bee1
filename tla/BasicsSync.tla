------------------------------ MODULE BasicsSync ------------------------------
(***************************************************************************)
(* The guard of MultiSourceBasicsSyncService.run_full_sync, the upsert it  *)
(* makes before its try block, and the keywords that upsert passes on.     *)
(* The sync proper comes after it, and no execution gets that far.         *)
(***************************************************************************)
CONSTANT Callers  \* concurrent requests of the /stock_basics/run endpoint

VARIABLES running,  \* the flag _running of the singleton service
          pc,       \* "idle", or "persist": past the guard, at _persist_status
          answer    \* what the last request of a caller got

vars == <<running, pc, answer>>

(* The keys of the filter of _persist_status, and the fields of SyncStats.  *)
FilterKeys == {"data_type", "job"}
SetKeys == {"job", "data_type", "status", "started_at", "finished_at", "total",
            "inserted", "updated", "errors", "last_trade_date",
            "data_sources_used", "source_stats", "message"}

(* update_one passes both to one call, which refuses a keyword given twice. *)
UpsertRaises == FilterKeys \cap SetKeys # {}

Init ==
  /\ running = "no"
  /\ pc = [c \in Callers |-> "idle"]
  /\ answer = [c \in Callers |-> "none"]

(* The lock is held from the test of the flag to its assignment.            *)
Start(c, force) ==
  /\ pc[c] = "idle"
  /\ IF running = "yes" /\ force = "no"
       THEN /\ answer' = [answer EXCEPT ![c] = "skipped"]
            /\ UNCHANGED <<running, pc>>
       ELSE /\ running' = "yes"
            /\ pc' = [pc EXCEPT ![c] = "persist"]
            /\ answer' = [answer EXCEPT ![c] = "none"]

(* The exception leaves run_full_sync: the finally clause that resets the   *)
(* flag belongs to the try block below.                                     *)
Persist(c) ==
  /\ pc[c] = "persist" /\ UpsertRaises
  /\ pc' = [pc EXCEPT ![c] = "idle"]
  /\ answer' = [answer EXCEPT ![c] = "error"]
  /\ UNCHANGED running

Next == \E c \in Callers : Persist(c) \/ \E force \in {"yes", "no"} : Start(c, force)

Spec == Init /\ [][Next]_vars

(* What run_full_sync logs when it turns a request away, "already running;  *)
(* skip start", and what the docstring says of force: a request is skipped  *)
(* only while another one is being served.                                  *)
SkippedOnlyWhileBusy ==
  [][\A c \in Callers : answer[c] # "skipped" /\ answer'[c] = "skipped" =>
       \E d \in Callers : pc[d] # "idle"]_vars
=============================================================================
