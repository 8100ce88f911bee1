----------------------- MODULE JobExecutionsRefinement -----------------------
(* JobExecutions as an AbstractExecutions: the table is what it is, and the *)
(* coroutines with what they have read and not yet written are hidden.      *)
EXTENDS JobExecutions

Table == INSTANCE AbstractExecutions WITH row <- status, since <- rowAt, clock <- now

(* However listeners, users and the zombie check read first and write by id *)
(* afterwards, with the process restarted in between: no verdict of the     *)
(* check is overwritten by a listener or passed on a row that had ended     *)
(* well, no missed run is relabelled, no row that still runs is removed and *)
(* none comes back.                                                         *)
RowsLiveOnce == Table!TableSpec
=============================================================================
