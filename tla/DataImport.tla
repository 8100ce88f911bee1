------------------------------ MODULE DataImport ------------------------------
(***************************************************************************)
(* import_data of app/services/database/backups.py: rows are inserted one  *)
(* by one in one transaction, each in a try block of its own, and a row    *)
(* the database refuses is logged and passed over.  PostgreSQL, however,   *)
(* refuses every statement after a failed one, and turns the COMMIT of     *)
(* such a transaction into a rollback without an error.                    *)
(***************************************************************************)
CONSTANT Documents  \* the rows a table may hold; a file holds some of them

VARIABLES
  table,      \* its rows, as committed
  working,    \* its rows as the transaction of the import sees them
  txn,        \* "none", "open" or "aborted"
  importPc,   \* "idle", "rows" or "answered"
  toImport,   \* documents of the file that are still to come
  overwrite,  \* "yes" or "no"
  inserted    \* what the import will report as inserted

importVars == <<table, working, txn, importPc, toImport, overwrite, inserted>>

ImportInit ==
  /\ table = {} /\ working = {}
  /\ txn = "none" /\ importPc = "idle"
  /\ toImport = {} /\ overwrite = "no" /\ inserted = {}

MutStartImport ==  \* the deletion is committed on its own
  /\ importPc = "idle" /\ importPc' = "rows"
  /\ txn' = "open"
  /\ toImport' \in SUBSET Documents /\ overwrite' \in {"yes", "no"}
  /\ working' = IF overwrite' = "yes" THEN {} ELSE table
  /\ table' = working' /\ inserted' = {}

StartImport ==
  /\ importPc = "idle" /\ importPc' = "rows"
  /\ txn' = "open"
  /\ toImport' \in SUBSET Documents /\ overwrite' \in {"yes", "no"}
  /\ working' = IF overwrite' = "yes" THEN {} ELSE table
  /\ inserted' = {}
  /\ UNCHANGED table

\* A row whose key the table holds already cannot be inserted.
InsertRow(d) ==
  /\ importPc = "rows" /\ d \in toImport /\ txn = "open" /\ d \notin working
  /\ working' = working \cup {d} /\ inserted' = inserted \cup {d}
  /\ toImport' = toImport \ {d}
  /\ UNCHANGED <<table, txn, importPc, overwrite>>

\* A value of the wrong type is stopped by the driver, before the server
\* sees the statement; what the server refuses aborts the transaction.
RowFails(d) ==
  /\ importPc = "rows" /\ d \in toImport
  /\ txn' \in IF d \in working THEN {"aborted"} ELSE {txn, "aborted"}
  /\ toImport' = toImport \ {d}
  /\ UNCHANGED <<table, working, importPc, overwrite, inserted>>

Commit ==
  /\ importPc = "rows" /\ toImport = {}
  /\ importPc' = "answered"
  /\ table' = IF txn = "open" THEN working ELSE table
  /\ txn' = "none" /\ working' = table'
  /\ UNCHANGED <<toImport, overwrite, inserted>>

\* The connection is lost, or the deletion refused: the request fails.
ImportDies ==
  /\ importPc = "rows" /\ importPc' = "idle"
  /\ txn' = "none" /\ working' = table
  /\ toImport' = {} /\ inserted' = {} /\ overwrite' = "no"
  /\ UNCHANGED table

\* The answer is delivered; the same or another file may follow.
NextImport ==
  /\ importPc = "answered" /\ importPc' = "idle"
  /\ inserted' = {} /\ overwrite' = "no"
  /\ UNCHANGED <<table, working, txn, toImport>>

ImportNext ==
  \/ StartImport \/ Commit \/ ImportDies \/ NextImport
  \/ \E d \in Documents : InsertRow(d) \/ RowFails(d)

ImportSpec == ImportInit /\ [][ImportNext]_importVars

-----------------------------------------------------------------------------
(* The table changes at the end of an import or not at all, and then holds  *)
(* what was reported as inserted on top of what the import was to keep: a   *)
(* file that fails half way has deleted nothing, and left nothing half done. *)
ImportIsAtomic ==
  [][table' # table =>
       /\ importPc' = "answered"
       /\ table' = inserted \cup (IF overwrite = "yes" THEN {} ELSE table)]_importVars
=============================================================================
