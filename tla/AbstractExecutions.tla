-------------------------- MODULE AbstractExecutions --------------------------
(* What the table scheduler_executions promises to who reads it, with none  *)
(* of the coroutines that write it in sight.  A row comes and goes once.    *)
(* What a listener reports, it reports of a young row; what the zombie      *)
(* check says, it says of an old one, and only a user contradicts it.  A row*)
(* that announces a run is not removed before it is closed, and that a run  *)
(* was missed is said by a row of its own that no listener touches.         *)
EXTENDS Naturals

CONSTANTS Rows, Recent, ZombieAge, Delay

VARIABLES row,   \* what each row says, "none" before it comes, "gone" after it
          since, \* its timestamp
          clock

tableVars == <<row, since, clock>>

TableInit ==
  /\ row = [i \in Rows |-> "none"] /\ since = [i \in Rows |-> 0] /\ clock = 0

Says(i, st) == row'[i] = st /\ since'[i] = since[i]

Appears(i) ==
  /\ row[i] = "none" /\ row'[i] \in {"running", "success", "failed", "missed"}
  /\ since'[i] = clock

Reports(i) ==
  /\ row[i] \in {"running", "success", "failed"}
  /\ clock <= since[i] + Recent + Delay
  /\ Says(i, "success") \/ Says(i, "failed")

Condemned(i) == row[i] \notin {"none", "gone"} /\ Says(i, "failed")

TimesOut(i) ==
  /\ row[i] \in {"running", "failed"} /\ since[i] + ZombieAge < clock
  /\ Says(i, "zombie")

Removed(i) ==
  /\ row[i] \in {"success", "failed", "missed", "zombie"} /\ row'[i] = "gone"
  /\ since'[i] = 0

Passes(i) == Says(i, row[i])

TableNext ==
  \/ clock' = clock + 1 /\ UNCHANGED <<row, since>>
  \/ /\ row' = [i \in Rows |-> row'[i]] /\ since' = [i \in Rows |-> since'[i]]
     /\ \A i \in Rows : \/ Appears(i) \/ Reports(i) \/ Condemned(i)
                        \/ TimesOut(i) \/ Removed(i) \/ Passes(i)
     /\ UNCHANGED clock

TableSpec == TableInit /\ [][TableNext]_tableVars
=============================================================================
