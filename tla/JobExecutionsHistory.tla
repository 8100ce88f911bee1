------------------------ MODULE JobExecutionsHistory ------------------------
(***************************************************************************)
(* JobExecutions with two history variables, to say of a row what became   *)
(* of the run it announced: the table itself does not link the two.        *)
(***************************************************************************)
EXTENDS JobExecutions

VARIABLES announced,  \* rows that said "running" when the present run began
          served      \* rows still "running" when the run they announced succeeded

historyVars == <<vars, announced, served>>

Running == {i \in Rows : status[i] = "running"}
RunSucceeds == \E e \in Recorders : outcome[e] = "none" /\ outcome'[e] = "success"

HistoryInit == Init /\ announced = {} /\ served = {}

HistoryNext ==
  /\ Next
  /\ announced' = IF run' = "none" THEN {}
                  ELSE IF run = "none" THEN Running ELSE announced
  /\ served' = IF RunSucceeds THEN served \cup (announced \cap Running) ELSE served

HistorySpec == HistoryInit /\ [][HistoryNext]_historyVars

(* What the zombie check writes into a row, "the task timed out or its       *)
(* process ended abnormally", is not said of a run that succeeded.           *)
ZombieMeansDead == \A i \in Rows : status[i] = "zombie" => i \notin served
=============================================================================
