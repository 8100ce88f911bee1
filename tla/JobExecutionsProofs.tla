------------------------- MODULE JobExecutionsProofs -------------------------
(***************************************************************************)
(* The execution records for any number of rows, listeners and calls.      *)
(* The core is an argument about ages: a row the check has selected is     *)
(* older than ZombieAge, a row a listener is about to write is at most     *)
(* Recent + Delay old, and Recent + Delay <= ZombieAge keeps them apart.   *)
(***************************************************************************)
EXTENDS JobExecutionsRefinement, TLAPS

Clocks ==
  /\ check = "timed" => zombieDue \in now..(now + Period)
  /\ calmSince <= now
  /\ \A i \in Rows : rowAt[i] <= now
  /\ zpc = "idle" => zset = {}
  /\ zpc = "scanned" => now \in scannedAt..(scannedAt + Delay)

(* What the coroutines remember of the rows they are about to write.        *)
Selected ==
  /\ \A i \in zset : /\ status[i] \notin {"none", "success"}
                     /\ rowAt[i] + ZombieAge < scannedAt
  /\ \A e \in Recorders : rpc[e] = "update" =>
       /\ now \in foundAt[e]..(foundAt[e] + Delay)
       /\ status[target[e]] # "none"
       /\ status[target[e]] # "gone" => rowAt[target[e]] + Recent >= foundAt[e]
  /\ \A d \in Deleters : dpc[d] = "delete" => status[drow[d]] \notin {"none", "running"}

(* Each check leaves no old row behind but those it is about to close, as    *)
(* long as there is a next one.                                             *)
Checked ==
  check = "timed" => \A i \in Rows : status[i] = "running" =>
    IF i \in zset
      THEN \/ scannedAt <= rowAt[i] + ZombieAge + Period
           \/ scannedAt <= calmSince + Period
      ELSE \/ zombieDue <= rowAt[i] + ZombieAge + Period
           \/ zombieDue <= calmSince + Period

Inv == TypeOK /\ Clocks /\ Selected /\ Checked

LEMMA InvInit == Init => Inv
BY TimesAssumption, NoRowAssumption
   DEF Init, Inv, TypeOK, Clocks, Selected, Checked, Statuses, Closed, Busy

-----------------------------------------------------------------------------
(* Type correctness, one action at a time.                                  *)

LEMMA TypeSchedulers ==
  ASSUME TypeOK,
         \/ PauseOrResume \/ CronFires \/ RunStarts
         \/ \E e \in Recorders : RunMissed(e) \/ \E r \in {"success", "failed"} : RunEnds(e, r)
  PROVE TypeOK'
<1> USE DEF TypeOK, table, listeners, deletes, zombies, checkJob, checkRun, process, aps, Busy
<1>1. CASE PauseOrResume BY <1>1 DEF PauseOrResume
<1>2. CASE CronFires BY <1>2 DEF CronFires
<1>3. CASE RunStarts BY <1>3 DEF RunStarts
<1>4. ASSUME NEW e \in Recorders, RunMissed(e) PROVE TypeOK'
  BY <1>4 DEF RunMissed, Heard, Listen
<1>5. ASSUME NEW e \in Recorders, NEW r \in {"success", "failed"}, RunEnds(e, r)
      PROVE TypeOK'
  BY <1>5 DEF RunEnds, Heard, Listen
<1> QED BY <1>1, <1>2, <1>3, <1>4, <1>5

LEMMA TypeListeners ==
  ASSUME TypeOK, NEW e \in Recorders,
         RecordLook(e) \/ RecordUpdate(e) \/ RecordInsert(e) \/ RecordFails(e)
  PROVE TypeOK'
<1> USE NoRowAssumption, TimesAssumption
    DEF TypeOK, table, deletes, zombies, checkJob, checkRun, process, aps, Busy, Statuses,
        Closed
<1>1. CASE RecordLook(e) BY <1>1 DEF RecordLook, Young
<1>2. CASE RecordUpdate(e)
  <2>1. status' \in [Rows -> Statuses]
    BY <1>2 DEF RecordUpdate
  <2> QED BY <1>2, <2>1 DEF RecordUpdate, ListenerEnds
<1>3. CASE RecordInsert(e)
  <2>1. outcome[e] \in {"success", "failed", "missed"}
    BY <1>3 DEF RecordInsert
  <2> QED BY <1>3, <2>1 DEF RecordInsert, ListenerEnds, Insert
<1>4. CASE RecordFails(e) BY <1>4 DEF RecordFails, ListenerEnds
<1> QED BY <1>1, <1>2, <1>3, <1>4

LEMMA TypeUsers ==
  ASSUME TypeOK,
         \/ \E c \in Callers : TriggerJob(c) \/ TriggerInsert(c) \/ TriggerFails(c)
         \/ \E i \in Rows : MarkFailed(i)
         \/ \E d \in Deleters : DeleteRow(d) \/ DeleteFails(d) \/ \E i \in Rows : DeleteCheck(d, i)
  PROVE TypeOK'
<1> USE DEF TypeOK, table, listeners, deletes, zombies, checkJob, checkRun, process, aps, Busy, Statuses, Closed
<1>1. ASSUME NEW c \in Callers, TriggerJob(c) PROVE TypeOK' BY <1>1 DEF TriggerJob
<1>2. ASSUME NEW c \in Callers, TriggerInsert(c) PROVE TypeOK'
  BY <1>2 DEF TriggerInsert, Insert
<1>3. ASSUME NEW i \in Rows, MarkFailed(i) PROVE TypeOK' BY <1>3 DEF MarkFailed
<1>4. ASSUME NEW d \in Deleters, DeleteRow(d) PROVE TypeOK'
  BY <1>4, TimesAssumption DEF DeleteRow
<1>5. ASSUME NEW d \in Deleters, NEW i \in Rows, DeleteCheck(d, i) PROVE TypeOK'
  BY <1>5 DEF DeleteCheck
<1>6. ASSUME NEW c \in Callers, TriggerFails(c) PROVE TypeOK' BY <1>6 DEF TriggerFails
<1>7. ASSUME NEW d \in Deleters, DeleteFails(d) PROVE TypeOK' BY <1>7 DEF DeleteFails
<1> QED BY <1>1, <1>2, <1>3, <1>4, <1>5, <1>6, <1>7

LEMMA TypeProcess ==
  ASSUME TypeOK,
         \/ CreateService \/ PauseCheck \/ ResumeCheck \/ TriggerCheck
         \/ ZombieScan \/ ZombieClose \/ ZombieFails \/ ZombieMissed \/ Tick \/ Restart
  PROVE TypeOK'
<1> USE TimesAssumption
    DEF TypeOK, table, listeners, deletes, zombies, checkJob, checkRun, process, aps, Busy,
        Statuses, Closed
<1>1. CASE ZombieScan BY <1>1 DEF ZombieScan
<1>2. CASE ZombieClose BY <1>2 DEF ZombieClose
<1>3. CASE ZombieFails BY <1>3 DEF ZombieFails
<1>4. CASE Tick BY <1>4 DEF Tick
<1>5. CASE Restart BY <1>5 DEF Restart
<1>6. CASE CreateService BY <1>6 DEF CreateService
<1>7. CASE PauseCheck BY <1>7 DEF PauseCheck
<1>8. CASE ResumeCheck BY <1>8 DEF ResumeCheck
<1>9. CASE TriggerCheck BY <1>9 DEF TriggerCheck
<1>10. CASE ZombieMissed BY <1>10 DEF ZombieMissed, CheckIsDue
<1> QED BY <1>1, <1>2, <1>3, <1>4, <1>5, <1>6, <1>7, <1>8, <1>9, <1>10

LEMMA TypeStep == TypeOK /\ [Next]_vars => TypeOK'
<1> SUFFICES ASSUME TypeOK, [Next]_vars PROVE TypeOK'
  OBVIOUS
<1>1. CASE UNCHANGED vars
  BY <1>1 DEF vars, TypeOK, table, listeners, deletes, zombies, checkJob, checkRun, process, aps
<1> QED BY <1>1, TypeSchedulers, TypeListeners, TypeUsers, TypeProcess DEF Next, Listener

-----------------------------------------------------------------------------
(* The other parts of the invariant.  Most steps leave alone all that they  *)
(* speak of.                                                                *)

LEMMA Untouched ==
  ASSUME Inv, UNCHANGED <<now, table, zombies, process, deletes>>,
         \A e \in Recorders : rpc'[e] = "update" =>
           rpc[e] = "update" /\ target'[e] = target[e] /\ foundAt'[e] = foundAt[e]
  PROVE Clocks' /\ Selected' /\ Checked'
BY DEF Inv, TypeOK, Clocks, Selected, Checked, table, zombies, checkJob, checkRun, process, deletes

LEMMA SchedulerStep ==
  ASSUME Inv,
         \/ PauseOrResume \/ CronFires \/ RunStarts
         \/ \E c \in Callers : TriggerJob(c) \/ TriggerFails(c)
  PROVE Clocks' /\ Selected' /\ Checked'
<1>1. UNCHANGED <<now, table, listeners, zombies, process, deletes>>
  BY DEF PauseOrResume, CronFires, RunStarts, TriggerJob, TriggerFails
<1> QED BY <1>1, Untouched DEF listeners

LEMMA ListenStep ==
  ASSUME Inv, NEW e \in Recorders,
         \/ RunMissed(e) \/ RecordFails(e)
         \/ \E result \in {"success", "failed"} : RunEnds(e, result)
  PROVE Clocks' /\ Selected' /\ Checked'
<1>1. UNCHANGED <<now, table, zombies, process, deletes>>
  BY DEF RunMissed, RunEnds, RecordFails
<1>2. \A f \in Recorders : rpc'[f] = "update" =>
        rpc[f] = "update" /\ target'[f] = target[f] /\ foundAt'[f] = foundAt[f]
  BY DEF RunMissed, RunEnds, Heard, Listen, listeners, RecordFails, ListenerEnds, Inv, TypeOK
<1> QED BY <1>1, <1>2, Untouched

LEMMA LookStep ==
  ASSUME Inv, NEW e \in Recorders, RecordLook(e)
  PROVE Clocks' /\ Selected' /\ Checked'
<1> USE DEF Inv, TypeOK
<1>1. UNCHANGED <<now, table, zombies, process, deletes>>
  BY DEF RecordLook
<1>2. CASE Young = {}
  <2>1. \A f \in Recorders : rpc'[f] = "update" =>
           rpc[f] = "update" /\ target'[f] = target[f] /\ foundAt'[f] = foundAt[f]
    BY <1>2 DEF RecordLook
  <2> QED BY <1>1, <2>1, Untouched
<1>3. ASSUME NEW i \in Young, rpc' = [rpc EXCEPT ![e] = "update"],
             target' = [target EXCEPT ![e] = i], foundAt' = [foundAt EXCEPT ![e] = now]
      PROVE Clocks' /\ Selected' /\ Checked'
  <2>1. Clocks' /\ Checked'
    BY <1>1 DEF Clocks, Checked, table, zombies, checkJob, checkRun, process
  <2>2. i \in Rows /\ status[i] = "running" /\ rowAt[i] + Recent >= now
    BY DEF Young
  <2>3. now \in now..(now + Delay)
    BY TimesAssumption
  <2>4. Selected'
    BY <1>1, <1>3, <2>2, <2>3 DEF Selected, table, zombies, checkJob, checkRun, deletes
  <2> QED BY <2>1, <2>4
<1> QED BY <1>2, <1>3 DEF RecordLook

(* A step that only closes rows, none of which a check or a delete_execution *)
(* may mistake for something else.                                          *)
LEMMA Closing ==
  ASSUME Inv, UNCHANGED <<now, rowAt, zombies, process, deletes>>,
         \A i \in Rows : \/ status'[i] = status[i]
                         \/ /\ status[i] # "none"
                            /\ status'[i] \in Closed \cup {"gone"}
                            /\ status'[i] = "success" => i \notin zset
                            /\ status[i] = "gone" => status'[i] = "gone",
         \A e \in Recorders : rpc'[e] = "update" =>
           rpc[e] = "update" /\ target'[e] = target[e] /\ foundAt'[e] = foundAt[e]
  PROVE Clocks' /\ Selected' /\ Checked'
<1>1. Clocks'
  BY DEF Inv, Clocks, zombies, checkJob, checkRun, process
<1>2. Selected'
  BY DEF Inv, TypeOK, Selected, zombies, checkJob, checkRun, deletes, Closed
<1>3. Checked'
  BY DEF Inv, TypeOK, Checked, zombies, checkJob, checkRun, process, Closed
<1> QED BY <1>1, <1>2, <1>3

(* Where the ages meet: the row a listener writes is not in zset.           *)
LEMMA UpdateStep ==
  ASSUME Inv, NEW e \in Recorders, RecordUpdate(e)
  PROVE Clocks' /\ Selected' /\ Checked'
<1> USE DEF Inv, TypeOK
<1>1. /\ target[e] \in Rows /\ rpc[e] = "update"
      /\ outcome[e] \in {"success", "failed", "missed"}
      /\ status[target[e]] # "none"
  BY DEF RecordUpdate, Selected
<1>2. status[target[e]] # "gone" => target[e] \notin zset
  <2>1. target[e] \in zset => rowAt[target[e]] + ZombieAge < now
    BY <1>1, TimesAssumption DEF Selected, Clocks
  <2>2. status[target[e]] # "gone" => now <= rowAt[target[e]] + Recent + Delay
    BY <1>1, TimesAssumption DEF Selected
  <2> QED BY <1>1, <2>1, <2>2, TimesAssumption
<1>3. UNCHANGED <<now, rowAt, zombies, process, deletes>>
  BY DEF RecordUpdate
<1>4. \A f \in Recorders : rpc'[f] = "update" =>
        rpc[f] = "update" /\ target'[f] = target[f] /\ foundAt'[f] = foundAt[f]
  BY DEF RecordUpdate, ListenerEnds
<1>5. \A i \in Rows : \/ status'[i] = status[i]
                      \/ /\ status[i] # "none"
                         /\ status'[i] \in Closed \cup {"gone"}
                         /\ status'[i] = "success" => i \notin zset
                         /\ status[i] = "gone" => status'[i] = "gone"
  BY <1>1, <1>2 DEF RecordUpdate, Closed
<1> QED BY <1>3, <1>4, <1>5, Closing

LEMMA InsertStep ==
  ASSUME Inv, UNCHANGED <<now, zombies, process, deletes>>,
         NEW i \in Rows, NEW st \in {"running"} \cup Closed, Insert(i, st),
         \A e \in Recorders : rpc'[e] = "update" =>
           rpc[e] = "update" /\ target'[e] = target[e] /\ foundAt'[e] = foundAt[e]
  PROVE Clocks' /\ Selected' /\ Checked'
<1> USE DEF Inv, TypeOK, Insert
<1>1. i \notin zset
  BY DEF Selected
<1>2. Clocks'
  BY TimesAssumption DEF Clocks, zombies, checkJob, checkRun, process
<1>3. Selected'
  BY <1>1 DEF Selected, zombies, checkJob, checkRun, deletes, Closed
<1>4. Checked'
  BY <1>1, TimesAssumption DEF Checked, Clocks, zombies, checkJob, checkRun, process
<1> QED BY <1>2, <1>3, <1>4

LEMMA DeleteStep ==
  ASSUME Inv, NEW d \in Deleters,
         DeleteRow(d) \/ DeleteFails(d) \/ \E i \in Rows : DeleteCheck(d, i)
  PROVE Clocks' /\ Selected' /\ Checked'
<1> USE DEF Inv, TypeOK
<1>1. UNCHANGED <<now, listeners, zombies, process>>
  BY DEF DeleteRow, DeleteFails, DeleteCheck
<1>2. CASE DeleteRow(d)
  <2>1. /\ drow[d] \in Rows /\ status[drow[d]] # "none"
        /\ status' = [status EXCEPT ![drow[d]] = "gone"]
        /\ rowAt' = [rowAt EXCEPT ![drow[d]] = 0]
        /\ \A f \in Deleters : dpc'[f] = "delete" => dpc[f] = "delete" /\ drow'[f] = drow[f]
    BY <1>2 DEF DeleteRow, Selected
  <2>2. Clocks'
    BY <1>1, <2>1 DEF Clocks, zombies, checkJob, checkRun, process
  <2>3. Selected'
    BY <1>1, <2>1, TimesAssumption DEF Selected, Clocks, zombies, checkJob, checkRun, listeners
  <2>4. Checked'
    BY <1>1, <2>1 DEF Checked, zombies, checkJob, checkRun, process
  <2> QED BY <2>2, <2>3, <2>4
<1>3. ASSUME NEW i \in Rows, DeleteCheck(d, i) PROVE Clocks' /\ Selected' /\ Checked'
  BY <1>1, <1>3 DEF DeleteCheck, Clocks, Selected, Checked, table, zombies, checkJob, checkRun, process,
                    listeners
<1>4. CASE DeleteFails(d)
  BY <1>1, <1>4 DEF DeleteFails, Clocks, Selected, Checked, table, zombies, checkJob, checkRun, process,
                    listeners
<1> QED BY <1>2, <1>3, <1>4

LEMMA ScanStep ==
  ASSUME Inv, ZombieScan
  PROVE Clocks' /\ Selected' /\ Checked'
<1> USE TimesAssumption DEF Inv, TypeOK, ZombieScan, CheckIsDue
<1>1. Clocks'
  BY DEF Clocks, table, process
<1>2. Selected'
  BY DEF Selected, table, listeners, deletes
<1>3. Checked'
  <2> SUFFICES ASSUME NEW i \in Rows, status[i] = "running"
               PROVE  IF i \in zset'
                        THEN \/ scannedAt' <= rowAt[i] + ZombieAge + Period
                             \/ scannedAt' <= calmSince + Period
                        ELSE \/ zombieDue' <= rowAt[i] + ZombieAge + Period
                             \/ zombieDue' <= calmSince + Period
    BY DEF Checked, table, process
  <2>1. i \notin zset
    BY DEF Clocks
  <2>2. CASE i \in zset'
    BY <2>1, <2>2 DEF Checked
  <2>3. CASE i \notin zset'
    BY <2>3
  <2> QED BY <2>2, <2>3
<1> QED BY <1>1, <1>2, <1>3

LEMMA CloseStep ==
  ASSUME Inv, ZombieClose
  PROVE Clocks' /\ Selected' /\ Checked'
<1> USE TimesAssumption DEF Inv, TypeOK, ZombieClose, checkJob
<1>1. Clocks'
  BY DEF Clocks, process
<1>2. Selected'
  <2>1. \A i \in Rows : \/ status'[i] = status[i]
                        \/ i \in zset /\ status[i] # "gone" /\ status'[i] = "zombie"
    OBVIOUS
  <2>2. \A i \in Rows : status'[i] = "gone" <=> status[i] = "gone"
    BY <2>1
  <2>3. \A i \in Rows : status[i] # "none" => status'[i] # "none"
    BY <2>1
  <2>4. \A i \in Rows : status'[i] = "running" => status[i] = "running"
    BY <2>1
  <2> QED BY <2>2, <2>3, <2>4 DEF Selected, listeners, deletes
<1>3. Checked'
  BY DEF Checked, process
<1> QED BY <1>1, <1>2, <1>3

LEMMA FailsStep ==
  ASSUME Inv, ZombieFails
  PROVE Clocks' /\ Selected' /\ Checked'
<1> USE TimesAssumption DEF Inv, TypeOK, ZombieFails, checkJob
<1>1. Clocks'
  BY DEF Clocks, table
<1>2. Selected'
  BY DEF Selected, table, listeners, deletes
<1>3. Checked'
  BY DEF Checked, Clocks, table
<1> QED BY <1>1, <1>2, <1>3

(* The job of the check: armed, it is due within a period from now.         *)
LEMMA CheckJobStep ==
  ASSUME Inv, CreateService \/ PauseCheck \/ ResumeCheck \/ TriggerCheck \/ ZombieMissed
  PROVE Clocks' /\ Selected' /\ Checked'
<1> USE TimesAssumption DEF Inv, TypeOK
<1>1. UNCHANGED <<now, table, listeners, deletes, zpc, zset, scannedAt>>
  BY DEF CreateService, PauseCheck, ResumeCheck, TriggerCheck, ZombieMissed, checkRun
<1>2. Selected'
  BY <1>1 DEF Selected, table, listeners, deletes
<1>3. CASE check' = "paused"
  BY <1>1, <1>2, <1>3 DEF Clocks, Checked, table, CreateService, PauseCheck, ResumeCheck,
     TriggerCheck, ZombieMissed, CheckIsDue
<1>4. CASE CreateService \/ ResumeCheck \/ ZombieMissed
  <2>1. calmSince' = now /\ zombieDue' \in now..(now + Period)
    BY <1>4 DEF CreateService, ResumeCheck, ZombieMissed, CheckIsDue
  <2> QED BY <1>1, <1>2, <2>1 DEF Clocks, Checked, table
<1>5. CASE TriggerCheck
  <2>1. /\ zombieDue' = now
        /\ \/ calmSince' = now
           \/ check = "timed" /\ calmSince' = calmSince
    BY <1>5 DEF TriggerCheck, ServiceIsUp
  <2> QED BY <1>1, <1>2, <2>1 DEF Clocks, Checked, table
<1> QED BY <1>3, <1>4, <1>5 DEF PauseCheck

LEMMA TickStep ==
  ASSUME Inv, Tick
  PROVE Clocks' /\ Selected' /\ Checked'
<1> USE TimesAssumption DEF Inv, TypeOK, Tick, CheckIsDue
<1>1. Clocks'
  BY DEF Clocks, table, zombies, checkJob, checkRun, process
<1>2. Selected'
  BY DEF Selected, table, listeners, deletes, zombies, checkJob, checkRun
<1>3. Checked'
  BY DEF Checked, table, zombies, checkJob, checkRun, process
<1> QED BY <1>1, <1>2, <1>3

LEMMA RestartStep ==
  ASSUME Inv, Restart
  PROVE Clocks' /\ Selected' /\ Checked'
BY TimesAssumption DEF Inv, TypeOK, Restart, Clocks, Selected, Checked, table

LEMMA InvNext == Inv /\ [Next]_vars => Inv'
<1> SUFFICES ASSUME Inv, [Next]_vars PROVE Inv'
  OBVIOUS
<1> DEFINE Rest == Clocks' /\ Selected' /\ Checked'
<1>1. ASSUME NEW e \in Recorders, Listener(e) PROVE Rest
  <2>1. ASSUME RecordInsert(e) PROVE Rest
    <3>1. UNCHANGED <<now, zombies, process, deletes>>
      BY <2>1 DEF RecordInsert
    <3>2. outcome[e] \in Closed
      BY <2>1 DEF RecordInsert, Inv, TypeOK, Closed
    <3>3. \A f \in Recorders : rpc'[f] = "update" =>
            rpc[f] = "update" /\ target'[f] = target[f] /\ foundAt'[f] = foundAt[f]
      BY <2>1 DEF RecordInsert, ListenerEnds, Inv, TypeOK
    <3>4. PICK i \in Rows : Insert(i, outcome[e])
      BY <2>1 DEF RecordInsert
    <3> QED BY <3>1, <3>2, <3>3, <3>4, InsertStep
  <2> QED BY <1>1, <2>1, ListenStep, LookStep, UpdateStep DEF Listener
<1>2. ASSUME NEW c \in Callers, TriggerInsert(c) PROVE Rest
  <2>1. UNCHANGED <<now, zombies, process, deletes, listeners>>
    BY <1>2 DEF TriggerInsert
  <2>2. PICK i \in Rows : Insert(i, "running")
    BY <1>2 DEF TriggerInsert
  <2> QED BY <2>1, <2>2, InsertStep DEF listeners
<1>3. ASSUME NEW i \in Rows, MarkFailed(i) PROVE Rest
  <2>1. UNCHANGED <<now, rowAt, zombies, process, deletes, listeners>>
    BY <1>3 DEF MarkFailed
  <2>2. \A j \in Rows : \/ status'[j] = status[j]
                        \/ /\ status[j] \notin {"none", "gone"}
                           /\ status'[j] = "failed"
    BY <1>3 DEF MarkFailed, Inv, TypeOK
  <2>3. \A j \in Rows : \/ status'[j] = status[j]
                        \/ /\ status[j] # "none"
                           /\ status'[j] \in Closed \cup {"gone"}
                           /\ status'[j] = "success" => j \notin zset
                           /\ status[j] = "gone" => status'[j] = "gone"
    BY <2>2 DEF Closed
  <2> QED BY <2>1, <2>3, Closing DEF listeners
<1>4. ASSUME UNCHANGED vars PROVE Rest
  BY <1>4, Untouched DEF vars, listeners
<1>5. Rest
  <2>1. ASSUME NEW c \in Callers, TriggerJob(c) \/ TriggerFails(c) PROVE Rest
    BY <2>1, SchedulerStep
  <2>2. ASSUME NEW d \in Deleters,
               DeleteRow(d) \/ DeleteFails(d) \/ \E i \in Rows : DeleteCheck(d, i)
        PROVE Rest
    BY <2>2, DeleteStep
  <2>3. ASSUME PauseOrResume \/ CronFires \/ RunStarts PROVE Rest
    BY <2>3, SchedulerStep
  <2>4. ASSUME \/ CreateService \/ PauseCheck \/ ResumeCheck \/ TriggerCheck \/ ZombieMissed
               \/ ZombieScan \/ ZombieClose \/ ZombieFails \/ Tick \/ Restart
        PROVE Rest
    BY <2>4, CheckJobStep, ScanStep, CloseStep, FailsStep, TickStep, RestartStep
  <2> HIDE DEF Rest
  <2> QED BY <1>1, <1>2, <1>3, <1>4, <2>1, <2>2, <2>3, <2>4 DEF Next
<1>6. TypeOK'
  BY TypeStep DEF Inv
<1> QED BY <1>5, <1>6 DEF Inv

LEMMA InvAlways == Spec => []Inv
BY InvInit, InvNext, PTL DEF Spec

-----------------------------------------------------------------------------
(* Type correctness of the table and of everything that writes it.          *)
THEOREM ExecutionsTypeCorrect == Spec => []TypeOK
<1>1. Inv => TypeOK BY DEF Inv
<1> QED BY <1>1, InvAlways, PTL

(* While the check of a created service is timed, no row says "running"     *)
(* longer than ZombieAge, a period and the check's own time, counted at the *)
(* latest from when the check was armed, missed or in error: however many   *)
(* rows, listeners, restarts, pauses, faults and deletions.                 *)
THEOREM ArmedCheckClosesRows == Spec => []RunningRowsGetClosed
<1>1. Inv => RunningRowsGetClosed
  <2> SUFFICES ASSUME Inv, check = "timed", NEW i \in Rows, status[i] = "running"
               PROVE  \/ now <= rowAt[i] + ZombieAge + Period + Delay
                      \/ now <= calmSince + Period + Delay
    BY DEF RunningRowsGetClosed
  <2> USE TimesAssumption DEF Inv, TypeOK, Clocks, Checked
  <2>1. CASE i \in zset
    BY <2>1
  <2>2. CASE i \notin zset
    BY <2>2
  <2> QED BY <2>1, <2>2
<1> QED BY <1>1, InvAlways, PTL

(* The zombie check, which writes without looking again, never overwrites a *)
(* recorded success.                                                        *)
THEOREM SuccessIsSafe == Spec => SuccessIsNoZombie
<1>1. ASSUME Inv, [Next]_vars, NEW i \in Rows, status[i] = "success"
      PROVE  status'[i] # "zombie"
  <2>1. ~ZombieClose => status'[i] # "zombie"
    BY <1>1 DEF Next, PauseOrResume, CronFires, RunStarts, Listener, RunMissed, RunEnds,
       RecordLook, RecordUpdate, RecordInsert, RecordFails, Insert, TriggerJob,
       TriggerInsert, TriggerFails, DeleteFails,
       MarkFailed, DeleteRow, DeleteCheck, ZombieScan, ZombieFails, ZombieMissed, Tick, Restart,
       CreateService, PauseCheck, ResumeCheck, TriggerCheck, table, vars,
       Inv, TypeOK
  <2>2. ZombieClose => status'[i] = status[i]
    BY <1>1 DEF ZombieClose, Inv, Selected
  <2> QED BY <1>1, <2>1, <2>2
<1>2. Inv /\ [Next]_vars =>
        [\A i \in Rows : status[i] = "success" => status'[i] # "zombie"]_vars
  BY <1>1
<1> QED BY <1>2, InvAlways, PTL DEF Spec, SuccessIsNoZombie

(* delete_execution, which looks and deletes in two statements, never takes *)
(* a row that is running.                                                   *)
THEOREM RunningIsKept == Spec => RunningRowsAreKept
<1>1. ASSUME Inv, [Next]_vars, NEW i \in Rows, status[i] = "running"
      PROVE  status'[i] # "gone"
  <2>1. (\A d \in Deleters : ~DeleteRow(d)) => status'[i] # "gone"
    BY <1>1 DEF Next, PauseOrResume, CronFires, RunStarts, Listener, RunMissed, RunEnds,
       RecordLook, RecordUpdate, RecordInsert, RecordFails, Insert, TriggerJob,
       TriggerInsert, TriggerFails, DeleteFails,
       MarkFailed, DeleteCheck, ZombieScan, ZombieClose, ZombieFails, ZombieMissed, Tick, Restart,
       CreateService, PauseCheck, ResumeCheck, TriggerCheck, table, vars,
       Inv, TypeOK
  <2>2. ASSUME NEW d \in Deleters, DeleteRow(d) PROVE status'[i] = status[i]
    BY <1>1, <2>2 DEF DeleteRow, Inv, TypeOK, Selected
  <2> QED BY <1>1, <2>1, <2>2
<1>2. Inv /\ [Next]_vars =>
        [\A i \in Rows : status[i] = "running" => status'[i] # "gone"]_vars
  BY <1>1
<1> QED BY <1>2, InvAlways, PTL DEF Spec, RunningRowsAreKept

-----------------------------------------------------------------------------
(* The table as AbstractExecutions.  A verdict of the check is said of a row*)
(* older than ZombieAge, and what a listener has found is too young for it: *)
(* so it is not about to overwrite one, although it does not look again.    *)

RowInv ==
  /\ \A i \in Rows : /\ status[i] \in {"none", "gone"} => rowAt[i] = 0
                     /\ status[i] = "zombie" => rowAt[i] + ZombieAge < now
                     /\ i \in zset => status[i] \in {"running", "failed", "zombie", "gone"}
  /\ \A e \in Recorders :
       /\ rpc[e] \in {"look", "update"} => outcome[e] \in {"success", "failed"}
       /\ rpc[e] = "update" => status[target[e]] \in {"running", "success", "failed", "gone"}

TableStep == [Table!TableNext]_(Table!tableVars)

\* A listener goes on with what it knows, or has just been called or looked.
Follows ==
  \A e \in Recorders : rpc'[e] \in {"look", "update"} =>
    \/ rpc[e] = rpc'[e] /\ outcome'[e] = outcome[e] /\ target'[e] = target[e]
    \/ /\ outcome'[e] \in {"success", "failed"}
       /\ rpc'[e] = "update" => status[target'[e]] = "running"

\* The check selects rows that are running, or none.
Selects == \A i \in zset' : i \in zset \/ (i \in Rows /\ status[i] = "running")

\* It goes on, or ends.
Lasts ==
  \A e \in Recorders : rpc'[e] # "idle" =>
    rpc[e] = rpc'[e] /\ outcome'[e] = outcome[e] /\ target'[e] = target[e]

Writes(i) ==
  \/ Table!Reports(i) /\ i \notin zset
  \/ Table!Appears(i) \/ Table!Condemned(i) \/ Table!Removed(i) \/ Table!Passes(i)

LEMMA SelectsNone == zset' = zset => Selects
BY DEF Selects

\* Steps that write no row.
LEMMA NoWrite ==
  ASSUME Inv, RowInv, now' = now, status' = status, rowAt' = rowAt, Selects, Follows
  PROVE  RowInv' /\ TableStep
<1> USE DEF Follows, Selects
<1>1. TableStep
  BY DEF TableStep, Table!tableVars
<1>2. RowInv'
  <2>1. \A i \in Rows : i \in zset' => status[i] \in {"running", "failed", "zombie", "gone"}
    BY DEF RowInv
  <2>2. \A e \in Recorders :
          /\ rpc'[e] \in {"look", "update"} => outcome'[e] \in {"success", "failed"}
          /\ rpc'[e] = "update" => status[target'[e]] \in {"running", "success", "failed", "gone"}
    BY DEF RowInv
  <2> QED BY <2>1, <2>2 DEF RowInv
<1> QED BY <1>1, <1>2

\* Steps that write some.
LEMMA Write ==
  ASSUME Inv, RowInv, TypeOK', UNCHANGED <<now, zset>>,
         \A i \in Rows : Writes(i), Lasts
  PROVE  RowInv' /\ TableStep
<1> USE DEF Inv, Table!Appears, Table!Reports, Table!Condemned, Table!Removed,
            Table!Passes, Table!Says, Writes, Lasts
<1>1. status' = [i \in Rows |-> status'[i]] /\ rowAt' = [i \in Rows |-> rowAt'[i]]
  BY DEF TypeOK
<1>2. TableStep
  BY <1>1 DEF TableStep, Table!TableNext, Table!tableVars
<1>3. ASSUME NEW i \in Rows
      PROVE  /\ status'[i] \in {"none", "gone"} => rowAt'[i] = 0
             /\ status'[i] = "zombie" => rowAt'[i] + ZombieAge < now
             /\ i \in zset => status'[i] \in {"running", "failed", "zombie", "gone"}
  <2>1. i \in zset => status[i] # "none"
    BY DEF Selected
  <2> QED BY <2>1 DEF RowInv, TypeOK
<1>4. ASSUME NEW e \in Recorders, rpc'[e] = "update"
      PROVE  status'[target'[e]] \in {"running", "success", "failed", "gone"}
  <2>1. /\ target'[e] = target[e] /\ target[e] \in Rows /\ rpc[e] = "update"
        /\ status[target[e]] \in {"running", "success", "failed", "gone"}
    BY <1>4 DEF RowInv, TypeOK
  <2> QED BY <2>1
<1>5. \A e \in Recorders :
        rpc'[e] \in {"look", "update"} => outcome'[e] \in {"success", "failed"}
  BY DEF RowInv
<1> QED BY <1>2, <1>3, <1>4, <1>5 DEF RowInv

\* What a listener is about to write has not been selected by the check.
LEMMA Apart ==
  ASSUME Inv, NEW e \in Recorders, rpc[e] = "update", status[target[e]] # "gone"
  PROVE  /\ target[e] \in Rows /\ target[e] \notin zset
         /\ now <= rowAt[target[e]] + Recent + Delay
<1> USE TimesAssumption DEF Inv, TypeOK
<1>1. target[e] \in Rows /\ now <= rowAt[target[e]] + Recent + Delay
  BY DEF Selected
<1>2. target[e] \in zset => rowAt[target[e]] + ZombieAge < now
  BY <1>1 DEF Selected, Clocks
<1> QED BY <1>1, <1>2

LEMMA UpdateWrites ==
  ASSUME Inv, RowInv, TypeOK', NEW e \in Recorders, RecordUpdate(e)
  PROVE  RowInv' /\ TableStep
<1> USE DEF Inv, TypeOK
<1>1. /\ rpc[e] = "update" /\ target[e] \in Rows /\ outcome[e] \in {"success", "failed"}
      /\ status[target[e]] \in {"running", "success", "failed", "gone"}
  BY DEF RecordUpdate, RowInv
<1>2. UNCHANGED <<now, zset, rowAt>> /\ Lasts
  BY DEF RecordUpdate, ListenerEnds, zombies, checkRun, Lasts
<1>3. ASSUME NEW i \in Rows, i # target[e] PROVE Table!Passes(i)
  BY <1>2, <1>3 DEF RecordUpdate, Table!Passes, Table!Says
<1>4. CASE status[target[e]] = "gone"
  <2>1. Table!Passes(target[e])
    BY <1>1, <1>2, <1>4 DEF RecordUpdate, Table!Passes, Table!Says
  <2> QED BY <1>2, <1>3, <2>1, Write DEF Writes
<1>5. CASE status[target[e]] # "gone"
  <2>1. target[e] \notin zset /\ now <= rowAt[target[e]] + Recent + Delay
    BY <1>1, <1>5, Apart
  <2>2. Table!Reports(target[e])
    BY <1>1, <1>2, <1>5, <2>1 DEF RecordUpdate, Table!Reports, Table!Says
  <2> QED BY <1>2, <1>3, <2>1, <2>2, Write DEF Writes
<1> QED BY <1>4, <1>5

LEMMA InsertWrites ==
  ASSUME Inv, RowInv, TypeOK', UNCHANGED <<now, zset>>,
         NEW i \in Rows, NEW st \in {"running", "success", "failed", "missed"}, Insert(i, st), Lasts
  PROVE  RowInv' /\ TableStep
<1>1. Table!Appears(i)
  BY DEF Insert, Table!Appears, Inv, TypeOK
<1>2. \A j \in Rows \ {i} : Table!Passes(j)
  BY DEF Insert, Table!Passes, Table!Says, Inv, TypeOK
<1>3. ASSUME NEW j \in Rows PROVE Writes(j)
  <2>1. CASE j = i
    BY <1>1, <2>1 DEF Writes, Table!Appears
  <2>2. CASE j # i
    BY <1>2, <2>2 DEF Writes
  <2> QED BY <2>1, <2>2
<1> QED BY <1>3, Write

LEMMA UserWrites ==
  ASSUME Inv, RowInv, TypeOK',
         (\E i \in Rows : MarkFailed(i)) \/ (\E d \in Deleters : DeleteRow(d))
  PROVE  RowInv' /\ TableStep
<1> USE DEF Inv, TypeOK
<1>1. ASSUME NEW i \in Rows, MarkFailed(i) PROVE RowInv' /\ TableStep
  <2>1. \A j \in Rows : Writes(j)
    BY <1>1 DEF MarkFailed, Writes, Table!Condemned, Table!Passes, Table!Says
  <2>2. UNCHANGED <<now, zset>> /\ Lasts
    BY <1>1 DEF MarkFailed, listeners, zombies, checkRun, Lasts
  <2> QED BY <2>1, <2>2, Write
<1>2. ASSUME NEW d \in Deleters, DeleteRow(d) PROVE RowInv' /\ TableStep
  <2>1. drow[d] \in Rows /\ status[drow[d]] \notin {"none", "running"}
    BY <1>2 DEF DeleteRow, Selected
  <2>2. \A j \in Rows \ {drow[d]} : Table!Passes(j)
    BY <1>2 DEF DeleteRow, Table!Passes, Table!Says
  <2>3. Table!Removed(drow[d]) \/ Table!Passes(drow[d])
    <3>1. CASE status[drow[d]] = "gone"
      BY <1>2, <2>1, <3>1 DEF DeleteRow, Table!Passes, Table!Says, RowInv
    <3>2. CASE status[drow[d]] # "gone"
      BY <1>2, <2>1, <3>2 DEF DeleteRow, Table!Removed, Statuses, Closed
    <3> QED BY <3>1, <3>2
  <2>4. UNCHANGED <<now, zset>> /\ Lasts
    BY <1>2 DEF DeleteRow, listeners, zombies, checkRun, Lasts
  <2>5. \A j \in Rows : Writes(j)
    BY <2>2, <2>3 DEF Writes
  <2> QED BY <2>4, <2>5, Write
<1> QED BY <1>1, <1>2

LEMMA CloseWrites ==
  ASSUME Inv, RowInv, TypeOK', ZombieClose
  PROVE  RowInv' /\ TableStep
<1> USE TimesAssumption DEF Inv, TypeOK
<1>1. UNCHANGED <<now, rowAt, listeners>> /\ zset' = {}
  BY DEF ZombieClose
<1>2. ASSUME NEW i \in Rows, i \in zset
      PROVE  Table!TimesOut(i) \/ Table!Passes(i)
  <2>1. rowAt[i] + ZombieAge < now
    BY <1>2 DEF Selected, Clocks
  <2> QED BY <1>1, <1>2, <2>1 DEF ZombieClose, RowInv, Table!TimesOut, Table!Passes, Table!Says
<1>3. ASSUME NEW i \in Rows, i \notin zset PROVE Table!Passes(i)
  BY <1>1, <1>3 DEF ZombieClose, Table!Passes, Table!Says
<1>4. status' = [i \in Rows |-> status'[i]] /\ rowAt' = [i \in Rows |-> rowAt'[i]]
  OBVIOUS
<1>5. TableStep
  BY <1>1, <1>2, <1>3, <1>4 DEF TableStep, Table!TableNext, Table!tableVars
<1>6. RowInv'
  <2>1. ASSUME NEW i \in Rows
        PROVE  /\ status'[i] \in {"none", "gone"} => rowAt'[i] = 0
               /\ status'[i] = "zombie" => rowAt'[i] + ZombieAge < now
    BY <1>1, <1>2, <1>3, <2>1 DEF Table!TimesOut, Table!Passes, Table!Says, RowInv
  <2>2. ASSUME NEW e \in Recorders, rpc[e] = "update"
        PROVE  status'[target[e]] \in {"running", "success", "failed", "gone"}
    <3>1. target[e] \in Rows /\ status[target[e]] \in {"running", "success", "failed", "gone"}
      BY <2>2 DEF RowInv
    <3>2. CASE status[target[e]] = "gone"
      BY <3>1, <3>2, <1>2, <1>3 DEF Table!TimesOut, Table!Passes, Table!Says
    <3>3. CASE status[target[e]] # "gone"
      <4>1. target[e] \notin zset
        BY <2>2, <3>3, Apart
      <4> QED BY <3>1, <4>1, <1>3 DEF Table!Passes, Table!Says
    <3> QED BY <3>2, <3>3
  <2> QED BY <1>1, <2>1, <2>2 DEF RowInv, listeners
<1> QED BY <1>5, <1>6

LEMMA RowInvInit == Init => RowInv /\ Table!TableInit
<1> SUFFICES ASSUME Init PROVE RowInv /\ Table!TableInit
  OBVIOUS
<1>1. RowInv
  BY DEF Init, RowInv
<1> QED BY <1>1 DEF Init, Table!TableInit

LEMMA RowStep == Inv /\ RowInv /\ [Next]_vars => RowInv' /\ TableStep
<1> SUFFICES ASSUME Inv, RowInv, [Next]_vars PROVE RowInv' /\ TableStep
  OBVIOUS
<1> DEFINE Goal == RowInv' /\ TableStep
<1>1. TypeOK'
  BY TypeStep DEF Inv
<1>2. ASSUME NEW e \in Recorders, Listener(e) PROVE Goal
  <2>0. zset \in SUBSET Rows /\ rpc \in [Recorders -> Busy \cup {"idle"}]
    BY DEF Inv, TypeOK
  <2>1. CASE RunMissed(e) \/ \E r \in {"success", "failed"} : RunEnds(e, r)
    <3>1. UNCHANGED <<now, status, rowAt, zset>>
      BY <2>1 DEF RunMissed, RunEnds, table, zombies, checkRun
    <3>2. Follows
      BY <2>1 DEF RunMissed, RunEnds, Heard, Listen, listeners, Follows, Inv, TypeOK
    <3> QED BY <3>1, <3>2, SelectsNone, NoWrite
  <2>2. CASE RecordFails(e)
    <3>1. UNCHANGED <<now, status, rowAt, zset>>
      BY <2>2 DEF RecordFails, table, zombies, checkRun
    <3>2. Follows
      BY <2>2 DEF RecordFails, ListenerEnds, Follows, Inv, TypeOK
    <3> QED BY <3>1, <3>2, SelectsNone, NoWrite
  <2>3. CASE RecordLook(e)
    <3>1. UNCHANGED <<now, status, rowAt, zset, outcome>>
      BY <2>3 DEF RecordLook, table, zombies, checkRun
    <3>2. outcome[e] \in {"success", "failed"}
      BY <2>3 DEF RecordLook, RowInv
    <3>3. rpc'[e] = "update" => status[target'[e]] = "running"
      BY <2>3 DEF RecordLook, Young, Inv, TypeOK
    <3>4. \A f \in Recorders \ {e} : rpc[f] = rpc'[f] /\ target'[f] = target[f]
      BY <2>3 DEF RecordLook, Inv, TypeOK
    <3>5. Follows
      BY <3>1, <3>2, <3>3, <3>4 DEF Follows
    <3> QED BY <3>1, <3>5, SelectsNone, NoWrite
  <2>4. CASE RecordUpdate(e)
    BY <1>1, <2>4, UpdateWrites
  <2>5. CASE RecordInsert(e)
    <3>1. PICK i \in Rows : Insert(i, outcome[e])
      BY <2>5 DEF RecordInsert
    <3>2. outcome[e] \in {"running", "success", "failed", "missed"}
      BY <2>5 DEF RecordInsert, Inv, TypeOK
    <3>3. UNCHANGED <<now, zset>> /\ Lasts
      BY <2>5 DEF RecordInsert, ListenerEnds, zombies, checkRun, Lasts, Inv, TypeOK
    <3> QED BY <1>1, <3>1, <3>2, <3>3, InsertWrites
  <2> QED BY <1>2, <2>1, <2>2, <2>3, <2>4, <2>5 DEF Listener
<1>3. ASSUME NEW c \in Callers, TriggerInsert(c) PROVE Goal
  <2>1. PICK i \in Rows : Insert(i, "running")
    BY <1>3 DEF TriggerInsert
  <2>2. UNCHANGED <<now, zset>> /\ Lasts
    BY <1>3 DEF TriggerInsert, listeners, zombies, checkRun, Lasts
  <2> QED BY <1>1, <2>1, <2>2, InsertWrites
<1>4. ASSUME UNCHANGED <<now, table, listeners, zset>> PROVE Goal
  <2>1. UNCHANGED <<now, status, rowAt, zset>>
    BY <1>4 DEF table
  <2>2. Follows
    BY <1>4 DEF listeners, Follows
  <2> QED BY <2>1, <2>2, SelectsNone, NoWrite
<1>5. ASSUME NEW c \in Callers, TriggerJob(c) \/ TriggerFails(c) PROVE Goal
  BY <1>4, <1>5 DEF TriggerJob, TriggerFails, zombies, checkRun
<1>6. ASSUME NEW d \in Deleters, DeleteFails(d) \/ \E i \in Rows : DeleteCheck(d, i) PROVE Goal
  BY <1>4, <1>6 DEF DeleteFails, DeleteCheck, zombies, checkRun
<1>7. CASE PauseOrResume \/ CronFires \/ RunStarts \/ UNCHANGED vars
  BY <1>4, <1>7 DEF PauseOrResume, CronFires, RunStarts, vars, zombies, checkRun
<1>13. CASE CreateService \/ PauseCheck \/ ResumeCheck \/ TriggerCheck \/ ZombieMissed
  BY <1>4, <1>13 DEF CreateService, PauseCheck, ResumeCheck, TriggerCheck, ZombieMissed,
     checkRun
<1>10. CASE ZombieScan \/ ZombieFails
  <2>1. UNCHANGED <<now, status, rowAt, listeners>>
    BY <1>10 DEF ZombieScan, ZombieFails, table
  <2>2. Selects
    BY <1>10 DEF ZombieScan, ZombieFails, Selects
  <2>3. Follows
    BY <2>1 DEF listeners, Follows
  <2> QED BY <2>1, <2>2, <2>3, NoWrite
<1>11. CASE Restart
  <2>1. UNCHANGED <<now, status, rowAt>> /\ Selects /\ Follows
    BY <1>11 DEF Restart, table, Follows, Selects
  <2> QED BY <2>1, NoWrite
<1>8. CASE Tick
  <2>1. TableStep
    BY <1>8 DEF Tick, TableStep, Table!TableNext, table
  <2>2. RowInv'
    BY <1>8, TimesAssumption DEF Tick, RowInv, table, listeners, zombies, checkRun, Inv, TypeOK
  <2> QED BY <2>1, <2>2
<1>9. ((\E i \in Rows : MarkFailed(i)) \/ \E d \in Deleters : DeleteRow(d)) => Goal
  BY <1>1, UserWrites
<1> HIDE DEF Goal
<1>12. Goal
  BY <1>1, <1>2, <1>3, <1>5, <1>6, <1>7, <1>8, <1>9, <1>10, <1>11, <1>13, CloseWrites DEF Next, Goal
<1> QED BY <1>12 DEF Goal

(* Each row lives as AbstractExecutions says, for any number of rows,        *)
(* listeners and calls, as long as what a listener finds is young enough    *)
(* for the check when it is written (Recent + Delay <= ZombieAge).          *)
THEOREM ExecutionsImplementTable == Spec => RowsLiveOnce
<1>1. Init => RowInv /\ Table!TableInit
  BY RowInvInit
<1>2. Inv /\ RowInv /\ [Next]_vars => RowInv' /\ [Table!TableNext]_(Table!tableVars)
  BY RowStep DEF TableStep
<1> QED BY <1>1, <1>2, InvAlways, PTL DEF Spec, RowsLiveOnce, Table!TableSpec
=============================================================================
