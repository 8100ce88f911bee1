------------------------ MODULE PatternScreeningProofs ------------------------
(***************************************************************************)
(* What a screening task's row says of its run, for every universe, every  *)
(* batch size, every set of cancellers and any number of faults.           *)
(***************************************************************************)
EXTENDS PatternScreening, TLAPS

\* Where the run stands when the row may say "completed".
AfterFinal == {"confirm", "returned", "dead", "errored"} \cup Handling

WholeWhenCompleted ==
  /\ status = "completed" => rpc \in AfterFinal /\ stored = total /\ scanned = total
  /\ rpc = "confirm" => status = "completed"

Progress ==
  /\ rpc \in {"scheduled", "loaded", "universe"} => total = 0
  /\ rpc = "check" => scanned < total
  /\ rpc = "final" => scanned = total

Reported ==
  /\ rpc = "scheduled" => status \in {"queued", "cancelled"}
  /\ rpc \in Handling => faults > 0
  /\ ReturnedIsReported

Inv == TypeOK /\ WholeWhenCompleted /\ Progress /\ Reported /\ EarlyCancelSticks

LEMMA InvInit == Init => Inv
BY BoundsAssumption
   DEF Init, Inv, TypeOK, WholeWhenCompleted, Progress, Reported, ReturnedIsReported,
       EarlyCancelSticks, Active, Ended, Flag, RunPCs, CancelPCs, InTry, Handling

\* The steps of the run that neither raise nor handle an exception.
LEMMA RunStep ==
  ASSUME Inv,
         \/ RunLoad \/ RunStart \/ RunUniverse \/ RunCheck \/ RunStopping
         \/ ProgressRead \/ ProgressWrite \/ RunStore \/ RunFinal \/ RunConfirm
  PROVE Inv'
<1> USE BoundsAssumption, BatchAssumption
    DEF Inv, TypeOK, WholeWhenCompleted, Progress, Reported, ReturnedIsReported,
        EarlyCancelSticks, Active, Ended, Flag, RunPCs, CancelPCs, InTry, Handling,
        AfterFinal, Moves, row, run, calls
<1>1. CASE RunLoad BY <1>1 DEF RunLoad
<1>2. CASE RunStart BY <1>2 DEF RunStart
<1>3. CASE RunUniverse BY <1>3 DEF RunUniverse
<1>4. CASE RunCheck
  <2>1. scanned' \in 0..total /\ (rpc' = "check" => scanned' < total)
                              /\ (rpc' = "final" => scanned' = total)
    BY <1>4 DEF RunCheck, AfterSymbol
  <2>2. rpc' \in {"stopping", "progress_read", "check", "final"}
    BY <1>4 DEF RunCheck, AfterSymbol
  <2>3. stored \in 0..scanned'
    BY <1>4 DEF RunCheck
  <2> QED BY <1>4, <2>1, <2>2, <2>3 DEF RunCheck
<1>5. CASE RunStopping BY <1>5 DEF RunStopping
<1>6. CASE ProgressRead BY <1>6 DEF ProgressRead
<1>7. CASE ProgressWrite BY <1>7 DEF ProgressWrite
<1>8. CASE RunStore BY <1>8 DEF RunStore
<1>9. CASE RunFinal BY <1>9 DEF RunFinal
<1>10. CASE RunConfirm BY <1>10 DEF RunConfirm
<1> QED BY <1>1, <1>2, <1>3, <1>4, <1>5, <1>6, <1>7, <1>8, <1>9, <1>10

LEMMA FaultStep ==
  ASSUME Inv, RunRaises \/ RunnerDies \/ ErrorRead \/ ErrorWrite \/ ErrorStatus
  PROVE Inv'
<1> USE BoundsAssumption
    DEF Inv, TypeOK, WholeWhenCompleted, Progress, Reported, ReturnedIsReported,
        EarlyCancelSticks, Active, Ended, Flag, RunPCs, CancelPCs, InTry, Handling,
        AfterFinal, Moves, Fault, row, run, calls
<1>1. CASE RunRaises BY <1>1 DEF RunRaises
<1>2. CASE RunnerDies BY <1>2 DEF RunnerDies
<1>3. CASE ErrorRead BY <1>3 DEF ErrorRead
<1>4. CASE ErrorWrite BY <1>4 DEF ErrorWrite
<1>5. CASE ErrorStatus BY <1>5 DEF ErrorStatus
<1> QED BY <1>1, <1>2, <1>3, <1>4, <1>5

LEMMA CancelStep ==
  ASSUME Inv, NEW c \in Cancellers, Cancel(c)
  PROVE Inv'
<1> USE DEF Inv, TypeOK, WholeWhenCompleted, Progress, Reported, ReturnedIsReported,
        EarlyCancelSticks, Active, Ended, Flag, RunPCs, CancelPCs, InTry, Handling,
        AfterFinal, row, run, calls
<1>1. CASE CancelUpdate(c) BY <1>1 DEF CancelUpdate
<1>2. CASE MarkRead(c) BY <1>2 DEF MarkRead
<1>3. CASE MarkWrite(c) BY <1>3 DEF MarkWrite
<1> QED BY <1>1, <1>2, <1>3 DEF Cancel

LEMMA InvNext == Inv /\ [Next]_vars => Inv'
<1> SUFFICES ASSUME Inv, [Next]_vars PROVE Inv'
  OBVIOUS
<1>1. CASE RunProceeds BY <1>1, RunStep, FaultStep DEF RunProceeds
<1>2. CASE RunRaises \/ RunnerDies BY <1>2, FaultStep
<1>3. ASSUME NEW c \in Cancellers, Cancel(c) PROVE Inv'
  BY <1>3, CancelStep
<1>4. CASE UNCHANGED vars
  BY <1>4 DEF vars, row, run, calls, Inv, TypeOK, WholeWhenCompleted, Progress,
              Reported, ReturnedIsReported, EarlyCancelSticks
<1> QED BY <1>1, <1>2, <1>3, <1>4 DEF Next

LEMMA InvAlways == Spec => []Inv
BY InvInit, InvNext, PTL DEF Spec

(* Type correctness, the order of the three counts included: the run never  *)
(* scans past its universe nor saves more than it scanned.                  *)
THEOREM ScreeningTypeCorrect == Spec => []TypeOK
<1>1. Inv => TypeOK BY DEF Inv
<1> QED BY <1>1, InvAlways, PTL

(* A task shown as completed carries the whole result.                      *)
THEOREM CompletedMeansWhole == Spec => []CompletedIsWhole
<1>1. Inv => CompletedIsWhole BY DEF Inv, WholeWhenCompleted, CompletedIsWhole
<1> QED BY <1>1, InvAlways, PTL

(* A cancellation that precedes the run is final.                           *)
THEOREM EarlyCancelIsFinal == Spec => []EarlyCancelSticks
<1>1. Inv => EarlyCancelSticks BY DEF Inv
<1> QED BY <1>1, InvAlways, PTL

(* A run that returns by itself leaves a final status.                      *)
THEOREM ReturnIsReported == Spec => []ReturnedIsReported
<1>1. Inv => ReturnedIsReported BY DEF Inv, Reported
<1> QED BY <1>1, InvAlways, PTL

(* A completed task is not taken back, unless a fault was raised after it.  *)
THEOREM CompletedIsFinal == Spec => CompletedStays
<1>1. ASSUME Inv, [Next]_vars, status = "completed"
      PROVE status' \in {"completed"} \cup (IF faults > 0 THEN {"failed"} ELSE {})
  <2> USE <1>1 DEF Inv, WholeWhenCompleted, Reported, AfterFinal, Handling, row
  <2>1. CASE RunProceeds
    <3>1. rpc \in AfterFinal
      OBVIOUS
    <3>2. ~(RunLoad \/ RunStart \/ RunUniverse \/ RunCheck \/ RunStopping \/ ProgressRead
            \/ ProgressWrite \/ RunStore \/ RunFinal)
      BY <3>1 DEF RunLoad, RunStart, RunUniverse, RunCheck, RunStopping, ProgressRead,
                  ProgressWrite, RunStore, RunFinal, Moves
    <3>3. RunConfirm \/ ErrorRead \/ ErrorWrite => status' = "completed"
      BY DEF RunConfirm, ErrorRead, ErrorWrite
    <3>4. ErrorStatus => status' = "failed" /\ faults > 0
      BY DEF ErrorStatus, Moves
    <3> QED BY <2>1, <3>2, <3>3, <3>4 DEF RunProceeds
  <2>2. CASE RunRaises \/ RunnerDies BY <2>2 DEF RunRaises, RunnerDies
  <2>3. ASSUME NEW c \in Cancellers, Cancel(c) PROVE status' = "completed"
    BY <2>3 DEF Cancel, CancelUpdate, MarkRead, MarkWrite, Active
  <2>4. CASE UNCHANGED vars BY <2>4 DEF vars
  <2> QED BY <2>1, <2>2, <2>3, <2>4 DEF Next
<1>2. Inv /\ [Next]_vars =>
        [status = "completed" => status' \in {"completed"} \cup
           (IF faults > 0 THEN {"failed"} ELSE {})]_vars
  BY <1>1
<1> QED BY <1>2, InvAlways, PTL DEF Spec, CompletedStays

-----------------------------------------------------------------------------
\* How far the run is from its end while it stays with the same symbol.
Ahead ==
  CASE rpc = "scheduled" -> 12
    [] rpc = "loaded" -> 11
    [] rpc = "universe" -> 10
    [] rpc = "progress_read" -> 9
    [] rpc = "progress_write" -> 8
    [] rpc = "store" -> 7
    [] rpc = "check" -> 6
    [] rpc = "stopping" -> 5
    [] rpc = "final" -> 4
    [] rpc = "confirm" -> 3
    [] rpc = "error_read" -> 2
    [] rpc \in {"error_write", "error_status"} -> 1
    [] rpc \in {"returned", "errored", "dead"} -> 0

(* Every step of the run, its failures among them, scans a symbol or brings *)
(* it nearer to its end, and cancel_task, which races with it for the row,  *)
(* sends it back nowhere.                                                   *)
RunDescends ==
  [][\/ scanned' > scanned
     \/ scanned' = scanned /\ Ahead' < Ahead
     \/ (\E c \in Cancellers : Cancel(c)) /\ scanned' = scanned /\ Ahead' = Ahead]_vars

LEMMA RunGoesOn ==
  ASSUME TypeOK, RunProceeds \/ RunRaises \/ RunnerDies
  PROVE  scanned' > scanned \/ (scanned' = scanned /\ Ahead' < Ahead)
<1> USE DEF Moves
<1>1. rpc \in RunPCs /\ scanned \in Nat /\ total \in Nat
  BY BoundsAssumption DEF TypeOK
<1>2. CASE RunCheck
  <2>1. CASE scanned' = scanned
    <3>1. rpc = "check" /\ rpc' = "stopping"
      BY <1>1, <1>2, <2>1 DEF RunCheck
    <3> QED BY <2>1, <3>1 DEF Ahead
  <2>2. CASE scanned' # scanned
    BY <1>1, <1>2, <2>2 DEF RunCheck
  <2> QED BY <2>1, <2>2
<1>3. CASE RunRaises
  <2>1. rpc \in InTry /\ rpc' \in {"error_read", "error_status"} /\ scanned' = scanned
    BY <1>3 DEF RunRaises
  <2> QED BY <2>1 DEF Ahead, InTry
<1>4. CASE RunnerDies
  <2>1. /\ rpc \in RunPCs \ {"returned", "errored", "dead"} /\ rpc' = "dead"
        /\ scanned' = scanned
    BY <1>1, <1>4 DEF RunnerDies
  <2> QED BY <2>1 DEF Ahead, RunPCs, InTry, Handling
<1>5. CASE RunLoad \/ RunStart
  BY <1>5 DEF RunLoad, RunStart, Ahead
<1>6. CASE RunUniverse
  BY <1>6 DEF RunUniverse, Ahead
<1>7. CASE RunStopping \/ ProgressRead \/ ProgressWrite
  BY <1>7 DEF RunStopping, ProgressRead, ProgressWrite, Ahead
<1>8. CASE RunStore \/ RunFinal \/ RunConfirm
  BY <1>8 DEF RunStore, RunFinal, RunConfirm, Ahead
<1>9. CASE ErrorRead \/ ErrorWrite \/ ErrorStatus
  BY <1>9 DEF ErrorRead, ErrorWrite, ErrorStatus, Ahead
<1> QED
  BY <1>2, <1>3, <1>4, <1>5, <1>6, <1>7, <1>8, <1>9 DEF RunProceeds

(* A run takes no more than a fixed number of steps for each of its         *)
(* symbols, whatever the batch size and however often it is cancelled: no   *)
(* task stays active because its run keeps running.                         *)
THEOREM TheRunGoesNowhereTwice == Spec => [](scanned <= MaxSymbols) /\ RunDescends
<1> DEFINE Descends ==
      \/ scanned' > scanned
      \/ scanned' = scanned /\ Ahead' < Ahead
      \/ (\E c \in Cancellers : Cancel(c)) /\ scanned' = scanned /\ Ahead' = Ahead
<1>1. TypeOK => scanned <= MaxSymbols
  BY BoundsAssumption DEF TypeOK
<1>2. TypeOK /\ [Next]_vars => [Descends]_vars
  <2> SUFFICES ASSUME TypeOK, Next PROVE Descends
    OBVIOUS
  <2>1. CASE RunProceeds \/ RunRaises \/ RunnerDies
    BY <2>1, RunGoesOn
  <2>2. ASSUME NEW c \in Cancellers, Cancel(c) PROVE Descends
    <3>1. rpc' = rpc /\ scanned' = scanned
      BY <2>2 DEF Cancel, CancelUpdate, MarkRead, MarkWrite, run
    <3> QED BY <2>2, <3>1 DEF Ahead
  <2> QED BY <2>1, <2>2 DEF Next
<1> QED
  BY <1>1, <1>2, ScreeningTypeCorrect, PTL DEF Spec, RunDescends
=============================================================================
