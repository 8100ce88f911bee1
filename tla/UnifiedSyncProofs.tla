-------------------------- MODULE UnifiedSyncProofs --------------------------
(***************************************************************************)
(* Theorems about UnifiedSync, for every number of jobs, steps and symbols. *)
(* The table's truth rests on where a job's run is: no entry before it     *)
(* begins, room for one more outcome while a step is under way, and none   *)
(* left when it returns.  That the connection is tested once rests on who  *)
(* may be testing it: nobody before the instance exists, then its creator  *)
(* alone, and that one failure has not been recorded yet.                  *)
(***************************************************************************)
EXTENDS UnifiedSync, TLAPS

Waiting(j) == jobPc[j] \in {"unrequested", "created"}
InStep(j) == jobPc[j] \in {"connect", "take", "symbols"}

(* The table against the progress of each run.                              *)
Accounted(j) ==
  /\ Waiting(j) => jobStatus[j] = "absent" /\ results[j] = <<>>
  /\ jobPc[j] = "loop" => Len(results[j]) <= stepCount[j]
  /\ InStep(j) => Len(results[j]) < stepCount[j]
  /\ jobPc[j] = "returned" => Len(results[j]) = stepCount[j] /\ jobStatus[j] # "running"
  /\ jobStatus[j] = "completed" => jobPc[j] = "returned"

TableInv == SyncTypeOK /\ \A j \in Jobs : Accounted(j)

(* Who may be testing the connection, and what was recorded of it.          *)
FailedAt(j, a) == a \in 1..Len(results[j]) /\ results[j][a] = "failed"
NoFailure == \A j \in Jobs : \A a \in Nat : ~FailedAt(j, a)
NobodyTests == \A j \in Jobs : jobPc[j] # "connect"

TestedOnce ==
  /\ service = "none" => NobodyTests /\ other # "connect" /\ NoFailure
  /\ other = "connect" => NobodyTests /\ NoFailure
  /\ \A j \in Jobs : jobPc[j] = "connect" =>
       NoFailure /\ \A k \in Jobs : jobPc[k] = "connect" => k = j
  /\ \A j, k \in Jobs : \A a, b \in Nat :
       FailedAt(j, a) /\ FailedAt(k, b) => j = k /\ a = b

ConnectInv == SyncTypeOK /\ TestedOnce

-----------------------------------------------------------------------------
(* Outcomes are only added at the end of a job's list.                      *)
LEMMA Appending ==
  ASSUME NEW s \in Seq(Ways), NEW w \in Ways
  PROVE  /\ Append(s, w) \in Seq(Ways)
         /\ Len(s) \in Nat
         /\ Len(Append(s, w)) = Len(s) + 1
         /\ Append(s, w)[Len(s) + 1] = w
         /\ \A a \in 1..Len(s) : Append(s, w)[a] = s[a]
OBVIOUS

(* What Record does to the lists, in a form that later steps can use.       *)
LEMMA Recording ==
  ASSUME SyncTypeOK, NEW j \in Jobs, NEW w \in Ways, Record(j, w)
  PROVE  /\ results' \in [Jobs -> Seq(Ways)]
         /\ Len(results'[j]) = Len(results[j]) + 1
         /\ results'[j][Len(results[j]) + 1] = w
         /\ \A a \in 1..Len(results[j]) : results'[j][a] = results[j][a]
         /\ \A k \in Jobs \ {j} : results'[k] = results[k]
         /\ Len(results[j]) \in Nat
<1>1. results[j] \in Seq(Ways) /\ results \in [Jobs -> Seq(Ways)]
  BY DEF SyncTypeOK
<1>2. results' = [results EXCEPT ![j] = Append(results[j], w)]
  BY DEF Record
<1>3. results'[j] = Append(results[j], w)
  BY <1>1, <1>2
<1>4. /\ Append(results[j], w) \in Seq(Ways)
      /\ Len(results[j]) \in Nat
      /\ Len(Append(results[j], w)) = Len(results[j]) + 1
      /\ Append(results[j], w)[Len(results[j]) + 1] = w
      /\ \A a \in 1..Len(results[j]) : Append(results[j], w)[a] = results[j][a]
  BY <1>1, Appending
<1>5. \A k \in Jobs \ {j} : results'[k] = results[k]
  BY <1>1, <1>2
<1>6. results' \in [Jobs -> Seq(Ways)]
  BY <1>1, <1>2, <1>4
<1> QED
  BY <1>3, <1>4, <1>5, <1>6

-----------------------------------------------------------------------------
(* Type correctness of one step of one run.                                 *)
LEMMA TypeKept ==
  ASSUME SyncTypeOK, [SyncNext]_syncVars
  PROVE  SyncTypeOK'
<1> USE SyncConstants
<1>1. CASE OtherCreates \/ OtherConnects
  BY <1>1 DEF SyncTypeOK, OtherCreates, OtherConnects, jobVars
<1>2. ASSUME NEW j \in Jobs, Request(j) \/ CancelJob(j)
      PROVE  SyncTypeOK'
  BY <1>2 DEF SyncTypeOK, Request, CancelJob, Goes, JobPCs
<1>3. ASSUME NEW j \in Jobs, NEW n \in 0..MaxSteps, Begin(j, n)
      PROVE  SyncTypeOK'
  BY <1>3 DEF SyncTypeOK, Begin, Goes, JobPCs
<1>4. ASSUME NEW j \in Jobs, NEW n \in 0..MaxTaken, TakeUp(j, n)
      PROVE  SyncTypeOK'
  BY <1>4 DEF SyncTypeOK, TakeUp, Goes, JobPCs
<1>5. ASSUME NEW j \in Jobs, NEW w \in Ways, Record(j, w)
      PROVE  SyncTypeOK'
  <2>1. results' \in [Jobs -> Seq(Ways)]
    BY <1>5, Recording
  <2> QED
    BY <1>5, <2>1 DEF SyncTypeOK, Record, JobPCs
<1>6. ASSUME NEW j \in Jobs, UnknownStep(j) \/ ConnectFails(j) \/ Swallow(j) \/ Answer(j)
      PROVE  SyncTypeOK'
  BY <1>5, <1>6 DEF UnknownStep, ConnectFails, Swallow, Answer, Ways
<1>7. ASSUME NEW j \in Jobs, StartStep(j) \/ Connected(j) \/ Complete(j)
      PROVE  SyncTypeOK'
  BY <1>7 DEF SyncTypeOK, StartStep, Connected, Complete, Goes, JobPCs
<1>8. ASSUME NEW j \in Jobs, Handle(j)
      PROVE  SyncTypeOK'
  <2>1. left[j] - 1 \in 0..MaxTaken
    BY <1>8 DEF SyncTypeOK, Handle
  <2> QED
    BY <1>8, <2>1 DEF SyncTypeOK, Handle
<1>9. CASE UNCHANGED syncVars
  BY <1>9 DEF SyncTypeOK, syncVars, jobVars
<1> QED
  BY <1>1, <1>2, <1>3, <1>4, <1>6, <1>7, <1>8, <1>9 DEF SyncNext, RunSync

(* The job table and the shared instance keep their types, for every number *)
(* of jobs, steps and symbols.                                              *)
THEOREM SyncTypeCorrect == SyncSpec => []SyncTypeOK
<1>1. SyncInit => SyncTypeOK
  BY SyncConstants DEF SyncInit, SyncTypeOK, JobPCs
<1>2. SyncTypeOK /\ [SyncNext]_syncVars => SyncTypeOK'
  BY TypeKept
<1> QED
  BY <1>1, <1>2, PTL DEF SyncSpec

-----------------------------------------------------------------------------
(* The table.  A step of one job leaves what is said of the others alone.   *)
LEMMA OthersAccounted ==
  ASSUME NEW k \in Jobs, Accounted(k),
         jobStatus'[k] = jobStatus[k], stepCount'[k] = stepCount[k],
         results'[k] = results[k], jobPc'[k] = jobPc[k]
  PROVE  Accounted(k)'
BY DEF Accounted, Waiting, InStep

LEMMA RecordAccounted ==
  ASSUME TableInv, NEW j \in Jobs, NEW w \in Ways, Record(j, w),
         Len(results[j]) < stepCount[j],
         jobPc[j] \in {"loop", "connect", "take", "symbols"}
  PROVE  \A k \in Jobs : Accounted(k)'
<1>1. SyncTypeOK
  BY DEF TableInv
<1>2. /\ Len(results'[j]) = Len(results[j]) + 1
      /\ \A k \in Jobs \ {j} : results'[k] = results[k]
      /\ Len(results[j]) \in Nat
  BY <1>1, Recording
<1>3. ASSUME NEW k \in Jobs \ {j} PROVE Accounted(k)'
  BY <1>2, <1>3, OthersAccounted DEF TableInv, SyncTypeOK, Record
<1>4. Accounted(j)'
  <2>1. jobPc'[j] = "loop" /\ stepCount'[j] = stepCount[j] /\ jobStatus'[j] = jobStatus[j]
    BY <1>1 DEF SyncTypeOK, Record
  <2>2. Len(results'[j]) <= stepCount'[j]
    BY <1>1, <1>2, <2>1, SyncConstants DEF SyncTypeOK
  <2>3. jobStatus[j] # "completed"
    BY DEF TableInv, Accounted
  <2> QED
    BY <2>1, <2>2, <2>3 DEF Accounted, Waiting, InStep
<1> QED
  BY <1>3, <1>4

LEMMA TableKept ==
  ASSUME TableInv, [SyncNext]_syncVars
  PROVE  TableInv'
<1>1. SyncTypeOK /\ \A j \in Jobs : Accounted(j)
  BY DEF TableInv
<1>2. SyncTypeOK'
  BY <1>1, TypeKept
<1> DEFINE Kept == \A k \in Jobs : Accounted(k)'
<1> SUFFICES Kept
  BY <1>2 DEF TableInv
<1>3. CASE OtherCreates \/ OtherConnects \/ UNCHANGED syncVars
  <2>1. UNCHANGED jobVars
    BY <1>3 DEF OtherCreates, OtherConnects, syncVars
  <2> QED
    BY <1>1, <2>1, OthersAccounted DEF jobVars
<1>4. ASSUME NEW j \in Jobs, Request(j) PROVE Kept
  <2>1. \A k \in Jobs \ {j} : Accounted(k)'
    BY <1>1, <1>4, OthersAccounted DEF Request, Goes, SyncTypeOK
  <2>2. Accounted(j)'
    BY <1>1, <1>4 DEF Request, Goes, SyncTypeOK, Accounted, Waiting, InStep
  <2> QED BY <2>1, <2>2
<1>5. ASSUME NEW j \in Jobs, CancelJob(j) PROVE Kept
  <2>1. \A k \in Jobs \ {j} : Accounted(k)'
    BY <1>1, <1>5, OthersAccounted DEF CancelJob, SyncTypeOK
  <2>2. Accounted(j)'
    BY <1>1, <1>5 DEF CancelJob, SyncTypeOK, Accounted, Waiting, InStep
  <2> QED BY <2>1, <2>2
<1>6. ASSUME NEW j \in Jobs, NEW n \in 0..MaxSteps, Begin(j, n) PROVE Kept
  <2>1. \A k \in Jobs \ {j} : Accounted(k)'
    BY <1>1, <1>6, OthersAccounted DEF Begin, Goes, SyncTypeOK
  <2>2. /\ jobPc'[j] = "loop" /\ jobStatus'[j] = "running" /\ stepCount'[j] = n
        /\ results'[j] = <<>>
    BY <1>1, <1>6 DEF Begin, Goes, SyncTypeOK, Accounted, Waiting
  <2>3. Len(results'[j]) <= stepCount'[j]
    BY <2>2, SyncConstants
  <2>4. Accounted(j)'
    BY <2>2, <2>3 DEF Accounted, Waiting, InStep
  <2> QED BY <2>1, <2>4
<1>7. ASSUME NEW j \in Jobs, StartStep(j) \/ Connected(j) PROVE Kept
  <2>1. \A k \in Jobs \ {j} : Accounted(k)'
    BY <1>1, <1>7, OthersAccounted DEF StartStep, Connected, Goes, SyncTypeOK
  <2>2. /\ jobPc'[j] \in {"connect", "take"} /\ Len(results'[j]) < stepCount'[j]
        /\ jobStatus'[j] = jobStatus[j] /\ jobStatus[j] # "completed"
    BY <1>1, <1>7 DEF StartStep, Connected, Goes, More, SyncTypeOK, Accounted, InStep
  <2>3. Accounted(j)'
    BY <2>2 DEF Accounted, Waiting, InStep
  <2> QED BY <2>1, <2>3
<1>8. ASSUME NEW j \in Jobs, UnknownStep(j) \/ ConnectFails(j) \/ Swallow(j) \/ Answer(j)
      PROVE  Kept
  <2>1. /\ Len(results[j]) < stepCount[j]
        /\ jobPc[j] \in {"loop", "connect", "take", "symbols"}
    BY <1>1, <1>8 DEF UnknownStep, ConnectFails, Swallow, Answer, More, Accounted, InStep
  <2>2. \E w \in Ways : Record(j, w)
    BY <1>8 DEF UnknownStep, ConnectFails, Swallow, Answer, Ways
  <2> QED BY <2>1, <2>2, RecordAccounted
<1>9. ASSUME NEW j \in Jobs, Complete(j) PROVE Kept
  <2>1. \A k \in Jobs \ {j} : Accounted(k)'
    BY <1>1, <1>9, OthersAccounted DEF Complete, Goes, SyncTypeOK
  <2>2. /\ jobPc'[j] = "returned" /\ jobStatus'[j] = "completed"
        /\ results'[j] = results[j] /\ stepCount'[j] = stepCount[j]
    BY <1>1, <1>9 DEF Complete, Goes, SyncTypeOK
  <2>3. Len(results[j]) = stepCount[j]
    <3>1. results[j] \in Seq(Ways) /\ stepCount[j] \in Nat
      BY <1>1, SyncConstants DEF SyncTypeOK
    <3>2. Len(results[j]) \in Nat
      BY <3>1
    <3>3. Len(results[j]) <= stepCount[j] /\ ~(Len(results[j]) < stepCount[j])
      BY <1>1, <1>9 DEF Complete, Goes, More, Accounted
    <3> QED BY <3>1, <3>2, <3>3
  <2>4. Accounted(j)'
    BY <2>2, <2>3 DEF Accounted, Waiting, InStep
  <2> QED BY <2>1, <2>4
<1>10. ASSUME NEW j \in Jobs, NEW n \in 0..MaxTaken, TakeUp(j, n) PROVE Kept
  <2>1. \A k \in Jobs \ {j} : Accounted(k)'
    BY <1>1, <1>10, OthersAccounted DEF TakeUp, Goes, SyncTypeOK
  <2>2. Accounted(j)'
    BY <1>1, <1>10 DEF TakeUp, Goes, SyncTypeOK, Accounted, Waiting, InStep
  <2> QED BY <2>1, <2>2
<1>11. ASSUME NEW j \in Jobs, Handle(j) PROVE Kept
  BY <1>1, <1>11, OthersAccounted DEF Handle
<1> QED
  BY <1>3, <1>4, <1>5, <1>6, <1>7, <1>8, <1>9, <1>10, <1>11 DEF SyncNext, RunSync

LEMMA TableInvAlways == SyncSpec => []TableInv
<1>1. SyncInit => TableInv
  <2>1. SyncInit => SyncTypeOK
    BY SyncConstants DEF SyncInit, SyncTypeOK, JobPCs
  <2> QED
    BY <2>1 DEF SyncInit, TableInv, Accounted, Waiting, InStep
<1>2. TableInv /\ [SyncNext]_syncVars => TableInv'
  BY TableKept
<1> QED
  BY <1>1, <1>2, PTL DEF SyncSpec

(* A job shown as running is at work, and one shown as completed returned   *)
(* with an outcome for every step, whenever it was cancelled.               *)
THEOREM TableTellsTheTruth == SyncSpec => []TableIsTrue
<1>1. TableInv => TableIsTrue
  BY DEF TableInv, TableIsTrue, Accounted, Waiting
<1> QED
  BY <1>1, TableInvAlways, PTL

-----------------------------------------------------------------------------
(* The connection.  A step that adds no outcome adds no failure, and one    *)
(* that adds another outcome does not either.                               *)
LEMMA SameFailures ==
  ASSUME results' = results
  PROVE  \A k \in Jobs : \A a \in Nat : FailedAt(k, a)' <=> FailedAt(k, a)
BY DEF FailedAt

LEMMA NoNewFailure ==
  ASSUME SyncTypeOK, NEW j \in Jobs, NEW w \in Ways \ {"failed"}, Record(j, w)
  PROVE  \A k \in Jobs : \A a \in Nat : FailedAt(k, a)' => FailedAt(k, a)
<1>1. /\ Len(results'[j]) = Len(results[j]) + 1
      /\ results'[j][Len(results[j]) + 1] = w
      /\ \A a \in 1..Len(results[j]) : results'[j][a] = results[j][a]
      /\ \A k \in Jobs \ {j} : results'[k] = results[k]
      /\ Len(results[j]) \in Nat
  BY Recording
<1>2. ASSUME NEW a \in Nat, FailedAt(j, a)' PROVE FailedAt(j, a)
  <2>1. a \in 1..(Len(results[j]) + 1) /\ results'[j][a] = "failed"
    BY <1>1, <1>2 DEF FailedAt
  <2>2. a # Len(results[j]) + 1
    BY <1>1, <2>1
  <2>3. a \in 1..Len(results[j])
    BY <1>1, <2>1, <2>2
  <2> QED
    BY <1>1, <2>1, <2>3 DEF FailedAt
<1>3. ASSUME NEW k \in Jobs \ {j}, NEW a \in Nat, FailedAt(k, a)' PROVE FailedAt(k, a)
  BY <1>1, <1>3 DEF FailedAt
<1> QED
  BY <1>2, <1>3

(* Where nobody starts to test and no failure is added, nothing changes.    *)
LEMMA TestingAsBefore ==
  ASSUME TestedOnce,
         \A k \in Jobs : jobPc'[k] = "connect" => jobPc[k] = "connect",
         service' = "none" => service = "none",
         other' = "connect" => other = "connect",
         \A k \in Jobs : \A a \in Nat : FailedAt(k, a)' => FailedAt(k, a)
  PROVE  TestedOnce'
<1> USE DEF TestedOnce, NobodyTests, NoFailure
<1>1. (service = "none" => NobodyTests /\ other # "connect" /\ NoFailure)'
  OBVIOUS
<1>2. (other = "connect" => NobodyTests /\ NoFailure)'
  OBVIOUS
<1>3. (\A j \in Jobs : jobPc[j] = "connect" =>
         NoFailure /\ \A k \in Jobs : jobPc[k] = "connect" => k = j)'
  OBVIOUS
<1>4. (\A j, k \in Jobs : \A a, b \in Nat :
         FailedAt(j, a) /\ FailedAt(k, b) => j = k /\ a = b)'
  OBVIOUS
<1> QED
  BY <1>1, <1>2, <1>3, <1>4

(* The one who tests records that the test failed.                          *)
LEMMA TheFailure ==
  ASSUME ConnectInv, NEW j \in Jobs, ConnectFails(j)
  PROVE  TestedOnce'
<1>1. SyncTypeOK /\ TestedOnce
  BY DEF ConnectInv
<1>2. jobPc[j] = "connect" /\ Record(j, "failed")
  BY DEF ConnectFails
<1>3. /\ Len(results'[j]) = Len(results[j]) + 1
      /\ \A a \in 1..Len(results[j]) : results'[j][a] = results[j][a]
      /\ \A k \in Jobs \ {j} : results'[k] = results[k]
      /\ Len(results[j]) \in Nat
  BY <1>1, <1>2, Recording DEF Ways
<1>4. NoFailure /\ other # "connect" /\ service # "none"
  BY <1>1, <1>2 DEF TestedOnce, NobodyTests
<1>5. ASSUME NEW k \in Jobs, NEW a \in Nat, FailedAt(k, a)'
      PROVE  k = j /\ a = Len(results[j]) + 1
  <2>1. k = j
    BY <1>3, <1>4, <1>5 DEF NoFailure, FailedAt
  <2>2. a \in 1..(Len(results[j]) + 1) /\ results'[j][a] = "failed"
    BY <1>3, <1>5, <2>1 DEF FailedAt
  <2>3. a \notin 1..Len(results[j])
    BY <1>3, <1>4, <2>2 DEF NoFailure, FailedAt
  <2> QED
    BY <1>3, <2>1, <2>2, <2>3
<1>6. \A k \in Jobs : jobPc'[k] # "connect"
  BY <1>1, <1>2 DEF SyncTypeOK, TestedOnce, Record
<1>7. other' # "connect" /\ service' # "none"
  BY <1>2, <1>4 DEF Record
<1> QED
  BY <1>5, <1>6, <1>7 DEF TestedOnce

LEMMA ConnectKept ==
  ASSUME ConnectInv, [SyncNext]_syncVars
  PROVE  ConnectInv'
<1>1. SyncTypeOK /\ TestedOnce
  BY DEF ConnectInv
<1>2. SyncTypeOK'
  BY <1>1, TypeKept
<1> SUFFICES TestedOnce'
  BY <1>2 DEF ConnectInv
<1> DEFINE Kept == TestedOnce'
<1>3. CASE OtherCreates
  <2>1. UNCHANGED results /\ UNCHANGED jobPc
    BY <1>3 DEF OtherCreates, jobVars
  <2>2. \A k \in Jobs : \A a \in Nat : FailedAt(k, a)' <=> FailedAt(k, a)
    BY <2>1, SameFailures
  <2>3. CASE service = "none"
    <3>1. NobodyTests /\ NoFailure
      BY <1>1, <2>3 DEF TestedOnce
    <3>2. NobodyTests' /\ NoFailure'
      BY <2>1, <2>2, <3>1 DEF NobodyTests, NoFailure
    <3>3. service' = "untested"
      BY <1>3, <2>3 DEF OtherCreates
    <3> QED
      BY <3>2, <3>3 DEF TestedOnce, NobodyTests, NoFailure
  <2>4. CASE service # "none"
    <3>1. service' = service /\ other' = "gone"
      BY <1>3, <2>4 DEF OtherCreates
    <3> QED
      BY <1>1, <2>1, <2>2, <3>1, TestingAsBefore
  <2> QED BY <2>3, <2>4
<1>4. CASE OtherConnects
  <2>1. UNCHANGED results /\ UNCHANGED jobPc /\ other' = "gone" /\ service' # "none"
    BY <1>4 DEF OtherConnects, jobVars
  <2> QED
    BY <1>1, <2>1, SameFailures, TestingAsBefore
<1>5. ASSUME NEW j \in Jobs, StartStep(j) PROVE Kept
  <2>1. UNCHANGED results /\ UNCHANGED other /\ service' # "none"
    BY <1>5 DEF StartStep
  <2>2. \A k \in Jobs : \A a \in Nat : FailedAt(k, a)' <=> FailedAt(k, a)
    BY <2>1, SameFailures
  <2>3. CASE service = "none"
    <3>1. NobodyTests /\ other # "connect" /\ NoFailure
      BY <1>1, <2>3 DEF TestedOnce
    <3>2. NoFailure'
      BY <2>2, <3>1 DEF NoFailure
    <3>3. \A k \in Jobs : jobPc'[k] = "connect" => k = j
      BY <1>1, <1>5, <3>1 DEF StartStep, Goes, SyncTypeOK, NobodyTests
    <3> QED
      BY <2>1, <3>1, <3>2, <3>3 DEF TestedOnce, NoFailure
  <2>4. CASE service # "none"
    <3>1. \A k \in Jobs : jobPc'[k] = "connect" => jobPc[k] = "connect"
      BY <1>1, <1>5, <2>4 DEF StartStep, Goes, SyncTypeOK
    <3> QED
      BY <1>1, <2>1, <2>2, <3>1, TestingAsBefore
  <2> QED BY <2>3, <2>4
<1>6. ASSUME NEW j \in Jobs, NEW w \in Ways \ {"failed"}, Record(j, w) PROVE Kept
  <2>1. \A k \in Jobs : jobPc'[k] = "connect" => jobPc[k] = "connect"
    BY <1>1, <1>6 DEF Record, SyncTypeOK
  <2>2. UNCHANGED service /\ UNCHANGED other
    BY <1>6 DEF Record
  <2> QED
    BY <1>1, <1>6, <2>1, <2>2, NoNewFailure, TestingAsBefore
<1>7. ASSUME NEW j \in Jobs, UnknownStep(j) \/ Swallow(j) \/ Answer(j) PROVE Kept
  BY <1>6, <1>7 DEF UnknownStep, Swallow, Answer, Ways
<1>8. ASSUME NEW j \in Jobs, ConnectFails(j) PROVE Kept
  BY <1>8, TheFailure
<1>9. ASSUME NEW j \in Jobs, Connected(j) PROVE Kept
  <2>1. UNCHANGED results /\ UNCHANGED other /\ service' # "none"
    BY <1>9 DEF Connected
  <2>2. \A k \in Jobs : jobPc'[k] = "connect" => jobPc[k] = "connect"
    BY <1>1, <1>9 DEF Connected, Goes, SyncTypeOK
  <2> QED
    BY <1>1, <2>1, <2>2, SameFailures, TestingAsBefore
<1>10. ASSUME NEW j \in Jobs, NEW n \in Nat,
              Request(j) \/ CancelJob(j) \/ Begin(j, n) \/ TakeUp(j, n) \/ Handle(j) \/ Complete(j)
       PROVE  Kept
  <2>1. UNCHANGED results /\ UNCHANGED other /\ UNCHANGED service
    BY <1>10 DEF Request, CancelJob, Begin, TakeUp, Handle, Complete
  <2>2. \A k \in Jobs : jobPc'[k] = "connect" => jobPc[k] = "connect"
    BY <1>1, <1>10 DEF Request, CancelJob, Begin, TakeUp, Handle, Complete, Goes, SyncTypeOK
  <2> QED
    BY <1>1, <2>1, <2>2, SameFailures, TestingAsBefore
<1>11. CASE UNCHANGED syncVars
  BY <1>1, <1>11, SameFailures, TestingAsBefore DEF syncVars, jobVars
<1>12. 0..MaxSteps \subseteq Nat /\ 0..MaxTaken \subseteq Nat
  BY SyncConstants
<1> QED
  BY <1>3, <1>4, <1>5, <1>7, <1>8, <1>9, <1>10, <1>11, <1>12 DEF SyncNext, RunSync

(* However many jobs and steps there are, one outcome at most is "failed":  *)
(* whoever comes after the creator of the instance uses it untested.        *)
THEOREM TheConnectionFailsOnce == SyncSpec => []ConnectionFailsOnce
<1>1. SyncInit => ConnectInv
  <2>1. SyncInit => SyncTypeOK
    BY SyncConstants DEF SyncInit, SyncTypeOK, JobPCs
  <2>2. SyncInit => NoFailure
    BY DEF SyncInit, NoFailure, FailedAt
  <2> QED
    BY <2>1, <2>2 DEF SyncInit, ConnectInv, TestedOnce, NobodyTests, NoFailure
<1>2. ConnectInv /\ [SyncNext]_syncVars => ConnectInv'
  BY ConnectKept
<1>3. ConnectInv => ConnectionFailsOnce
  <2> SUFFICES ASSUME ConnectInv,
                      NEW j \in Jobs, NEW k \in Jobs,
                      NEW a \in 1..Len(results[j]), NEW b \in 1..Len(results[k]),
                      results[j][a] = "failed", results[k][b] = "failed"
               PROVE  j = k /\ a = b
    BY DEF ConnectionFailsOnce
  <2>1. a \in Nat /\ b \in Nat
    BY DEF ConnectInv, SyncTypeOK
  <2> QED
    BY <2>1 DEF ConnectInv, TestedOnce, FailedAt
<1> QED
  BY <1>1, <1>2, <1>3, PTL DEF SyncSpec

-----------------------------------------------------------------------------
\* How far a job is from the end of the step it is in.
StepLeft(j) ==
  CASE jobPc[j] = "unrequested" -> MaxTaken + 6
    [] jobPc[j] = "created" -> MaxTaken + 5
    [] jobPc[j] = "loop" -> MaxTaken + 4
    [] jobPc[j] = "connect" -> MaxTaken + 3
    [] jobPc[j] = "take" -> MaxTaken + 2
    [] jobPc[j] = "symbols" -> left[j] + 1
    [] jobPc[j] = "returned" -> 0

(* A job's own step records an outcome or brings it nearer to the end of    *)
(* the step it is in, and nothing that other jobs, callers of the shared    *)
(* service or cancel_job do takes an outcome away or sends it back.         *)
JobsDescend ==
  [][\A j \in Jobs :
       \/ Len(results'[j]) = Len(results[j]) + 1
       \/ results'[j] = results[j] /\ StepLeft(j)' < StepLeft(j)
       \/ /\ ~RunSync(j) /\ ~Request(j)
          /\ results'[j] = results[j] /\ StepLeft(j)' = StepLeft(j)]_syncVars

OutcomesAreBounded ==
  \A j \in Jobs : Len(results[j]) \in 0..MaxSteps /\ StepLeft(j) \in 0..(MaxTaken + 6)

LEMMA OutcomesBounded ==
  ASSUME TableInv PROVE OutcomesAreBounded
<1> SUFFICES ASSUME NEW j \in Jobs
             PROVE  Len(results[j]) \in 0..MaxSteps /\ StepLeft(j) \in 0..(MaxTaken + 6)
  BY DEF OutcomesAreBounded
<1>1. /\ results[j] \in Seq(Ways) /\ stepCount[j] \in 0..MaxSteps
      /\ left[j] \in 0..MaxTaken /\ jobPc[j] \in JobPCs
  BY DEF TableInv, SyncTypeOK
<1>2. Len(results[j]) \in Nat
  BY <1>1
<1>3. Len(results[j]) <= stepCount[j]
  <2>1. CASE Waiting(j)
    BY <1>1, <2>1, SyncConstants DEF TableInv, Accounted
  <2>2. CASE ~Waiting(j)
    BY <1>1, <1>2, <2>2, SyncConstants
       DEF TableInv, Accounted, Waiting, InStep, JobPCs
  <2> QED BY <2>1, <2>2
<1>4. StepLeft(j) \in 0..(MaxTaken + 6)
  BY <1>1, SyncConstants DEF StepLeft, JobPCs
<1> QED
  BY <1>1, <1>2, <1>3, <1>4, SyncConstants

LEMMA RecordAdds ==
  ASSUME SyncTypeOK, NEW j \in Jobs,
         UnknownStep(j) \/ ConnectFails(j) \/ Swallow(j) \/ Answer(j)
  PROVE  \E w \in Ways : Record(j, w)
BY DEF UnknownStep, ConnectFails, Swallow, Answer, Ways

LEMMA JobDescends ==
  ASSUME SyncTypeOK, NEW j \in Jobs, RunSync(j) \/ Request(j)
  PROVE  \/ Len(results'[j]) = Len(results[j]) + 1
         \/ results'[j] = results[j] /\ StepLeft(j)' < StepLeft(j)
<1>1. /\ left[j] \in 0..MaxTaken /\ jobPc \in [Jobs -> JobPCs] /\ left \in [Jobs -> 0..MaxTaken]
      /\ MaxTaken \in Nat
  BY SyncConstants DEF SyncTypeOK
<1>2. CASE UnknownStep(j) \/ ConnectFails(j) \/ Swallow(j) \/ Answer(j)
  BY <1>2, RecordAdds, Recording
<1>3. ASSUME NEW p \in JobPCs, NEW q \in JobPCs, Goes(j, p, q)
      PROVE  jobPc[j] = p /\ jobPc'[j] = q
  BY <1>1, <1>3 DEF Goes
<1>7. CASE Request(j) \/ Connected(j) \/ Complete(j)
  BY <1>1, <1>3, <1>7 DEF Request, Connected, Complete, StepLeft, JobPCs
<1>8. CASE StartStep(j)
  <2>1. /\ jobPc[j] = "loop" /\ jobPc'[j] \in {"connect", "take"}
        /\ results'[j] = results[j]
    BY <1>1, <1>8 DEF StartStep, Goes
  <2> QED BY <1>1, <2>1 DEF StepLeft
<1>4. ASSUME NEW n \in 0..MaxSteps, Begin(j, n)
      PROVE  results'[j] = results[j] /\ StepLeft(j)' < StepLeft(j)
  BY <1>1, <1>4 DEF Begin, Goes, StepLeft
<1>5. ASSUME NEW n \in 0..MaxTaken, TakeUp(j, n)
      PROVE  results'[j] = results[j] /\ StepLeft(j)' < StepLeft(j)
  BY <1>1, <1>5 DEF TakeUp, Goes, StepLeft
<1>6. CASE Handle(j)
  BY <1>1, <1>6 DEF Handle, StepLeft
<1> QED
  BY <1>2, <1>4, <1>5, <1>6, <1>7, <1>8 DEF RunSync

LEMMA OthersLeaveTheJob ==
  ASSUME SyncTypeOK, NEW j \in Jobs, SyncNext, ~RunSync(j), ~Request(j)
  PROVE  results'[j] = results[j] /\ StepLeft(j)' = StepLeft(j)
<1> DEFINE Same == results'[j] = results[j] /\ jobPc'[j] = jobPc[j] /\ left'[j] = left[j]
<1>1. Same => results'[j] = results[j] /\ StepLeft(j)' = StepLeft(j)
  BY DEF StepLeft
<1>2. CASE OtherCreates \/ OtherConnects
  BY <1>1, <1>2 DEF OtherCreates, OtherConnects, jobVars
<1>3. ASSUME NEW k \in Jobs, CancelJob(k) PROVE Same
  BY <1>3 DEF CancelJob
<1>4. ASSUME NEW k \in Jobs, RunSync(k) \/ Request(k) PROVE Same
  <2>1. k # j
    BY <1>4
  <2> USE <2>1 DEF SyncTypeOK
  <2>2. ASSUME NEW w \in Ways, Record(k, w) PROVE Same
    BY <2>2 DEF Record
  <2>3. CASE UnknownStep(k) \/ ConnectFails(k) \/ Swallow(k) \/ Answer(k)
    BY <2>2, <2>3, RecordAdds
  <2>4. CASE Request(k) \/ StartStep(k) \/ Connected(k) \/ Complete(k)
    BY <2>4 DEF Request, StartStep, Connected, Complete, Goes
  <2>5. ASSUME NEW n \in 0..MaxSteps, Begin(k, n) PROVE Same
    BY <2>5 DEF Begin, Goes
  <2>6. ASSUME NEW n \in 0..MaxTaken, TakeUp(k, n) PROVE Same
    BY <2>6 DEF TakeUp, Goes
  <2>7. CASE Handle(k)
    BY <2>7 DEF Handle
  <2> QED
    BY <1>4, <2>3, <2>4, <2>5, <2>6, <2>7 DEF RunSync
<1> QED
  BY <1>1, <1>2, <1>3, <1>4 DEF SyncNext

(* A job takes no more than MaxTaken + 4 steps of its own for each outcome,  *)
(* and records no more than it was asked for: however others use the shared *)
(* service and whether it is cancelled or not, it does not run for ever.    *)
THEOREM NoJobRunsForEver == SyncSpec => []OutcomesAreBounded /\ JobsDescend
<1> DEFINE Descends ==
      \A j \in Jobs :
        \/ Len(results'[j]) = Len(results[j]) + 1
        \/ results'[j] = results[j] /\ StepLeft(j)' < StepLeft(j)
        \/ /\ ~RunSync(j) /\ ~Request(j)
           /\ results'[j] = results[j] /\ StepLeft(j)' = StepLeft(j)
<1>1. TableInv => SyncTypeOK /\ OutcomesAreBounded
  BY OutcomesBounded DEF TableInv
<1>2. SyncTypeOK /\ [SyncNext]_syncVars => [Descends]_syncVars
  <2> SUFFICES ASSUME SyncTypeOK, SyncNext, NEW j \in Jobs
               PROVE  \/ Len(results'[j]) = Len(results[j]) + 1
                      \/ results'[j] = results[j] /\ StepLeft(j)' < StepLeft(j)
                      \/ /\ ~RunSync(j) /\ ~Request(j)
                         /\ results'[j] = results[j] /\ StepLeft(j)' = StepLeft(j)
    OBVIOUS
  <2> QED BY JobDescends, OthersLeaveTheJob
<1> QED
  BY <1>1, <1>2, TableInvAlways, PTL DEF SyncSpec, JobsDescend
=============================================================================
