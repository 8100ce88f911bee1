--------------------------- MODULE TaskQueueProofs ---------------------------
(* What holds of TaskQueue for any tasks, users, workers, cancellers,       *)
(* cleaners and limits, and any number of dead coroutines.                  *)
EXTENDS TaskQueue, TLAPS, FiniteSetTheorems, SequenceTheorems

(* A non-empty set of naturals has a least element.                         *)
LEMMA LeastNatural ==
  ASSUME NEW T \in SUBSET Nat, T # {}
  PROVE  \E m \in T : \A n \in T : m <= n
<1>1. PICK m \in T : \A n \in T : ~ (<<n, m>> \in OpToRel(<, Nat))
  BY NatLessThanWellFounded, WFMin, Zenon
<1>2. \A n \in T : ~ (n < m)
  BY <1>1 DEF OpToRel
<1> QED
  BY <1>2

(* Among the positions LREM keeps, there is one of every rank.  The least   *)
(* position i with at least k kept positions up to it is the one.           *)
LEMMA RankExists ==
  ASSUME NEW S, NEW s \in Seq(S), NEW t,
         NEW k \in 1..Cardinality(Kept(s, t))
  PROVE  /\ Pos(s, t, k) \in Kept(s, t)
         /\ Cardinality(KeptUpTo(s, t, Pos(s, t, k))) = k
<1> DEFINE Up(i) == KeptUpTo(s, t, i)
           Big == {i \in 1..Len(s) : Cardinality(Up(i)) >= k}
<1>1. /\ IsFiniteSet(Kept(s, t)) /\ Cardinality(Kept(s, t)) \in Nat
      /\ \A i \in Int : IsFiniteSet(Up(i)) /\ Cardinality(Up(i)) \in Nat
  <2>1. IsFiniteSet(1..Len(s))
    BY FS_Interval
  <2>2. IsFiniteSet(Kept(s, t))
    BY <2>1, FS_Subset DEF Kept
  <2>3. \A i \in Int : Up(i) \subseteq Kept(s, t)
    BY DEF KeptUpTo
  <2> QED
    BY <2>2, <2>3, FS_Subset, FS_CardinalityType
<1>2. Len(s) \in Big
  <2>1. Up(Len(s)) = Kept(s, t)
    BY DEF Kept, KeptUpTo
  <2>2. Len(s) >= 1
    <3>1. SUFFICES ASSUME Len(s) = 0 PROVE FALSE
      OBVIOUS
    <3>2. Kept(s, t) = {}
      BY <3>1 DEF Kept
    <3> QED
      BY <3>2, FS_EmptySet
  <2> QED
    BY <2>1, <2>2, <1>1
<1>3. PICK i \in Big : \A j \in Big : i <= j
  <2> HIDE DEF Up
  <2>1. Big \in SUBSET Nat
    OBVIOUS
  <2> HIDE DEF Big
  <2> QED
    BY <1>2, <2>1, LeastNatural
<1>4. \A j \in 1..Len(s) : j < i => Cardinality(Up(j)) < k
  <2> HIDE DEF Up
  <2> QED
    BY <1>3, <1>1
<1>5. i \in Kept(s, t) /\ Cardinality(Up(i)) = k
  <2> DEFINE Below == Up(i) \ {i}
  <2>1. /\ IsFiniteSet(Below)
        /\ Cardinality(Below) = IF i \in Up(i) THEN Cardinality(Up(i)) - 1
                                              ELSE Cardinality(Up(i))
    <3>1. i \in Int
      OBVIOUS
    <3>2. IsFiniteSet(Up(i))
      BY <1>1, <3>1
    <3> HIDE DEF Up
    <3> QED
      BY <3>2, FS_RemoveElement
  <2>2. Cardinality(Below) < k
    <3>0. i \in Nat /\ \A j \in Kept(s, t) : j \in Nat \ {0}
      BY DEF Kept
    <3>1. CASE i = 1
      <4>1. Below = {}
        BY <3>0, <3>1 DEF KeptUpTo
      <4> HIDE DEF Below
      <4> QED
        BY <4>1, FS_EmptySet
    <3>2. CASE i > 1
      <4>1. Below = Up(i - 1)
        BY <3>0, <3>2 DEF KeptUpTo
      <4> HIDE DEF Below, Up
      <4> QED
        BY <4>1, <1>4, <3>2
    <3> QED
      BY <3>0, <3>1, <3>2
  <2>3. i \in Up(i)
    <3> HIDE DEF Up
    <3> QED
      BY <2>1, <2>2, <1>1, <1>3
  <2>4. i \in Kept(s, t)
    BY <2>3 DEF KeptUpTo
  <2>5. Cardinality(Up(i)) = k
    <3> HIDE DEF Up
    <3> QED
      BY <2>1, <2>2, <2>3, <1>1, <1>3
  <2> QED
    BY <2>4, <2>5
<1> QED
  BY <1>5 DEF Pos

(* What LREM leaves is a list of ids that were on the list, t not among     *)
(* them.                                                                    *)
LEMMA LremResult ==
  ASSUME NEW S, NEW s \in Seq(S), NEW t
  PROVE  /\ Without(s, t) \in Seq(S)
         /\ \A k \in 1..Len(Without(s, t)) :
              \E i \in 1..Len(s) : s[i] # t /\ Without(s, t)[k] = s[i]
<1> DEFINE n == Cardinality(Kept(s, t))
<1>1. n \in Nat
  <2>1. IsFiniteSet(1..Len(s))
    BY FS_Interval
  <2>2. IsFiniteSet(Kept(s, t))
    BY <2>1, FS_Subset DEF Kept
  <2> QED
    BY <2>2, FS_CardinalityType
<1>2. \A k \in 1..n : Pos(s, t, k) \in Kept(s, t)
  BY RankExists
<1>3. Without(s, t) = [k \in 1..n |-> s[Pos(s, t, k)]]
  BY DEF Without
<1> HIDE DEF n
<1>4. \A k \in 1..n : Pos(s, t, k) \in 1..Len(s) /\ s[Pos(s, t, k)] # t
  BY <1>2 DEF Kept
<1>5. Without(s, t) \in Seq(S) /\ Len(Without(s, t)) = n
  BY <1>1, <1>3, <1>4
<1>6. \A k \in 1..n : Without(s, t)[k] = s[Pos(s, t, k)]
  BY <1>3
<1> QED
  BY <1>4, <1>5, <1>6

(* The same for LPUSH and RPOP.                                             *)
LEMMA PushResult ==
  ASSUME NEW S, NEW s \in Seq(S), NEW t \in S
  PROVE  /\ <<t>> \o s \in Seq(S)
         /\ Len(<<t>> \o s) = Len(s) + 1
         /\ (<<t>> \o s)[1] = t
         /\ \A i \in 1..Len(s) : (<<t>> \o s)[i + 1] = s[i]
         /\ \A j \in 2..Len(s) + 1 : (<<t>> \o s)[j] = s[j - 1] /\ j - 1 \in 1..Len(s)
OBVIOUS

LEMMA PopResult ==
  ASSUME NEW S, NEW s \in Seq(S), s # <<>>
  PROVE  /\ Len(s) \in 1..Len(s)
         /\ SubSeq(s, 1, Len(s) - 1) \in Seq(S)
         /\ Len(SubSeq(s, 1, Len(s) - 1)) = Len(s) - 1
         /\ \A i \in 1..Len(s) - 1 :
              SubSeq(s, 1, Len(s) - 1)[i] = s[i] /\ i \in 1..Len(s)
<1>1. Len(s) \in Nat \ {0}
  OBVIOUS
<1>2. PICK n \in Nat : Len(s) = n + 1
  <2>1. Len(s) - 1 \in Nat /\ Len(s) = (Len(s) - 1) + 1
    BY <1>1
  <2> QED
    BY <2>1
<1>3. Len(s) - 1 = n
  BY <1>2
<1>4. /\ 1 \in Int /\ n \in Int
      /\ \A i \in 1..n : s[i] \in S
      /\ \A i \in 1..n : i \in 1..Len(s)
  BY <1>2
<1>5. /\ SubSeq(s, 1, n) \in Seq(S)
      /\ Len(SubSeq(s, 1, n)) = IF 1 <= n THEN n - 1 + 1 ELSE 0
      /\ \A i \in 1..n - 1 + 1 : SubSeq(s, 1, n)[i] = s[1 + i - 1]
  BY <1>4, SubSeqProperties
<1> DEFINE q == SubSeq(s, 1, n)
<1>6. SubSeq(s, 1, Len(s) - 1) = q
  BY <1>3
<1>7. /\ q \in Seq(S) 
      /\ Len(q) = IF 1 <= n THEN n - 1 + 1 ELSE 0
      /\ \A i \in 1..n - 1 + 1 : q[i] = s[1 + i - 1]
  BY <1>5
<1> HIDE DEF q
<1>8. Len(q) = n /\ \A i \in 1..n : q[i] = s[i]
  BY <1>7
<1> QED
  BY <1>1, <1>3, <1>4, <1>6, <1>7, <1>8

-----------------------------------------------------------------------------
(* Type correctness.                                                        *)

LEMMA TypeInit == Init => TypeOK
BY NoTaskAssumption, CrashAssumption
DEF Init, TypeOK, Statuses, EnqPCs, WorkerPCs, Dequeuing, Acking, CancelPCs, CleanPCs

LEMMA TypeEnqueue ==
  ASSUME TypeOK, NEW t \in Tasks, Enqueue(t)
  PROVE  TypeOK'
<1> USE DEF store, visibility, workerVars, cancelVars, cleanVars, history, LPush
<1>1. CASE EnqCheckUser(t)
  BY <1>1 DEF EnqCheckUser, TypeOK, EnqPCs
<1>2. CASE EnqCheckGlobal(t)
  BY <1>2 DEF EnqCheckGlobal, TypeOK, EnqPCs
<1>3. CASE EnqStore(t)
  BY <1>3 DEF EnqStore, TypeOK, EnqPCs, Statuses
<1>4. CASE EnqPush(t)
  BY <1>4 DEF EnqPush, TypeOK, EnqPCs
<1> QED
  BY <1>1, <1>2, <1>3, <1>4 DEF Enqueue

LEMMA TypeDequeue ==
  ASSUME TypeOK, NEW w \in Workers, Dequeue(w)
  PROVE  TypeOK'
<1> USE NoTaskAssumption, OwnerAssumption
    DEF store, visibility, cancelVars, cleanVars, history, LPush
<1>0. wpc[w] \in WorkerPCs /\ wtask[w] \in Tasks \cup {NoTask}
  BY DEF TypeOK
<1>1. CASE DeqPop(w)
  <2>1. ready[Len(ready)] \in Tasks /\ SubSeq(ready, 1, Len(ready) - 1) \in Seq(Tasks)
    BY <1>1 DEF DeqPop, TypeOK
  <2> QED
    BY <1>1, <2>1 DEF DeqPop, TypeOK, WorkerPCs, Dequeuing
<1>2. CASE DeqCheck(w)
  BY <1>2 DEF DeqCheck, TypeOK, WorkerPCs, Dequeuing
<1>3. CASE DeqBounce(w)
  BY <1>3 DEF DeqBounce, TypeOK, WorkerPCs, Dequeuing
<1>4. CASE DeqMarkUser(w)
  BY <1>4 DEF DeqMarkUser, TypeOK, WorkerPCs, Dequeuing
<1>5. CASE DeqMarkProcessing(w)
  BY <1>5 DEF DeqMarkProcessing, TypeOK, WorkerPCs, Dequeuing
<1>6. CASE DeqStamp(w)
  BY <1>6 DEF DeqStamp, TypeOK, WorkerPCs, Dequeuing
<1>7. CASE DeqExpire(w)
  BY <1>7 DEF DeqExpire, TypeOK, WorkerPCs, Dequeuing
<1>8. CASE DeqSetStatus(w)
  BY <1>8 DEF DeqSetStatus, TypeOK, WorkerPCs, Dequeuing, Statuses
<1> QED
  BY <1>1, <1>2, <1>3, <1>4, <1>5, <1>6, <1>7, <1>8 DEF Dequeue

LEMMA TypeAck ==
  ASSUME TypeOK, NEW w \in Workers, Ack(w)
  PROVE  TypeOK'
<1> USE NoTaskAssumption, OwnerAssumption
    DEF store, visibility, cancelVars, cleanVars, history, SremUser, DelVisibility
<1>1. CASE AckUnmarkUser(w)
  BY <1>1 DEF AckUnmarkUser, TypeOK, WorkerPCs, Acking
<1>2. CASE AckUnmarkProcessing(w)
  BY <1>2 DEF AckUnmarkProcessing, TypeOK, WorkerPCs, Acking
<1>3. CASE AckClear(w)
  BY <1>3 DEF AckClear, TypeOK, WorkerPCs, Acking
<1>4. CASE \E outcome \in Outcomes : AckSetStatus(w, outcome)
  BY <1>4, OutcomesAssumption DEF AckSetStatus, TypeOK, WorkerPCs, Acking, Statuses
<1>5. CASE AckRecord(w)
  BY <1>5 DEF AckRecord, TypeOK, WorkerPCs, Acking
<1> QED
  BY <1>1, <1>2, <1>3, <1>4, <1>5 DEF Ack

LEMMA TypeCancel ==
  ASSUME TypeOK, NEW c \in Cancellers, Cancel(c)
  PROVE  TypeOK'
<1> USE NoTaskAssumption, OwnerAssumption
    DEF store, visibility, workerVars, cleanVars, history, SremUser, DelVisibility
<1>1. CASE \E t \in Tasks : CancelLoad(c, t)
  BY <1>1 DEF CancelLoad, TypeOK, CancelPCs
<1>2. CASE CancelUnmarkUser(c)
  BY <1>2 DEF CancelUnmarkUser, TypeOK, CancelPCs
<1>3. CASE CancelUnmarkProcessing(c)
  BY <1>3 DEF CancelUnmarkProcessing, TypeOK, CancelPCs
<1>4. CASE CancelClear(c)
  BY <1>4 DEF CancelClear, TypeOK, CancelPCs
<1>5. CASE CancelRemove(c)
  <2>1. Without(ready, ctask[c]) \in Seq(Tasks)
    BY LremResult DEF TypeOK
  <2> QED
    BY <1>5, <2>1 DEF CancelRemove, TypeOK, CancelPCs
<1>6. CASE CancelWrite(c)
  BY <1>6 DEF CancelWrite, TypeOK, CancelPCs, Statuses
<1> QED
  BY <1>1, <1>2, <1>3, <1>4, <1>5, <1>6 DEF Cancel, CancelProceeds

LEMMA TypeCleanup ==
  ASSUME TypeOK, NEW k \in Cleaners, Cleanup(k)
  PROVE  TypeOK'
<1> USE NoTaskAssumption, OwnerAssumption
    DEF store, visibility, workerVars, cancelVars, history, SremUser, DelVisibility
<1>1. CASE CleanScan(k)
  BY <1>1 DEF CleanScan, TypeOK, CleanPCs
<1>2. CASE \E t \in Tasks : CleanUnmarkUser(k, t)
  BY <1>2 DEF CleanUnmarkUser, TypeOK, CleanPCs
<1>3. CASE CleanUnmarkProcessing(k)
  BY <1>3 DEF CleanUnmarkProcessing, TypeOK, CleanPCs
<1>4. CASE CleanClear(k)
  BY <1>4 DEF CleanClear, TypeOK, CleanPCs
<1>5. CASE CleanPush(k)
  BY <1>5 DEF CleanPush, TypeOK, CleanPCs, LPush
<1>6. CASE CleanWrite(k)
  BY <1>6 DEF CleanWrite, TypeOK, CleanPCs, Statuses
<1> QED
  BY <1>1, <1>2, <1>3, <1>4, <1>5, <1>6 DEF Cleanup

LEMMA TypeClock ==
  ASSUME TypeOK, NEW t \in Tasks, TimeoutPasses(t) \/ KeyExpires(t)
  PROVE  TypeOK'
BY DEF TimeoutPasses, KeyExpires, DelVisibility, TypeOK, visibility, workerVars,
       cancelVars, cleanVars, history

LEMMA TypeDies ==
  ASSUME TypeOK, Dies
  PROVE  TypeOK'
<1> USE NoTaskAssumption, CrashAssumption
    DEF store, visibility, workerVars, cancelVars, cleanVars, Abandon
<1>1. CASE \E t \in Tasks : EnqueueDies(t)
  BY <1>1 DEF EnqueueDies, TypeOK, EnqPCs
<1>2. CASE \E w \in Workers : WorkerDies(w)
  BY <1>2 DEF WorkerDies, TypeOK, WorkerPCs
<1>3. CASE \E c \in Cancellers : CancelDies(c)
  BY <1>3 DEF CancelDies, TypeOK, CancelPCs
<1>4. CASE \E k \in Cleaners : CleanupDies(k)
  BY <1>4 DEF CleanupDies, TypeOK, CleanPCs
<1> QED
  BY <1>1, <1>2, <1>3, <1>4 DEF Dies

LEMMA TypeStep == TypeOK /\ [Next]_vars => TypeOK'
<1> SUFFICES ASSUME TypeOK, [Next]_vars PROVE TypeOK'
  OBVIOUS
<1>1. CASE UNCHANGED vars
  BY <1>1 DEF vars, store, workerVars, cancelVars, cleanVars, history, TypeOK
<1>2. CASE Next
  BY <1>2, TypeEnqueue, TypeDequeue, TypeAck, TypeCancel, TypeCleanup, TypeClock,
     TypeDies DEF Next
<1> QED
  BY <1>1, <1>2

(* The Redis keys and the coroutines hold only values of their types.       *)
THEOREM TypeCorrect == Spec => []TypeOK
BY TypeInit, TypeStep, PTL DEF Spec

-----------------------------------------------------------------------------
(* Every id a coroutine or a visibility key can pass on has its hash: the   *)
(* strengthening that makes RecordBeforeReady inductive.                    *)

Recorded == {t \in Tasks : status[t] # "none"}

RecordInv ==
  /\ TypeOK
  /\ RecordBeforeReady
  /\ \A t \in Tasks : enq[t] \in {"stored", "done", "died"} => t \in Recorded
  /\ visible \subseteq Recorded
  /\ \A k \in Cleaners : /\ kexp[k] \subseteq Recorded
                         /\ ktask[k] # NoTask => ktask[k] \in Recorded

LEMMA RecordInit == Init => RecordInv
BY TypeInit, NoTaskAssumption DEF Init, RecordInv, RecordBeforeReady, Recorded

LEMMA RecordStep == RecordInv /\ [Next]_vars => RecordInv'
<1> SUFFICES ASSUME RecordInv, [Next]_vars PROVE RecordInv'
  OBVIOUS
<1>t. TypeOK /\ TypeOK'
  BY TypeStep DEF RecordInv
<1> USE NoTaskAssumption, <1>t
    DEF RecordInv, RecordBeforeReady, Recorded, store, visibility, workerVars,
        cancelVars, cleanVars, history, LPush, SremUser, DelVisibility
<1>1. ASSUME NEW t \in Tasks, Enqueue(t) PROVE RecordInv'
  <2>1. CASE EnqCheckUser(t) \/ EnqCheckGlobal(t)
    BY <2>1 DEF EnqCheckUser, EnqCheckGlobal, TypeOK
  <2>2. CASE EnqStore(t)
    BY <2>2 DEF EnqStore, TypeOK
  <2>3. CASE EnqPush(t)
    BY <2>3 DEF EnqPush, TypeOK
  <2> QED
    BY <1>1, <2>1, <2>2, <2>3 DEF Enqueue
<1>2. ASSUME NEW w \in Workers, Dequeue(w) \/ Ack(w) PROVE RecordInv'
  <2>1. CASE DeqPop(w)
    <3>1. ready \in Seq(Tasks) /\ ready # <<>>
      BY <2>1 DEF DeqPop, TypeOK
    <3>2. /\ Len(ready) \in 1..Len(ready)
          /\ \A i \in 1..Len(ready') : ready'[i] = ready[i] /\ i \in 1..Len(ready)
      BY <2>1, <3>1, PopResult DEF DeqPop
    <3>3. status[ready[Len(ready)]] # "none"
      BY <3>2
    <3>4. /\ wpc' = [wpc EXCEPT ![w] = "popped"]
          /\ wtask' = [wtask EXCEPT ![w] = ready[Len(ready)]]
          /\ UNCHANGED <<status, enq, visible, cpc, ctask, kexp, ktask>>
      BY <2>1 DEF DeqPop
    <3> QED
      BY <3>2, <3>3, <3>4 DEF TypeOK
  <2>2. CASE DeqCheck(w) \/ DeqMarkUser(w) \/ DeqMarkProcessing(w)
    BY <2>2 DEF DeqCheck, DeqMarkUser, DeqMarkProcessing, TypeOK
  <2>3. CASE DeqBounce(w)
    <3>1. wtask[w] \in Recorded
      BY <2>3 DEF DeqBounce, TypeOK
    <3>2. \A i \in 1..Len(ready') : ready'[i] \in Recorded
      BY <2>3, <3>1, PushResult DEF DeqBounce, TypeOK
    <3> QED
      BY <2>3, <3>2 DEF DeqBounce, TypeOK
  <2>4. CASE DeqStamp(w) \/ DeqExpire(w)
    BY <2>4 DEF DeqStamp, DeqExpire, TypeOK
  <2>5. CASE DeqSetStatus(w)
    BY <2>5 DEF DeqSetStatus, TypeOK
  <2>6. CASE AckUnmarkUser(w) \/ AckUnmarkProcessing(w) \/ AckClear(w) \/ AckRecord(w)
    BY <2>6 DEF AckUnmarkUser, AckUnmarkProcessing, AckClear, AckRecord, TypeOK
  <2>7. CASE \E outcome \in Outcomes : AckSetStatus(w, outcome)
    BY <2>7, OutcomesAssumption DEF AckSetStatus, TypeOK
  <2> QED
    BY <1>2, <2>1, <2>2, <2>3, <2>4, <2>5, <2>6, <2>7 DEF Dequeue, Ack
<1>3. ASSUME NEW c \in Cancellers, Cancel(c) PROVE RecordInv'
  <2>1. CASE \E t \in Tasks : CancelLoad(c, t)
    BY <2>1 DEF CancelLoad, TypeOK
  <2>2. CASE CancelUnmarkUser(c) \/ CancelUnmarkProcessing(c) \/ CancelClear(c)
    BY <2>2 DEF CancelUnmarkUser, CancelUnmarkProcessing, CancelClear, TypeOK
  <2>3. CASE CancelRemove(c)
    <3>1. \A j \in 1..Len(ready') : \E i \in 1..Len(ready) : ready'[j] = ready[i]
      BY <2>3, LremResult DEF CancelRemove, TypeOK
    <3> QED
      BY <2>3, <3>1 DEF CancelRemove, TypeOK
  <2>4. CASE CancelWrite(c)
    BY <2>4 DEF CancelWrite, TypeOK
  <2> QED
    BY <1>3, <2>1, <2>2, <2>3, <2>4 DEF Cancel, CancelProceeds
<1>4. ASSUME NEW k \in Cleaners, Cleanup(k) PROVE RecordInv'
  <2>1. CASE CleanScan(k)
    BY <2>1 DEF CleanScan, TypeOK
  <2>2. CASE \E t \in Tasks : CleanUnmarkUser(k, t)
    BY <2>2 DEF CleanUnmarkUser, TypeOK
  <2>3. CASE CleanUnmarkProcessing(k) \/ CleanClear(k)
    BY <2>3 DEF CleanUnmarkProcessing, CleanClear, TypeOK
  <2>4. CASE CleanPush(k)
    BY <2>4 DEF CleanPush, TypeOK
  <2>5. CASE CleanWrite(k)
    BY <2>5 DEF CleanWrite, TypeOK
  <2> QED
    BY <1>4, <2>1, <2>2, <2>3, <2>4, <2>5 DEF Cleanup
<1>5. ASSUME NEW t \in Tasks, TimeoutPasses(t) \/ KeyExpires(t) PROVE RecordInv'
  BY <1>5 DEF TimeoutPasses, KeyExpires, TypeOK
<1>6. CASE Dies
  <2>1. CASE \E t \in Tasks : EnqueueDies(t)
    BY <2>1 DEF EnqueueDies, Abandon, TypeOK
  <2>2. CASE \E w \in Workers : WorkerDies(w)
    BY <2>2 DEF WorkerDies, Abandon, TypeOK
  <2>3. CASE \E c \in Cancellers : CancelDies(c)
    BY <2>3 DEF CancelDies, Abandon, TypeOK
  <2>4. ASSUME NEW k \in Cleaners, CleanupDies(k) PROVE RecordInv'
    <3>1. UNCHANGED <<ready, status, visible, enq, wpc, wtask, cpc, ctask>>
      BY <2>4 DEF CleanupDies
    <3>2. \A j \in Cleaners : /\ kexp'[j] \subseteq Recorded
                              /\ ktask'[j] # NoTask => ktask'[j] \in Recorded
      BY <2>4 DEF CleanupDies, TypeOK
    <3> QED
      BY <3>1, <3>2
  <2> QED
    BY <1>6, <2>1, <2>2, <2>3, <2>4 DEF Dies
<1>7. CASE UNCHANGED vars
  BY <1>7 DEF vars
<1> QED
  BY <1>1, <1>2, <1>3, <1>4, <1>5, <1>6, <1>7 DEF Next

(* No id reaches the ready list, or a worker, before its hash: a worker     *)
(* never drops an id because its data does not exist.                       *)
THEOREM RecordsComeFirst == Spec => []RecordBeforeReady
<1>1. RecordInv => RecordBeforeReady
  BY DEF RecordInv
<1> QED
  BY RecordInit, RecordStep, <1>1, PTL DEF Spec

-----------------------------------------------------------------------------
(* Slots.  NoLeakedSlot is inductive beside TypeOK: a worker leaves the     *)
(* window of a slot only by the SREM that frees it, or by dying.            *)

LEMMA SlotStep == TypeOK /\ NoLeakedSlot /\ [Next]_vars => NoLeakedSlot'
<1> SUFFICES ASSUME TypeOK, NoLeakedSlot, [Next]_vars PROVE NoLeakedSlot'
  OBVIOUS
<1> USE NoTaskAssumption, OwnerAssumption
    DEF TypeOK, NoLeakedSlot, UserSlotOwner, GlobalSlotOwner, store, visibility,
        workerVars, cancelVars, cleanVars, history, SremUser, DelVisibility
(* Steps that leave the workers alone can only free slots.                  *)
<1>0. ASSUME UNCHANGED workerVars, abandoned \subseteq abandoned',
             processing' \subseteq processing,
             \A u \in Users : userProcessing'[u] \subseteq userProcessing[u]
      PROVE  NoLeakedSlot'
  BY <1>0
<1>1. ASSUME NEW t \in Tasks, Enqueue(t) \/ TimeoutPasses(t) \/ KeyExpires(t)
      PROVE  NoLeakedSlot'
  BY <1>0, <1>1
  DEF Enqueue, EnqCheckUser, EnqCheckGlobal, EnqStore, EnqPush, TimeoutPasses,
      KeyExpires
<1>2. ASSUME NEW w \in Workers, Dequeue(w) PROVE NoLeakedSlot'
  <2>1. CASE DeqPop(w)
    BY <2>1 DEF DeqPop
  <2>2. CASE DeqCheck(w)
    BY <2>2 DEF DeqCheck
  <2>3. CASE DeqBounce(w)
    BY <2>3 DEF DeqBounce
  <2>4. CASE DeqMarkUser(w)
    BY <2>4 DEF DeqMarkUser
  <2>5. CASE DeqMarkProcessing(w)
    BY <2>5 DEF DeqMarkProcessing
  <2>6. CASE DeqStamp(w) \/ DeqExpire(w) \/ DeqSetStatus(w)
    BY <2>6 DEF DeqStamp, DeqExpire, DeqSetStatus
  <2> QED
    BY <1>2, <2>1, <2>2, <2>3, <2>4, <2>5, <2>6 DEF Dequeue
<1>3. ASSUME NEW w \in Workers, Ack(w) PROVE NoLeakedSlot'
  <2>1. CASE AckUnmarkUser(w)
    BY <2>1 DEF AckUnmarkUser
  <2>2. CASE AckUnmarkProcessing(w)
    BY <2>2 DEF AckUnmarkProcessing
  <2>3. CASE AckClear(w)
    BY <2>3 DEF AckClear
  <2>4. ASSUME NEW outcome \in Outcomes, AckSetStatus(w, outcome)
        PROVE  NoLeakedSlot'
    <3>1. outcome \in {"completed", "failed"}
      BY OutcomesAssumption
    <3> QED
      BY <2>4, <3>1 DEF AckSetStatus
  <2>5. CASE AckRecord(w)
    BY <2>5 DEF AckRecord
  <2> QED
    BY <1>3, <2>1, <2>2, <2>3, <2>4, <2>5 DEF Ack
<1>4. ASSUME NEW c \in Cancellers, Cancel(c) PROVE NoLeakedSlot'
  BY <1>0, <1>4
  DEF Cancel, CancelProceeds, CancelLoad, CancelUnmarkUser, CancelUnmarkProcessing,
      CancelClear, CancelRemove, CancelWrite
<1>5. ASSUME NEW k \in Cleaners, Cleanup(k) PROVE NoLeakedSlot'
  BY <1>0, <1>5
  DEF Cleanup, CleanScan, CleanUnmarkUser, CleanUnmarkProcessing, CleanClear,
      CleanPush, CleanWrite
<1>6. CASE Dies
  <2>1. CASE \E w \in Workers : WorkerDies(w)
    BY <2>1 DEF WorkerDies, Abandon
  <2>2. CASE ~ \E w \in Workers : WorkerDies(w)
    BY <1>0, <1>6, <2>2 DEF Dies, EnqueueDies, CancelDies, CleanupDies, Abandon
  <2> QED
    BY <2>1, <2>2
<1>7. CASE UNCHANGED vars
  BY <1>0, <1>7 DEF vars
<1> QED
  BY <1>1, <1>2, <1>3, <1>4, <1>5, <1>6, <1>7 DEF Next

(* A slot that no dead coroutine left behind has a worker that will return  *)
(* it, whatever cancellations and cleanups do to the same task.             *)
THEOREM SlotsHaveOwners == Spec => []NoLeakedSlot
<1>1. Init => NoLeakedSlot
  BY OwnerAssumption DEF Init, NoLeakedSlot
<1> QED
  BY <1>1, SlotStep, TypeCorrect, PTL DEF Spec

-----------------------------------------------------------------------------
(* The limit.  A worker that passed the check still has its SADD to do, so  *)
(* the bound has to count it: that is what makes it inductive.              *)

OvershootInv ==
  \A u \in Users :
    /\ IsFiniteSet(userProcessing[u])
    /\ Cardinality(userProcessing[u]) + Cardinality(AboutToMark(u))
         < UserLimit + Cardinality(Workers)

LEMMA AboutToMarkFinite ==
  \A u : /\ IsFiniteSet(AboutToMark(u))
         /\ Cardinality(AboutToMark(u)) \in Nat
         /\ Cardinality(AboutToMark(u)) <= Cardinality(Workers)
         /\ Cardinality(Workers) \in Nat
<1> TAKE u
<1>1. AboutToMark(u) \in SUBSET Workers
  BY DEF AboutToMark
<1> QED
  BY <1>1, WorkersAssumption, FS_Subset, FS_CardinalityType

LEMMA OvershootInit == Init => OvershootInv
<1> SUFFICES ASSUME Init, NEW u \in Users
             PROVE  /\ IsFiniteSet(userProcessing[u])
                    /\ Cardinality(userProcessing[u]) + Cardinality(AboutToMark(u))
                         < UserLimit + Cardinality(Workers)
  BY DEF OvershootInv
<1>1. userProcessing[u] = {}
  BY DEF Init
<1>2. AboutToMark(u) = {}
  BY DEF Init, AboutToMark
<1> QED
  BY <1>1, <1>2, FS_EmptySet, AboutToMarkFinite, LimitAssumption

(* A user whose set and whose waiting workers do not grow keeps the bound.  *)
LEMMA OvershootShrinks ==
  ASSUME OvershootInv, NEW u \in Users,
         userProcessing'[u] \subseteq userProcessing[u],
         AboutToMark(u)' \subseteq AboutToMark(u)
  PROVE  /\ IsFiniteSet(userProcessing'[u])
         /\ Cardinality(userProcessing'[u]) + Cardinality(AboutToMark(u)')
              < UserLimit + Cardinality(Workers)
<1> DEFINE P == userProcessing[u]  Q == userProcessing'[u]
           A == AboutToMark(u)     B == AboutToMark(u)'
<1>1. /\ IsFiniteSet(P) /\ IsFiniteSet(A)
      /\ Cardinality(P) + Cardinality(A) < UserLimit + Cardinality(Workers)
  BY AboutToMarkFinite DEF OvershootInv
<1>2. Q \in SUBSET P /\ B \in SUBSET A
  OBVIOUS
<1> HIDE DEF P, Q, A, B
<1>3. /\ IsFiniteSet(Q) /\ IsFiniteSet(B)
      /\ Cardinality(Q) <= Cardinality(P) /\ Cardinality(B) <= Cardinality(A)
  BY <1>1, <1>2, FS_Subset
<1>4. /\ Cardinality(P) \in Nat /\ Cardinality(Q) \in Nat /\ Cardinality(A) \in Nat
      /\ Cardinality(B) \in Nat /\ Cardinality(Workers) \in Nat
  BY <1>1, <1>3, WorkersAssumption, FS_CardinalityType
<1>5. IsFiniteSet(Q) /\ Cardinality(Q) + Cardinality(B) < UserLimit + Cardinality(Workers)
  BY <1>1, <1>3, <1>4, LimitAssumption
<1> QED
  BY <1>5 DEF Q, B

LEMMA OvershootStep == TypeOK /\ OvershootInv /\ [Next]_vars => OvershootInv'
<1> SUFFICES ASSUME TypeOK, OvershootInv, [Next]_vars, NEW u \in Users
             PROVE  /\ IsFiniteSet(userProcessing'[u])
                    /\ Cardinality(userProcessing'[u]) + Cardinality(AboutToMark(u)')
                         < UserLimit + Cardinality(Workers)
  BY DEF OvershootInv
<1> DEFINE Goal == /\ IsFiniteSet(userProcessing'[u])
                   /\ Cardinality(userProcessing'[u]) + Cardinality(AboutToMark(u)')
                        < UserLimit + Cardinality(Workers)
           Shrinks == /\ userProcessing'[u] \subseteq userProcessing[u]
                      /\ AboutToMark(u)' \subseteq AboutToMark(u)
<1>0. Shrinks => Goal
  BY OvershootShrinks
<1> HIDE DEF Goal
<1> USE OwnerAssumption, NoTaskAssumption
    DEF TypeOK, AboutToMark, store, visibility, workerVars, cancelVars, cleanVars,
        history, SremUser
<1>1. ASSUME NEW t \in Tasks, Enqueue(t) \/ TimeoutPasses(t) \/ KeyExpires(t)
      PROVE  Goal
  <2>1. Shrinks
    BY <1>1 DEF Enqueue, EnqCheckUser, EnqCheckGlobal, EnqStore, EnqPush,
                TimeoutPasses, KeyExpires
  <2> QED
    BY <1>0, <2>1
<1>2. ASSUME NEW w \in Workers, DeqCheck(w) PROVE Goal
  <2>1. CASE wpc'[w] = "mark_user" /\ Owner[wtask[w]] = u
    <3>1. userProcessing'[u] = userProcessing[u]
      BY <1>2 DEF DeqCheck
    <3>2. Cardinality(userProcessing[u]) < UserLimit
      BY <1>2, <2>1 DEF DeqCheck, UserHasRoom
    <3>3. /\ Cardinality(AboutToMark(u)') <= Cardinality(Workers)
          /\ Cardinality(AboutToMark(u)') \in Nat /\ Cardinality(Workers) \in Nat
      <4>1. AboutToMark(u)' \in SUBSET Workers
        OBVIOUS
      <4> HIDE DEF AboutToMark
      <4> QED
        BY <4>1, WorkersAssumption, FS_Subset, FS_CardinalityType
    <3>4. IsFiniteSet(userProcessing[u]) /\ Cardinality(userProcessing[u]) \in Nat
      BY FS_CardinalityType DEF OvershootInv
    <3> HIDE DEF AboutToMark
    <3> QED
      BY <3>1, <3>2, <3>3, <3>4, LimitAssumption DEF Goal
  <2>2. CASE ~(wpc'[w] = "mark_user" /\ Owner[wtask[w]] = u)
    <3>1. Shrinks
      BY <1>2, <2>2 DEF DeqCheck
    <3> QED
      BY <1>0, <3>1
  <2> QED
    BY <2>1, <2>2
<1>3. ASSUME NEW w \in Workers, DeqMarkUser(w) PROVE Goal
  <2>1. CASE Owner[wtask[w]] = u
    <3> DEFINE P == userProcessing[u]  A == AboutToMark(u)
    <3>1. /\ userProcessing'[u] = P \cup {wtask[w]}
          /\ AboutToMark(u)' = A \ {w} /\ w \in A
      BY <1>3, <2>1 DEF DeqMarkUser
    <3>2. /\ IsFiniteSet(P) /\ IsFiniteSet(A)
          /\ Cardinality(P) + Cardinality(A) < UserLimit + Cardinality(Workers)
      BY AboutToMarkFinite DEF OvershootInv
    <3> HIDE DEF P, A
    <3>5. /\ IsFiniteSet(P \cup {wtask[w]})
          /\ Cardinality(P \cup {wtask[w]}) =
               IF wtask[w] \in P THEN Cardinality(P) ELSE Cardinality(P) + 1
          /\ Cardinality(A \ {w}) = Cardinality(A) - 1
      BY <3>1, <3>2, FS_AddElement, FS_RemoveElement
    <3>6. /\ Cardinality(P) \in Nat /\ Cardinality(A) \in Nat
          /\ Cardinality(Workers) \in Nat
          /\ Cardinality(P \cup {wtask[w]}) \in Nat
      BY <3>2, <3>5, WorkersAssumption, FS_CardinalityType
    <3>3. /\ IsFiniteSet(P \cup {wtask[w]})
          /\ Cardinality(P \cup {wtask[w]}) <= Cardinality(P) + 1
          /\ Cardinality(A \ {w}) = Cardinality(A) - 1
          /\ Cardinality(P \cup {wtask[w]}) \in Nat /\ Cardinality(P) \in Nat
          /\ Cardinality(A) \in Nat /\ Cardinality(Workers) \in Nat
      BY <3>5, <3>6
    <3>4. Cardinality(P \cup {wtask[w]}) + Cardinality(A \ {w})
            < UserLimit + Cardinality(Workers)
      BY <3>2, <3>3, LimitAssumption
    <3> HIDE DEF AboutToMark
    <3> QED
      BY <3>1, <3>3, <3>4 DEF Goal
  <2>2. CASE Owner[wtask[w]] # u
    <3>1. Shrinks
      BY <1>3, <2>2 DEF DeqMarkUser
    <3> QED
      BY <1>0, <3>1
  <2> QED
    BY <2>1, <2>2
<1>4. ASSUME NEW w \in Workers, Dequeue(w) \/ Ack(w), ~DeqCheck(w), ~DeqMarkUser(w)
      PROVE  Goal
  <2>1. wpc'[w] # "mark_user" /\ \A v \in Workers \ {w} : wpc'[v] = wpc[v] /\ wtask'[v] = wtask[v]
    BY <1>4, OutcomesAssumption
       DEF Dequeue, Ack, DeqPop, DeqBounce, DeqMarkProcessing, DeqStamp, DeqExpire,
               DeqSetStatus, AckUnmarkUser, AckUnmarkProcessing,
                AckClear, AckSetStatus, AckRecord
  <2>2. userProcessing'[u] \subseteq userProcessing[u]
    BY <1>4 DEF Dequeue, Ack, DeqPop, DeqBounce, DeqMarkProcessing, DeqStamp,
                DeqExpire, DeqSetStatus, AckUnmarkUser, AckUnmarkProcessing,
                AckClear, AckSetStatus, AckRecord
  <2>3. Shrinks
    BY <2>1, <2>2
  <2> QED
    BY <1>0, <2>3
<1>5. ASSUME NEW c \in Cancellers, Cancel(c) PROVE Goal
  <2>1. Shrinks
    BY <1>5 DEF Cancel, CancelProceeds, CancelLoad, CancelUnmarkUser,
                CancelUnmarkProcessing, CancelClear, CancelRemove, CancelWrite
  <2> QED
    BY <1>0, <2>1
<1>6. ASSUME NEW k \in Cleaners, Cleanup(k) PROVE Goal
  <2>1. Shrinks
    BY <1>6 DEF Cleanup, CleanScan, CleanUnmarkUser, CleanUnmarkProcessing,
                CleanClear, CleanPush, CleanWrite
  <2> QED
    BY <1>0, <2>1
<1>7. ASSUME Dies PROVE Goal
  <2>1. Shrinks
    BY <1>7 DEF Dies, EnqueueDies, WorkerDies, CancelDies, CleanupDies
  <2> QED
    BY <1>0, <2>1
<1>8. ASSUME UNCHANGED vars PROVE Goal
  <2>1. Shrinks
    BY <1>8 DEF vars
  <2> QED
    BY <1>0, <2>1
<1>9. Goal
  BY <1>1, <1>2, <1>3, <1>4, <1>5, <1>6, <1>7, <1>8 DEF Next
<1> QED
  BY <1>9 DEF Goal

(* However the workers interleave, a user never holds more than UserLimit - 1 *)
(* slots plus one for every worker.                                         *)
THEOREM OvershootIsBounded == Spec => []BoundedOvershoot
<1>1. OvershootInv => BoundedOvershoot
  <2> SUFFICES ASSUME OvershootInv, NEW u \in Users
               PROVE  Cardinality(userProcessing[u]) < UserLimit + Cardinality(Workers)
    BY DEF BoundedOvershoot
  <2>1. /\ IsFiniteSet(userProcessing[u])
        /\ Cardinality(userProcessing[u]) + Cardinality(AboutToMark(u))
             < UserLimit + Cardinality(Workers)
    BY DEF OvershootInv
  <2>2. Cardinality(userProcessing[u]) \in Nat
    BY <2>1, FS_CardinalityType
  <2> QED
    BY <2>1, <2>2, AboutToMarkFinite, LimitAssumption
<1> QED
  BY OvershootInit, OvershootStep, <1>1, TypeCorrect, PTL DEF Spec

(* With one worker the comment of dequeue_task is right: its second check   *)
(* then does prevent a user from holding more than the limit.  It takes two *)
(* workers to go wrong.                                                     *)
THEOREM OneWorkerKeepsTheLimit ==
  ASSUME Cardinality(Workers) = 1
  PROVE  Spec => []UserLimitHolds
<1>1. OvershootInv => UserLimitHolds
  <2> SUFFICES ASSUME OvershootInv, NEW u \in Users
               PROVE  Cardinality(userProcessing[u]) <= UserLimit
    BY DEF UserLimitHolds
  <2>1. /\ IsFiniteSet(userProcessing[u])
        /\ Cardinality(userProcessing[u]) + Cardinality(AboutToMark(u)) < UserLimit + 1
    BY DEF OvershootInv
  <2>2. Cardinality(userProcessing[u]) \in Nat
    BY <2>1, FS_CardinalityType
  <2> QED
    BY <2>1, <2>2, AboutToMarkFinite, LimitAssumption
<1> QED
  BY OvershootInit, OvershootStep, <1>1, TypeCorrect, PTL DEF Spec

-----------------------------------------------------------------------------
(* What the limits amount to.  Every slot no dead coroutine left behind is  *)
(* the slot of a worker, and a worker has one task: slots can be counted by *)
(* the workers that own them.                                               *)

LEMMA SlotsCountedByWorkers ==
  ASSUME NEW W \in SUBSET Workers, NEW S,
         \A t \in S : \E w \in W : wtask[w] = t
  PROVE  IsFiniteSet(S) /\ Cardinality(S) \in Nat /\ Cardinality(S) <= Cardinality(W)
<1> DEFINE holder == [t \in S |-> CHOOSE w \in W : wtask[w] = t]
<1>1. ASSUME NEW t \in S PROVE holder[t] \in W /\ wtask[holder[t]] = t
  <2> DEFINE Holds(w) == w \in W /\ wtask[w] = t
  <2>1. holder[t] = CHOOSE w : Holds(w)
    BY Zenon
  <2>2. \E w : Holds(w)
    BY Zenon
  <2> HIDE DEF Holds
  <2>3. Holds(CHOOSE w : Holds(w))
    BY <2>2, Zenon
  <2>4. Holds(holder[t])
    BY <2>1, <2>3, Zenon
  <2> QED BY <2>4, Zenon DEF Holds
<1>2. holder \in [S -> W]
  BY <1>1
<1>3. holder \in Injection(S, W)
  <2> HIDE DEF holder
  <2> QED BY <1>1, <1>2 DEF Injection, IsInjective
<1>4. IsFiniteSet(W)
  BY WorkersAssumption, FS_Subset
<1> QED
  BY <1>3, <1>4, FS_Injection, FS_CardinalityType

(* dequeue_task does not look at the global limit again, and its check of   *)
(* the user's limit can be overtaken; still no user, and not the system     *)
(* either, ever holds more slots than there are workers, unless a coroutine *)
(* died and left some behind.                                               *)
SlotsAreFew ==
  /\ \A u \in Users : Cardinality(userProcessing[u] \ abandoned) <= Cardinality(Workers)
  /\ Cardinality(processing \ abandoned) <= Cardinality(Workers)

\* The sets hold tasks of their own user only.
OwnSlots == \A u \in Users : \A t \in userProcessing[u] : Owner[t] = u

LEMMA OwnSlotsStep == TypeOK /\ OwnSlots /\ [Next]_vars => OwnSlots'
<1> SUFFICES ASSUME TypeOK, OwnSlots, [Next]_vars PROVE OwnSlots'
  OBVIOUS
<1> USE OwnerAssumption, NoTaskAssumption DEF TypeOK, OwnSlots
<1>1. CASE \A u \in Users : userProcessing'[u] \subseteq userProcessing[u]
  BY <1>1
<1>2. ASSUME NEW w \in Workers, DeqMarkUser(w) PROVE OwnSlots'
  BY <1>2 DEF DeqMarkUser
<1>3. ASSUME NEW t \in Tasks, SremUser(t) PROVE \A u \in Users : userProcessing'[u] \subseteq userProcessing[u]
  BY <1>3 DEF SremUser
<1>4. ASSUME NEW w \in Workers, AckUnmarkUser(w)
      PROVE  \A u \in Users : userProcessing'[u] \subseteq userProcessing[u]
  BY <1>3, <1>4 DEF AckUnmarkUser
<1>5. ASSUME NEW c \in Cancellers, CancelUnmarkUser(c)
      PROVE  \A u \in Users : userProcessing'[u] \subseteq userProcessing[u]
  BY <1>3, <1>5 DEF CancelUnmarkUser
<1>6. ASSUME NEW k \in Cleaners, NEW t \in Tasks, CleanUnmarkUser(k, t)
      PROVE  \A u \in Users : userProcessing'[u] \subseteq userProcessing[u]
  BY <1>3, <1>6 DEF CleanUnmarkUser
<1>7. CASE UNCHANGED userProcessing
  BY <1>1, <1>7
<1> QED
  <2> USE DEF store, vars
  <2>1. ASSUME NEW w \in Workers, Dequeue(w) \/ Ack(w) PROVE OwnSlots'
    BY <1>1, <1>2, <1>4, <1>7, <2>1
       DEF Dequeue, Ack, DeqPop, DeqCheck, DeqBounce, DeqMarkProcessing, DeqStamp,
           DeqExpire, DeqSetStatus, AckUnmarkProcessing, AckClear, AckSetStatus, AckRecord
  <2>2. ASSUME NEW c \in Cancellers, Cancel(c) PROVE OwnSlots'
    BY <1>1, <1>5, <1>7, <2>2
       DEF Cancel, CancelProceeds, CancelLoad, CancelUnmarkProcessing, CancelClear,
           CancelRemove, CancelWrite
  <2>3. ASSUME NEW k \in Cleaners, Cleanup(k) PROVE OwnSlots'
    BY <1>1, <1>6, <1>7, <2>3
       DEF Cleanup, CleanScan, CleanUnmarkProcessing, CleanClear, CleanPush, CleanWrite
  <2>4. ASSUME NEW t \in Tasks, Enqueue(t) \/ TimeoutPasses(t) \/ KeyExpires(t)
        PROVE  OwnSlots'
    BY <1>7, <2>4
       DEF Enqueue, EnqCheckUser, EnqCheckGlobal, EnqStore, EnqPush, TimeoutPasses, KeyExpires
  <2>5. CASE Dies
    BY <1>7, <2>5 DEF Dies, EnqueueDies, WorkerDies, CancelDies, CleanupDies
  <2>6. CASE UNCHANGED vars
    BY <1>7, <2>6
  <2> QED
    BY <2>1, <2>2, <2>3, <2>4, <2>5, <2>6 DEF Next

LEMMA OwnSlotsInit == Init => OwnSlots
BY DEF Init, OwnSlots

\* The workers that own a slot of a user.
Busy(u) == {w \in Workers : UserSlotOwner(w) /\ Owner[wtask[w]] = u}

LEMMA SlotsAreOwned ==
  ASSUME NoLeakedSlot, OwnSlots, TypeOK, NEW u \in Users
  PROVE  /\ Cardinality(userProcessing[u] \ abandoned) \in Nat
         /\ Cardinality(userProcessing[u] \ abandoned) <= Cardinality(Busy(u))
<1>1. \A t \in userProcessing[u] \ abandoned : \E w \in Busy(u) : wtask[w] = t
  BY DEF NoLeakedSlot, OwnSlots, Busy, TypeOK
<1>2. Busy(u) \in SUBSET Workers
  BY DEF Busy
<1> QED
  BY <1>1, <1>2, SlotsCountedByWorkers

(* In every interleaving of dequeue_task, ack_task, cancel_task and the      *)
(* cleanup the slots in use are few, the system's with them.                *)
THEOREM SlotsNeedWorkers == Spec => []SlotsAreFew
<1>1. NoLeakedSlot /\ OwnSlots /\ TypeOK => SlotsAreFew
  <2> SUFFICES ASSUME NoLeakedSlot, OwnSlots, TypeOK PROVE SlotsAreFew
    OBVIOUS
  <2>1. ASSUME NEW u \in Users
        PROVE  Cardinality(userProcessing[u] \ abandoned) <= Cardinality(Workers)
    <3>1. \A t \in userProcessing[u] \ abandoned : \E w \in Workers : wtask[w] = t
      BY DEF NoLeakedSlot, OwnSlots, TypeOK
    <3> QED BY <3>1, SlotsCountedByWorkers
  <2>2. \A t \in processing \ abandoned : \E w \in Workers : wtask[w] = t
    BY DEF NoLeakedSlot, TypeOK
  <2> QED
    BY <2>1, <2>2, SlotsCountedByWorkers DEF SlotsAreFew
<1> QED
  BY <1>1, OwnSlotsInit, OwnSlotsStep, SlotsHaveOwners, TypeCorrect, PTL DEF Spec

(* A worker puts a task back only because as many others as the limit says  *)
(* are busy with tasks of the same user, or a dead coroutine left a slot:   *)
(* neither a cancellation nor a cleanup makes dequeue_task refuse a task.   *)
RefusedForAReason ==
  [][\A w \in Workers :
       wpc[w] = "popped" /\ wpc'[w] = "bounce" =>
         LET u == Owner[wtask[w]] IN
         \/ userProcessing[u] \cap abandoned # {}
         \/ Cardinality(Busy(u)) >= UserLimit /\ w \notin Busy(u)]_vars

(* dequeue_task, from whatever state it finds, refuses for this reason only. *)
THEOREM RefusalsHaveAReason == Spec => RefusedForAReason
<1> DEFINE Reason ==
      \A w \in Workers :
        wpc[w] = "popped" /\ wpc'[w] = "bounce" =>
          \/ userProcessing[Owner[wtask[w]]] \cap abandoned # {}
          \/ Cardinality(Busy(Owner[wtask[w]])) >= UserLimit /\ w \notin Busy(Owner[wtask[w]])
<1>1. NoLeakedSlot /\ OwnSlots /\ TypeOK /\ [Next]_vars => [Reason]_vars
  <2> SUFFICES ASSUME NoLeakedSlot, OwnSlots, TypeOK, Next, NEW w \in Workers,
                      wpc[w] = "popped", wpc'[w] = "bounce",
                      userProcessing[Owner[wtask[w]]] \cap abandoned = {}
               PROVE  /\ Cardinality(Busy(Owner[wtask[w]])) >= UserLimit
                      /\ w \notin Busy(Owner[wtask[w]])
    OBVIOUS
  <2> DEFINE u == Owner[wtask[w]]
  <2>1. wtask[w] \in Tasks /\ u \in Users
    BY OwnerAssumption DEF TypeOK
  <2>2. DeqCheck(w)
    <3>1. wpc'[w] # wpc[w]
      OBVIOUS
    <3>2. ASSUME NEW t \in Tasks, Enqueue(t) \/ TimeoutPasses(t) \/ KeyExpires(t) PROVE FALSE
      BY <3>1, <3>2 DEF Enqueue, EnqCheckUser, EnqCheckGlobal, EnqStore, EnqPush,
         TimeoutPasses, KeyExpires, workerVars
    <3>3. ASSUME NEW c \in Cancellers, Cancel(c) PROVE FALSE
      BY <3>1, <3>3 DEF Cancel, CancelProceeds, CancelLoad, CancelUnmarkUser,
         CancelUnmarkProcessing, CancelClear, CancelRemove, CancelWrite, workerVars
    <3>4. ASSUME NEW k \in Cleaners, Cleanup(k) PROVE FALSE
      BY <3>1, <3>4 DEF Cleanup, CleanScan, CleanUnmarkUser, CleanUnmarkProcessing,
         CleanClear, CleanPush, CleanWrite, workerVars
    <3>5. ASSUME Dies PROVE FALSE
      BY <3>1, <3>5 DEF Dies, EnqueueDies, WorkerDies, CancelDies, CleanupDies, workerVars, TypeOK
    <3>6. PICK v \in Workers : Dequeue(v) \/ Ack(v)
      BY <3>2, <3>3, <3>4, <3>5 DEF Next
    <3>7. wpc \in [Workers -> WorkerPCs]
      BY DEF TypeOK
    <3>8. CASE Ack(v)
      <4>1. wpc[v] # "popped"
        BY <3>8 DEF Ack, AckUnmarkUser, AckUnmarkProcessing, AckClear, AckSetStatus, AckRecord
      <4>2. \A x \in Workers \ {v} : wpc'[x] = wpc[x]
        BY <3>7, <3>8 DEF Ack, AckUnmarkUser, AckUnmarkProcessing, AckClear, AckSetStatus, AckRecord
      <4> QED BY <3>7, <4>1, <4>2
    <3>9. CASE Dequeue(v) /\ ~DeqCheck(v)
      <4>1. wpc[v] # "popped"
        BY <3>9 DEF Dequeue, DeqPop, DeqBounce, DeqMarkUser, DeqMarkProcessing,
           DeqStamp, DeqExpire, DeqSetStatus
      <4>2. \A x \in Workers \ {v} : wpc'[x] = wpc[x]
        BY <3>7, <3>9 DEF Dequeue, DeqPop, DeqBounce, DeqMarkUser, DeqMarkProcessing,
           DeqStamp, DeqExpire, DeqSetStatus
      <4> QED BY <3>7, <4>1, <4>2
    <3>10. CASE DeqCheck(v)
      BY <3>7, <3>10 DEF DeqCheck
    <3> QED BY <3>6, <3>8, <3>9, <3>10
  <2>3. ~UserHasRoom(u)
    BY <2>2 DEF DeqCheck, TypeOK
  <2>4. userProcessing[u] \ abandoned = userProcessing[u]
    OBVIOUS
  <2>5. /\ Cardinality(userProcessing[u]) \in Nat
        /\ Cardinality(userProcessing[u]) <= Cardinality(Busy(u))
    BY <2>1, <2>4, SlotsAreOwned
  <2>6. Busy(u) \subseteq Workers /\ w \notin Busy(u)
    BY DEF Busy, UserSlotOwner
  <2>7. Cardinality(Busy(u)) \in Nat
    BY <2>6, WorkersAssumption, FS_Subset, FS_CardinalityType
  <2> QED
    BY <2>3, <2>5, <2>6, <2>7, LimitAssumption DEF UserHasRoom
<1> QED
  BY <1>1, OwnSlotsInit, OwnSlotsStep, SlotsHaveOwners, TypeCorrect, PTL
     DEF Spec, RefusedForAReason
=============================================================================
