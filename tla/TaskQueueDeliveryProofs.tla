----------------------- MODULE TaskQueueDeliveryProofs -----------------------
(* Where a task of TaskQueue can be: it is delivered once, what runs is     *)
(* counted, what is queued can be reached, what is finished stays finished, *)
(* and the whole implements AbstractQueue.                                  *)
EXTENDS TaskQueueRefinement, TaskQueueProofs

(* The cleaners handle tasks that were found overdue, the cancellers tasks  *)
(* whose cancellation was requested.                                        *)
HandsInv ==
  /\ \A k \in Cleaners : kexp[k] \subseteq expiries /\ ktask[k] \in expiries \cup {NoTask}
  /\ \A c \in Cancellers : ctask[c] \in cancels \cup {NoTask}

LEMMA HandsStep == TypeOK /\ HandsInv /\ [Next]_vars => HandsInv'
<1> SUFFICES ASSUME TypeOK, HandsInv, [Next]_vars PROVE HandsInv'
  OBVIOUS
<1> USE DEF TypeOK, HandsInv, store, workerVars, cancelVars, cleanVars, history
<1>1. ASSUME NEW t \in Tasks, Enqueue(t) \/ TimeoutPasses(t) \/ KeyExpires(t)
      PROVE  HandsInv'
  BY <1>1 DEF Enqueue, EnqCheckUser, EnqCheckGlobal, EnqStore, EnqPush,
              TimeoutPasses, KeyExpires
<1>2. ASSUME NEW w \in Workers, Dequeue(w) PROVE HandsInv'
  BY <1>2 DEF Dequeue, DeqPop, DeqCheck, DeqBounce, DeqMarkUser, DeqMarkProcessing,
              DeqStamp, DeqExpire, DeqSetStatus
<1>3. ASSUME NEW w \in Workers, Ack(w) PROVE HandsInv'
  BY <1>3 DEF Ack, AckUnmarkUser, AckUnmarkProcessing, AckClear, AckSetStatus, AckRecord
<1>4. ASSUME NEW c \in Cancellers, Cancel(c) PROVE HandsInv'
  BY <1>4 DEF Cancel, CancelProceeds, CancelLoad, CancelUnmarkUser,
              CancelUnmarkProcessing, CancelClear, CancelRemove, CancelWrite
<1>5. ASSUME NEW k \in Cleaners, Cleanup(k) PROVE HandsInv'
  BY <1>5 DEF Cleanup, CleanScan, CleanUnmarkUser, CleanUnmarkProcessing,
              CleanClear, CleanPush, CleanWrite
<1>6. ASSUME Dies PROVE HandsInv'
  BY <1>6 DEF Dies, EnqueueDies, WorkerDies, CancelDies, CleanupDies, Abandon
<1>7. ASSUME UNCHANGED vars PROVE HandsInv'
  BY <1>7 DEF vars
<1> QED
  BY <1>1, <1>2, <1>3, <1>4, <1>5, <1>6, <1>7 DEF Next

LEMMA HandsCorrect == Spec => [](TypeOK /\ HandsInv)
<1>1. Init => HandsInv
  BY DEF Init, HandsInv
<1> QED
  BY <1>1, HandsStep, TypeCorrect, PTL DEF Spec

-----------------------------------------------------------------------------
(* What LPUSH, RPOP and LREM do to the presence of an id on a list.         *)
In(q, t) == \E i \in 1..Len(q) : q[i] = t
Unique(q, t) == \A i, j \in 1..Len(q) : q[i] = t /\ q[j] = t => i = j

LEMMA PushPresence ==
  ASSUME NEW S, NEW q \in Seq(S), NEW s \in S, NEW t
  PROVE  /\ In(<<s>> \o q, t) <=> s = t \/ In(q, t)
         /\ Unique(q, t) /\ (s = t => ~In(q, t)) => Unique(<<s>> \o q, t)
<1> DEFINE p == <<s>> \o q
<1>1. /\ Len(q) \in Nat /\ Len(p) = Len(q) + 1 /\ p[1] = s
      /\ \A i \in 1..Len(q) : p[i + 1] = q[i] /\ i + 1 \in 1..Len(p)
      /\ \A j \in 1..Len(p) : j = 1 \/ (p[j] = q[j - 1] /\ j - 1 \in 1..Len(q))
  <2>1. \A j \in 1..Len(q) + 1 : j = 1 \/ j \in 2..Len(q) + 1
    OBVIOUS
  <2> QED
    BY <2>1, PushResult
<1> HIDE DEF p
<1>2. In(p, t) <=> s = t \/ In(q, t)
  <2>1. s = t => In(p, t)
    BY <1>1 DEF In
  <2>2. In(q, t) => In(p, t)
    BY <1>1 DEF In
  <2>3. In(p, t) => s = t \/ In(q, t)
    BY <1>1 DEF In
  <2> QED
    BY <2>1, <2>2, <2>3
<1>3. Unique(q, t) /\ (s = t => ~In(q, t)) => Unique(p, t)
  <2> SUFFICES ASSUME Unique(q, t), s = t => ~In(q, t),
                      NEW i \in 1..Len(p), NEW j \in 1..Len(p), p[i] = t, p[j] = t
               PROVE  i = j
    BY DEF Unique
  <2>1. i = 1 => s = t /\ ~In(q, t)
    BY <1>1
  <2>2. j = 1 => s = t /\ ~In(q, t)
    BY <1>1
  <2>3. i # 1 => q[i - 1] = t /\ i - 1 \in 1..Len(q) /\ In(q, t)
    BY <1>1 DEF In
  <2>4. j # 1 => q[j - 1] = t /\ j - 1 \in 1..Len(q) /\ In(q, t)
    BY <1>1 DEF In
  <2>5. i # 1 /\ j # 1 => i - 1 = j - 1
    BY <2>3, <2>4 DEF Unique
  <2>6. i \in Int /\ j \in Int
    BY <1>1
  <2> QED
    BY <2>1, <2>2, <2>3, <2>4, <2>5, <2>6
<1> QED
  BY <1>2, <1>3 DEF p

LEMMA PopPresence ==
  ASSUME NEW S, NEW q \in Seq(S), q # <<>>, NEW t
  PROVE  LET p == SubSeq(q, 1, Len(q) - 1) IN
         /\ In(q, q[Len(q)])
         /\ In(q, t) <=> q[Len(q)] = t \/ In(p, t)
         /\ Unique(q, t) => Unique(p, t)
         /\ Unique(q, t) /\ q[Len(q)] = t => ~In(p, t)
<1> DEFINE p == SubSeq(q, 1, Len(q) - 1)
<1>1. /\ Len(q) \in Nat /\ Len(q) \in 1..Len(q) /\ Len(p) = Len(q) - 1
      /\ \A i \in 1..Len(p) : p[i] = q[i] /\ i \in 1..Len(q) /\ i # Len(q)
      /\ \A i \in 1..Len(q) : i = Len(q) \/ i \in 1..Len(p)
  <2>1. Len(q) \in Nat \ {0} /\ Len(p) = Len(q) - 1
    BY PopResult, LenProperties
  <2>2. \A i \in 1..Len(q) - 1 : i \in 1..Len(q) /\ i # Len(q)
    BY <2>1
  <2>3. \A i \in 1..Len(q) : i = Len(q) \/ i \in 1..Len(q) - 1
    BY <2>1
  <2> QED
    BY <2>1, <2>2, <2>3, PopResult
<1> HIDE DEF p
<1>2. In(q, q[Len(q)])
  BY <1>1 DEF In
<1>3. In(q, t) <=> q[Len(q)] = t \/ In(p, t)
  BY <1>1 DEF In
<1>4. Unique(q, t) => Unique(p, t)
  BY <1>1 DEF Unique
<1>5. Unique(q, t) /\ q[Len(q)] = t => ~In(p, t)
  BY <1>1 DEF Unique, In
<1> QED
  BY <1>2, <1>3, <1>4, <1>5 DEF p

(* Positions LREM keeps have different ranks.                               *)
LEMMA RankInjective ==
  ASSUME NEW S, NEW q \in Seq(S), NEW s,
         NEW i \in Kept(q, s), NEW j \in Kept(q, s),
         Cardinality(KeptUpTo(q, s, i)) = Cardinality(KeptUpTo(q, s, j))
  PROVE  i = j
<1>1. ASSUME NEW a \in Kept(q, s), NEW b \in Kept(q, s), a < b,
             Cardinality(KeptUpTo(q, s, a)) = Cardinality(KeptUpTo(q, s, b))
      PROVE  FALSE
  <2> DEFINE A == KeptUpTo(q, s, a)  B == KeptUpTo(q, s, b)
  <2>1. a \in Nat /\ b \in Nat
    BY DEF Kept
  <2>2. A \in SUBSET (B \ {b}) /\ b \in B
    BY <1>1, <2>1 DEF KeptUpTo, Kept
  <2>3. IsFiniteSet(B)
    <3>1. IsFiniteSet(1..Len(q)) /\ B \in SUBSET (1..Len(q))
      BY FS_Interval DEF KeptUpTo, Kept
    <3> QED
      BY <3>1, FS_Subset
  <2>4. Cardinality(A) = Cardinality(B)
    BY <1>1
  <2> HIDE DEF A, B
  <2>5. IsFiniteSet(B \ {b}) /\ Cardinality(B \ {b}) = Cardinality(B) - 1
    BY <2>2, <2>3, FS_RemoveElement
  <2>6. Cardinality(A) <= Cardinality(B \ {b}) /\ Cardinality(B) \in Nat
    BY <2>2, <2>3, <2>5, FS_Subset, FS_CardinalityType
  <2> QED
    BY <2>4, <2>5, <2>6
<1>2. i \in Nat /\ j \in Nat
  BY DEF Kept
<1>3. i < j \/ j < i \/ i = j
  BY <1>2
<1> QED
  BY <1>1, <1>3

LEMMA LremPresence ==
  ASSUME NEW S, NEW q \in Seq(S), NEW s, NEW t
  PROVE  /\ In(Without(q, s), t) <=> s # t /\ In(q, t)
         /\ Unique(q, t) => Unique(Without(q, s), t)
<1> DEFINE n == Cardinality(Kept(q, s))  p == Without(q, s)
           Rank(i) == Cardinality(KeptUpTo(q, s, i))
<1>0. IsFiniteSet(Kept(q, s)) /\ n \in Nat
  <2>1. IsFiniteSet(1..Len(q)) /\ Kept(q, s) \in SUBSET (1..Len(q))
    BY FS_Interval DEF Kept
  <2> QED
    BY <2>1, FS_Subset, FS_CardinalityType
<1>1. \A k \in 1..n : Pos(q, s, k) \in Kept(q, s) /\ Rank(Pos(q, s, k)) = k
  BY RankExists
<1>2. \A i \in Kept(q, s) : Rank(i) \in 1..n
  <2> SUFFICES ASSUME NEW i \in Kept(q, s) PROVE Rank(i) \in 1..n
    OBVIOUS
  <2> DEFINE A == KeptUpTo(q, s, i)
  <2>1. A \in SUBSET Kept(q, s) /\ i \in A
    BY DEF KeptUpTo, Kept
  <2> HIDE DEF A
  <2>2. IsFiniteSet(A) /\ Cardinality(A) <= n /\ Cardinality(A) \in Nat
    BY <1>0, <2>1, FS_Subset, FS_CardinalityType
  <2>3. Cardinality(A) # 0
    BY <2>1, <2>2, FS_EmptySet
  <2>4. Cardinality(A) \in 1..n
    BY <2>2, <2>3, <1>0
  <2> QED
    BY <2>4 DEF A
<1>3. \A i \in Kept(q, s) : Pos(q, s, Rank(i)) = i
  BY <1>1, <1>2, RankInjective
<1>4. Len(p) = n /\ \A k \in 1..n : p[k] = q[Pos(q, s, k)]
  <2>1. p = [k \in 1..n |-> q[Pos(q, s, k)]]
    BY DEF Without
  <2> HIDE DEF n, p
  <2> QED
    BY <2>1, <1>0
<1>5. \A i \in Kept(q, s) : i \in 1..Len(q) /\ q[i] # s
  BY DEF Kept
<1>6. \A i \in 1..Len(q) : q[i] # s => i \in Kept(q, s)
  BY DEF Kept
<1> HIDE DEF n, p, Rank
<1>7. In(p, t) => s # t /\ In(q, t)
  BY <1>1, <1>4, <1>5 DEF In
<1>8. s # t /\ In(q, t) => In(p, t)
  <2> SUFFICES ASSUME s # t, NEW i \in 1..Len(q), q[i] = t PROVE In(p, t)
    BY DEF In
  <2>1. i \in Kept(q, s)
    BY <1>6
  <2>2. p[Rank(i)] = t /\ Rank(i) \in 1..Len(p)
    BY <2>1, <1>2, <1>3, <1>4
  <2> QED
    BY <2>2 DEF In
<1>9. Unique(q, t) => Unique(p, t)
  <2> SUFFICES ASSUME Unique(q, t), NEW j \in 1..Len(p), NEW k \in 1..Len(p),
                      p[j] = t, p[k] = t
               PROVE  j = k
    BY DEF Unique
  <2>1. Pos(q, s, j) = Pos(q, s, k)
    BY <1>1, <1>4, <1>5 DEF Unique
  <2> QED
    BY <2>1, <1>1, <1>4
<1> QED
  BY <1>7, <1>8, <1>9 DEF p

-----------------------------------------------------------------------------
(* SingleDelivery is not inductive: a task must also be nowhere before      *)
(* enqueue_task has pushed it.                                              *)
Once(t) ==
  /\ Unique(ready, t)
  /\ \A v, w \in Workers : wtask[v] = t /\ wtask[w] = t => v = w
  /\ \A w \in Workers : wtask[w] = t => ~In(ready, t)
  /\ enq[t] # "done" => ~In(ready, t) /\ \A w \in Workers : wtask[w] # t

PlaceInv == \A t \in Tasks \ expiries : Once(t)

LEMMA ExpiriesGrow == [Next]_vars => expiries \subseteq expiries'
BY DEF Next, vars, store, workerVars, cancelVars, cleanVars, history,
   Enqueue, EnqCheckUser, EnqCheckGlobal, EnqStore, EnqPush, TimeoutPasses,
   KeyExpires, Dequeue, DeqPop, DeqCheck, DeqBounce, DeqMarkUser,
   DeqMarkProcessing, DeqStamp, DeqExpire, DeqSetStatus, Ack, AckUnmarkUser,
   AckUnmarkProcessing, AckClear, AckSetStatus, AckRecord, Cancel,
   CancelProceeds, CancelLoad, CancelUnmarkUser, CancelUnmarkProcessing,
   CancelClear, CancelRemove, CancelWrite, Cleanup, CleanScan,
   CleanUnmarkUser, CleanUnmarkProcessing, CleanClear, CleanPush, CleanWrite,
   Dies, EnqueueDies, WorkerDies, CancelDies, CleanupDies, Abandon

LEMMA PlaceStep == TypeOK /\ HandsInv /\ PlaceInv /\ [Next]_vars => PlaceInv'
<1> SUFFICES ASSUME TypeOK, HandsInv, PlaceInv, [Next]_vars, NEW t \in Tasks,
                    t \notin expiries'
             PROVE  Once(t)'
  BY DEF PlaceInv
<1> DEFINE Still == /\ ready' = ready
                    /\ \A w \in Workers : wtask'[w] \in {wtask[w], NoTask}
                    /\ enq'[t] = "done" <=> enq[t] = "done"
           Goal == Once(t)'
<1>0. t \notin expiries /\ Once(t)
  BY ExpiriesGrow DEF PlaceInv
<1>00. Still => Goal
  BY <1>0, NoTaskAssumption DEF Once
<1> HIDE DEF Goal
<1> USE NoTaskAssumption
    DEF TypeOK, store, workerVars, cancelVars, cleanVars, history
<1>1. ASSUME NEW s \in Tasks, Enqueue(s) \/ TimeoutPasses(s) \/ KeyExpires(s)
      PROVE  Goal
  <2>1. CASE EnqPush(s)
    <3>1. /\ ready' = <<s>> \o ready /\ wtask' = wtask
          /\ enq' = [enq EXCEPT ![s] = "done"] /\ enq[s] # "done"
      BY <2>1 DEF EnqPush, LPush
    <3>2. /\ In(ready', t) <=> s = t \/ In(ready, t)
          /\ Unique(ready, t) /\ (s = t => ~In(ready, t)) => Unique(ready', t)
      BY <3>1, PushPresence
    <3> QED
      BY <1>0, <3>1, <3>2 DEF Goal, Once
  <2>2. CASE ~EnqPush(s)
    <3>1. Still
      BY <1>1, <2>2 DEF Enqueue, EnqCheckUser, EnqCheckGlobal, EnqStore,
                        TimeoutPasses, KeyExpires
    <3> QED
      BY <1>00, <3>1
  <2> QED
    BY <2>1, <2>2
<1>2. ASSUME NEW w \in Workers, Dequeue(w) PROVE Goal
  <2>1. CASE DeqPop(w)
    <3>1. /\ ready # <<>> /\ ready' = SubSeq(ready, 1, Len(ready) - 1)
          /\ wtask' = [wtask EXCEPT ![w] = ready[Len(ready)]] /\ enq' = enq
      BY <2>1 DEF DeqPop
    <3>2. /\ In(ready, t) <=> ready[Len(ready)] = t \/ In(ready', t)
          /\ Unique(ready, t) => Unique(ready', t)
          /\ Unique(ready, t) /\ ready[Len(ready)] = t => ~In(ready', t)
      BY <3>1, PopPresence
    <3> QED
      BY <1>0, <3>1, <3>2 DEF Goal, Once
  <2>2. CASE DeqBounce(w)
    <3>1. /\ ready' = <<wtask[w]>> \o ready /\ wtask[w] \in Tasks
          /\ wtask' = [wtask EXCEPT ![w] = NoTask] /\ enq' = enq
      BY <2>2 DEF DeqBounce, LPush
    <3>2. /\ In(ready', t) <=> wtask[w] = t \/ In(ready, t)
          /\ Unique(ready, t) /\ (wtask[w] = t => ~In(ready, t)) => Unique(ready', t)
      BY <3>1, PushPresence
    <3> QED
      BY <1>0, <3>1, <3>2 DEF Goal, Once
  <2>3. CASE ~DeqPop(w) /\ ~DeqBounce(w)
    <3>1. Still
      BY <1>2, <2>3 DEF Dequeue, DeqCheck, DeqMarkUser, DeqMarkProcessing,
                        DeqStamp, DeqExpire, DeqSetStatus
    <3> QED
      BY <1>00, <3>1
  <2> QED
    BY <2>1, <2>2, <2>3
<1>3. ASSUME NEW w \in Workers, Ack(w) PROVE Goal
  <2>1. Still
    BY <1>3 DEF Ack, AckUnmarkUser, AckUnmarkProcessing, AckClear, AckSetStatus, AckRecord
  <2> QED
    BY <1>00, <2>1
<1>4. ASSUME NEW c \in Cancellers, Cancel(c) PROVE Goal
  <2>1. CASE CancelRemove(c)
    <3>1. ready' = Without(ready, ctask[c]) /\ wtask' = wtask /\ enq' = enq
      BY <2>1 DEF CancelRemove
    <3>2. /\ In(ready', t) => In(ready, t)
          /\ Unique(ready, t) => Unique(ready', t)
      BY <3>1, LremPresence
    <3> QED
      BY <1>0, <3>1, <3>2 DEF Goal, Once
  <2>2. CASE ~CancelRemove(c)
    <3>1. Still
      BY <1>4, <2>2 DEF Cancel, CancelProceeds, CancelLoad, CancelUnmarkUser,
                        CancelUnmarkProcessing, CancelClear, CancelWrite
    <3> QED
      BY <1>00, <3>1
  <2> QED
    BY <2>1, <2>2
<1>5. ASSUME NEW k \in Cleaners, Cleanup(k) PROVE Goal
  <2>1. CASE CleanPush(k)
    <3>1. /\ ready' = <<ktask[k]>> \o ready /\ ktask[k] \in Tasks
          /\ wtask' = wtask /\ enq' = enq
      BY <2>1 DEF CleanPush, LPush
    <3>2. ktask[k] # t
      BY <3>1, <1>0 DEF HandsInv
    <3>3. /\ In(ready', t) <=> In(ready, t)
          /\ Unique(ready, t) => Unique(ready', t)
      BY <3>1, <3>2, PushPresence
    <3> QED
      BY <1>0, <3>1, <3>3 DEF Goal, Once
  <2>2. CASE ~CleanPush(k)
    <3>1. Still
      BY <1>5, <2>2 DEF Cleanup, CleanScan, CleanUnmarkUser, CleanUnmarkProcessing,
                        CleanClear, CleanWrite
    <3> QED
      BY <1>00, <3>1
  <2> QED
    BY <2>1, <2>2
<1>6. ASSUME Dies PROVE Goal
  <2>1. ASSUME NEW s \in Tasks, EnqueueDies(s) PROVE Still
    BY <2>1 DEF EnqueueDies
  <2>2. ASSUME NEW w \in Workers, WorkerDies(w) PROVE Still
    BY <2>2 DEF WorkerDies
  <2>3. ASSUME NEW c \in Cancellers, CancelDies(c) PROVE Still
    BY <2>3 DEF CancelDies
  <2>4. ASSUME NEW k \in Cleaners, CleanupDies(k) PROVE Still
    BY <2>4 DEF CleanupDies
  <2> QED
    BY <1>00, <1>6, <2>1, <2>2, <2>3, <2>4 DEF Dies
<1>7. ASSUME UNCHANGED vars PROVE Goal
  <2>1. Still
    BY <1>7 DEF vars
  <2> QED
    BY <1>00, <2>1
<1>8. Goal
  BY <1>1, <1>2, <1>3, <1>4, <1>5, <1>6, <1>7 DEF Next
<1> QED
  BY <1>8 DEF Goal

LEMMA PlaceCorrect == Spec => [](TypeOK /\ HandsInv /\ PlaceInv)
<1>1. Init => PlaceInv
  BY NoTaskAssumption DEF Init, PlaceInv, Once, Unique, In
<1> QED
  BY <1>1, PlaceStep, HandsCorrect, PTL DEF Spec

(* dequeue_task delivers a task that never timed out to one worker at a     *)
(* time: it is never on the ready list and in a worker's hands, nor twice   *)
(* in either, whatever is bounced, cancelled or abandoned.                  *)
THEOREM DeliveredOnce == Spec => []SingleDelivery
<1>1. PlaceInv => SingleDelivery
  BY DEF PlaceInv, Once, Unique, In, SingleDelivery, InReady
<1> QED
  BY <1>1, PlaceCorrect, PTL
-----------------------------------------------------------------------------
(* A worker's task holds the slots the worker took for it: only the worker  *)
(* itself, a cancellation or a cleanup returns them.                        *)
Counted(w) ==
  wtask[w] \notin cancels \cup expiries =>
    /\ UserSlotOwner(w) => wtask[w] \in userProcessing[Owner[wtask[w]]]
    /\ GlobalSlotOwner(w) => wtask[w] \in processing

CountInv == \A w \in Workers : Counted(w)

LEMMA CancelsGrow == [Next]_vars => cancels \subseteq cancels'
BY DEF Next, vars, store, workerVars, cancelVars, cleanVars, history,
   Enqueue, EnqCheckUser, EnqCheckGlobal, EnqStore, EnqPush, TimeoutPasses,
   KeyExpires, Dequeue, DeqPop, DeqCheck, DeqBounce, DeqMarkUser,
   DeqMarkProcessing, DeqStamp, DeqExpire, DeqSetStatus, Ack, AckUnmarkUser,
   AckUnmarkProcessing, AckClear, AckSetStatus, AckRecord, Cancel,
   CancelProceeds, CancelLoad, CancelUnmarkUser, CancelUnmarkProcessing,
   CancelClear, CancelRemove, CancelWrite, Cleanup, CleanScan,
   CleanUnmarkUser, CleanUnmarkProcessing, CleanClear, CleanPush, CleanWrite,
   Dies, EnqueueDies, WorkerDies, CancelDies, CleanupDies, Abandon

LEMMA CountStep ==
  TypeOK /\ HandsInv /\ PlaceInv /\ CountInv /\ [Next]_vars => CountInv'
<1> SUFFICES ASSUME TypeOK, HandsInv, PlaceInv, CountInv, [Next]_vars,
                    NEW w \in Workers, wtask'[w] \notin cancels' \cup expiries'
             PROVE  Counted(w)'
  BY DEF CountInv, Counted
<1> DEFINE t == wtask[w]
           Mine == wpc'[w] = wpc[w] /\ wtask'[w] = wtask[w]
           Same == /\ Mine
                   /\ t \in Tasks =>
                        /\ t \in userProcessing[Owner[t]] => t \in userProcessing'[Owner[t]]
                        /\ t \in processing => t \in processing'
           Goal == Counted(w)'
<1>0. wtask'[w] \notin cancels \cup expiries
  BY ExpiriesGrow, CancelsGrow
<1>00. Same => Goal
  BY <1>0 DEF CountInv, Counted, TypeOK, UserSlotOwner, GlobalSlotOwner
<1> HIDE DEF Goal
<1>01. Mine => /\ \A v \in Workers \ {w} : wtask[v] = t => t = NoTask
               /\ \A k \in Cleaners : ktask[k] = t => t = NoTask
               /\ \A k \in Cleaners : t \notin kexp[k]
               /\ \A c \in Cancellers : ctask[c] = t => t = NoTask
  BY <1>0 DEF HandsInv, PlaceInv, Once, TypeOK
<1> USE NoTaskAssumption, OwnerAssumption
    DEF TypeOK, store, visibility, workerVars, cancelVars, cleanVars, history, SremUser
<1>1. ASSUME NEW s \in Tasks, Enqueue(s) \/ TimeoutPasses(s) \/ KeyExpires(s)
      PROVE  Goal
  <2>1. Same
    BY <1>1 DEF Enqueue, EnqCheckUser, EnqCheckGlobal, EnqStore, EnqPush,
                TimeoutPasses, KeyExpires
  <2> QED
    BY <1>00, <2>1
<1>2. ASSUME Dequeue(w) PROVE Goal
  BY <1>0, <1>2 DEF Goal, CountInv, Counted, UserSlotOwner, GlobalSlotOwner, Dequeue,
     DeqPop, DeqCheck, DeqBounce, DeqMarkUser, DeqMarkProcessing, DeqStamp,
     DeqExpire, DeqSetStatus
<1>3. ASSUME Ack(w) PROVE Goal
  <2>1. CASE AckUnmarkUser(w)
    BY <1>0, <2>1 DEF Goal, CountInv, Counted, UserSlotOwner, GlobalSlotOwner, AckUnmarkUser
  <2>2. CASE ~AckUnmarkUser(w)
    <3>1. ~UserSlotOwner(w)' /\ ~GlobalSlotOwner(w)'
      BY <1>3, <2>2, OutcomesAssumption
         DEF UserSlotOwner, GlobalSlotOwner, Ack, AckUnmarkProcessing, AckClear,
             AckSetStatus, AckRecord
    <3> QED
      BY <3>1 DEF Goal, Counted
  <2> QED
    BY <2>1, <2>2
<1>4. ASSUME NEW v \in Workers \ {w}, Dequeue(v) \/ Ack(v) PROVE Goal
  <2>1. Mine
    BY <1>4 DEF Dequeue, DeqPop, DeqCheck, DeqBounce, DeqMarkUser,
       DeqMarkProcessing, DeqStamp, DeqExpire, DeqSetStatus, Ack, AckUnmarkUser,
       AckUnmarkProcessing, AckClear, AckSetStatus, AckRecord
  <2>2. wtask[v] # t \/ t \notin Tasks
    BY <1>01, <2>1
  <2>3. Same
    BY <1>4, <2>1, <2>2 DEF Dequeue, DeqPop, DeqCheck, DeqBounce, DeqMarkUser,
       DeqMarkProcessing, DeqStamp, DeqExpire, DeqSetStatus, Ack, AckUnmarkUser,
       AckUnmarkProcessing, AckClear, AckSetStatus, AckRecord
  <2> QED
    BY <1>00, <2>3
<1>5. ASSUME NEW c \in Cancellers, Cancel(c) PROVE Goal
  <2>1. Mine
    BY <1>5 DEF Cancel, CancelProceeds, CancelLoad, CancelUnmarkUser,
       CancelUnmarkProcessing, CancelClear, CancelRemove, CancelWrite
  <2>2. ctask[c] # t \/ t \notin Tasks
    BY <1>01, <2>1
  <2>3. Same
    BY <1>5, <2>1, <2>2 DEF Cancel, CancelProceeds, CancelLoad, CancelUnmarkUser,
       CancelUnmarkProcessing, CancelClear, CancelRemove, CancelWrite
  <2> QED
    BY <1>00, <2>3
<1>6. ASSUME NEW k \in Cleaners, Cleanup(k) PROVE Goal
  <2>1. Mine
    BY <1>6 DEF Cleanup, CleanScan, CleanUnmarkUser, CleanUnmarkProcessing,
       CleanClear, CleanPush, CleanWrite
  <2>2. /\ ktask[k] # t \/ t \notin Tasks
        /\ t \notin kexp[k]
    BY <1>01, <2>1
  <2>3. Same
    BY <1>6, <2>1, <2>2 DEF Cleanup, CleanScan, CleanUnmarkUser,
       CleanUnmarkProcessing, CleanClear, CleanPush, CleanWrite
  <2> QED
    BY <1>00, <2>3
<1>7. ASSUME Dies PROVE Goal
  <2>1. ASSUME NEW s \in Tasks, EnqueueDies(s) PROVE Same
    BY <2>1 DEF EnqueueDies
  <2>2. ASSUME NEW v \in Workers, WorkerDies(v) PROVE Goal
    BY <1>00, <2>2 DEF WorkerDies, Goal, Counted, UserSlotOwner, GlobalSlotOwner
  <2>3. ASSUME NEW c \in Cancellers, CancelDies(c) PROVE Same
    BY <2>3 DEF CancelDies
  <2>4. ASSUME NEW k \in Cleaners, CleanupDies(k) PROVE Same
    BY <2>4 DEF CleanupDies
  <2> QED
    BY <1>00, <1>7, <2>1, <2>2, <2>3, <2>4 DEF Dies
<1>8. ASSUME UNCHANGED vars PROVE Goal
  <2>1. Same
    BY <1>8 DEF vars
  <2> QED
    BY <1>00, <2>1
<1>9. Goal
  BY <1>1, <1>2, <1>3, <1>4, <1>5, <1>6, <1>7, <1>8 DEF Next
<1> QED
  BY <1>9 DEF Goal

(* An analysis under way that nobody cancelled or timed out is counted      *)
(* against the limits of its user and of the system.                        *)
THEOREM WhatRunsIsCounted == Spec => []RunningIsCounted
<1>1. Init => CountInv
  BY DEF Init, CountInv, Counted, UserSlotOwner, GlobalSlotOwner
<1>2. CountInv => RunningIsCounted
  BY DEF CountInv, Counted, UserSlotOwner, GlobalSlotOwner, RunningIsCounted
<1> QED
  BY <1>1, <1>2, CountStep, PlaceCorrect, PTL DEF Spec
-----------------------------------------------------------------------------
LEMMA AbandonedGrow == [Next]_vars => abandoned \subseteq abandoned'
BY DEF Next, vars, store, workerVars, cancelVars, cleanVars, history,
   Enqueue, EnqCheckUser, EnqCheckGlobal, EnqStore, EnqPush, TimeoutPasses,
   KeyExpires, Dequeue, DeqPop, DeqCheck, DeqBounce, DeqMarkUser,
   DeqMarkProcessing, DeqStamp, DeqExpire, DeqSetStatus, Ack, AckUnmarkUser,
   AckUnmarkProcessing, AckClear, AckSetStatus, AckRecord, Cancel,
   CancelProceeds, CancelLoad, CancelUnmarkUser, CancelUnmarkProcessing,
   CancelClear, CancelRemove, CancelWrite, Cleanup, CleanScan,
   CleanUnmarkUser, CleanUnmarkProcessing, CleanClear, CleanPush, CleanWrite,
   Dies, EnqueueDies, WorkerDies, CancelDies, CleanupDies, Abandon

(* The body of QueuedIsReachable, for one task.                             *)
Reachable(t) ==
  status[t] = "queued" /\ enq[t] = "done" =>
    \/ In(ready, t)
    \/ \E w \in Workers : wtask[w] = t /\ wpc[w] \in Dequeuing
    \/ \E c \in Cancellers : ctask[c] = t /\ cpc[c] = "write"

ReachInv == \A t \in Tasks \ (expiries \cup abandoned) : Reachable(t)

LEMMA ReachStep ==
  TypeOK /\ HandsInv /\ RecordBeforeReady /\ ReachInv /\ [Next]_vars => ReachInv'
<1> SUFFICES ASSUME TypeOK, HandsInv, RecordBeforeReady, ReachInv, [Next]_vars,
                    NEW t \in Tasks, t \notin expiries' \cup abandoned'
             PROVE  Reachable(t)'
  BY DEF ReachInv
<1> DEFINE Goal == Reachable(t)'
           OffWork == /\ wpc' = wpc /\ wtask' = wtask
           OffCancel == /\ cpc' = cpc /\ ctask' = ctask
           OffStatus == status'[t] = status[t] /\ enq'[t] = enq[t]
<1>0. t \notin expiries \cup abandoned /\ Reachable(t)
  BY ExpiriesGrow, AbandonedGrow DEF ReachInv
<1>00. ASSUME OffStatus, In(ready, t) => In(ready', t),
              \A w \in Workers : wtask[w] = t /\ wpc[w] \in Dequeuing =>
                In(ready', t) \/ (wtask'[w] = t /\ wpc'[w] \in Dequeuing),
              \A c \in Cancellers : ctask[c] = t /\ cpc[c] = "write" =>
                ctask'[c] = t /\ cpc'[c] = "write"
       PROVE  Goal
  BY <1>0, <1>00 DEF Reachable
<1> HIDE DEF Goal
<1> USE NoTaskAssumption
    DEF TypeOK, store, visibility, workerVars, cancelVars, cleanVars, history
<1>1. ASSUME NEW s \in Tasks, Enqueue(s) \/ TimeoutPasses(s) \/ KeyExpires(s)
      PROVE  Goal
  <2>1. CASE EnqPush(s)
    <3>1. In(ready', t) <=> s = t \/ In(ready, t)
      BY <2>1, PushPresence DEF EnqPush, LPush
    <3> QED
      BY <2>1, <3>1, <1>0 DEF EnqPush, Goal, Reachable
  <2>2. CASE EnqStore(s) /\ s = t
    BY <2>2 DEF EnqStore, Goal, Reachable
  <2>3. CASE ~EnqPush(s) /\ ~(EnqStore(s) /\ s = t)
    <3>1. /\ ready' = ready /\ OffWork /\ OffCancel /\ status'[t] = status[t]
          /\ enq'[t] = enq[t] \/ enq'[t] # "done"
      BY <1>1, <2>3 DEF Enqueue, EnqCheckUser, EnqCheckGlobal, EnqStore,
                        TimeoutPasses, KeyExpires
    <3> QED
      BY <3>1, <1>0 DEF Goal, Reachable
  <2> QED
    BY <2>1, <2>2, <2>3
<1>2. ASSUME NEW w \in Workers, Dequeue(w) PROVE Goal
  <2>1. CASE DeqPop(w)
    <3>1. /\ In(ready, t) <=> ready[Len(ready)] = t \/ In(ready', t)
          /\ wtask' = [wtask EXCEPT ![w] = ready[Len(ready)]]
          /\ wpc' = [wpc EXCEPT ![w] = "popped"] /\ wtask[w] = NoTask
          /\ OffStatus /\ OffCancel
      BY <2>1, PopPresence DEF DeqPop
    <3> QED
      BY <3>1, <1>0 DEF Goal, Reachable, Dequeuing
  <2>2. CASE DeqBounce(w)
    <3>1. /\ In(ready', t) <=> wtask[w] = t \/ In(ready, t)
          /\ \A v \in Workers \ {w} : wtask'[v] = wtask[v] /\ wpc'[v] = wpc[v]
          /\ OffStatus /\ OffCancel
      BY <2>2, PushPresence DEF DeqBounce, LPush
    <3> QED
      BY <3>1, <1>0 DEF Goal, Reachable
  <2>3. CASE DeqCheck(w)
    <3>1. status[wtask[w]] # "none"
      BY <2>3 DEF DeqCheck, RecordBeforeReady
    <3>2. /\ ready' = ready /\ OffStatus /\ OffCancel /\ wtask' = wtask
          /\ \A v \in Workers : wpc[v] \in Dequeuing => wpc'[v] \in Dequeuing
      BY <2>3, <3>1 DEF DeqCheck, Dequeuing
    <3> QED
      BY <3>2, <1>00
  <2>4. CASE DeqSetStatus(w)
    <3>1. /\ ready' = ready /\ OffCancel /\ wtask' = wtask /\ enq' = enq
          /\ \A v \in Workers \ {w} : wpc'[v] = wpc[v]
          /\ status' = [status EXCEPT ![wtask[w]] = "processing"]
      BY <2>4 DEF DeqSetStatus
    <3> QED
      BY <3>1, <1>0 DEF Goal, Reachable
  <2>5. CASE DeqMarkUser(w) \/ DeqMarkProcessing(w) \/ DeqStamp(w) \/ DeqExpire(w)
    <3>1. /\ ready' = ready /\ OffStatus /\ OffCancel /\ wtask' = wtask
          /\ \A v \in Workers : wpc[v] \in Dequeuing => wpc'[v] \in Dequeuing
      BY <2>5 DEF DeqMarkUser, DeqMarkProcessing, DeqStamp, DeqExpire, Dequeuing
    <3> QED
      BY <3>1, <1>00
  <2> QED
    BY <1>2, <2>1, <2>2, <2>3, <2>4, <2>5 DEF Dequeue
<1>3. ASSUME NEW w \in Workers, Ack(w) PROVE Goal
  <2>1. /\ ready' = ready /\ OffCancel /\ enq' = enq /\ wpc[w] \notin Dequeuing
        /\ \A v \in Workers \ {w} : wpc'[v] = wpc[v] /\ wtask'[v] = wtask[v]
        /\ status'[t] = "queued" => status[t] = "queued"
    BY <1>3, OutcomesAssumption
       DEF Ack, AckUnmarkUser, AckUnmarkProcessing, AckClear, AckSetStatus,
           AckRecord, Dequeuing
  <2> QED
    BY <2>1, <1>0 DEF Goal, Reachable
<1>4. ASSUME NEW c \in Cancellers, Cancel(c) PROVE Goal
  <2>1. CASE CancelRemove(c)
    <3>1. /\ In(ready', t) <=> ctask[c] # t /\ In(ready, t)
          /\ ctask' = ctask /\ cpc' = [cpc EXCEPT ![c] = "write"]
          /\ OffStatus /\ OffWork
      BY <2>1, LremPresence DEF CancelRemove
    <3> QED
      BY <3>1, <1>0 DEF Goal, Reachable
  <2>2. CASE CancelWrite(c)
    <3>1. /\ ready' = ready /\ OffWork /\ enq' = enq
          /\ \A d \in Cancellers \ {c} : cpc'[d] = cpc[d] /\ ctask'[d] = ctask[d]
          /\ status' = [status EXCEPT ![ctask[c]] = "cancelled"]
      BY <2>2 DEF CancelWrite
    <3> QED
      BY <3>1, <1>0 DEF Goal, Reachable
  <2>3. CASE ~CancelRemove(c) /\ ~CancelWrite(c)
    <3>1. /\ ready' = ready /\ OffWork /\ OffStatus /\ cpc[c] # "write"
          /\ \A d \in Cancellers \ {c} : cpc'[d] = cpc[d] /\ ctask'[d] = ctask[d]
      BY <1>4, <2>3 DEF Cancel, CancelProceeds, CancelLoad, CancelUnmarkUser,
                        CancelUnmarkProcessing, CancelClear
    <3> QED
      BY <3>1, <1>00
  <2> QED
    BY <2>1, <2>2, <2>3
<1>5. ASSUME NEW k \in Cleaners, Cleanup(k) PROVE Goal
  <2>1. ktask[k] # t
    BY <1>0 DEF HandsInv
  <2>2. CASE CleanPush(k)
    <3>1. In(ready', t) <=> In(ready, t)
      BY <2>1, <2>2, PushPresence DEF CleanPush, LPush
    <3> QED
      BY <2>2, <3>1, <1>00 DEF CleanPush
  <2>3. CASE ~CleanPush(k)
    <3>1. ready' = ready /\ OffWork /\ OffCancel /\ OffStatus
      BY <1>5, <2>1, <2>3 DEF Cleanup, CleanScan, CleanUnmarkUser,
                              CleanUnmarkProcessing, CleanClear, CleanWrite
    <3> QED
      BY <3>1, <1>00
  <2> QED
    BY <2>2, <2>3
<1>6. ASSUME Dies PROVE Goal
  <2>1. ASSUME NEW s \in Tasks, EnqueueDies(s) PROVE Goal
    <3>1. /\ ready' = ready /\ OffWork /\ OffCancel /\ status' = status
          /\ enq'[t] = enq[t] \/ enq'[t] # "done"
      BY <2>1 DEF EnqueueDies
    <3> QED
      BY <3>1, <1>0 DEF Goal, Reachable
  <2>2. ASSUME NEW w \in Workers, WorkerDies(w) PROVE Goal
    <3>1. /\ ready' = ready /\ OffStatus /\ OffCancel /\ wtask[w] # t
          /\ \A v \in Workers \ {w} : wpc'[v] = wpc[v] /\ wtask'[v] = wtask[v]
      BY <2>2 DEF WorkerDies, Abandon
    <3> QED
      BY <3>1, <1>00
  <2>3. ASSUME NEW c \in Cancellers, CancelDies(c) PROVE Goal
    <3>1. /\ ready' = ready /\ OffStatus /\ OffWork /\ ctask[c] # t
          /\ \A d \in Cancellers \ {c} : cpc'[d] = cpc[d] /\ ctask'[d] = ctask[d]
      BY <2>3 DEF CancelDies, Abandon
    <3> QED
      BY <3>1, <1>00
  <2>4. ASSUME NEW k \in Cleaners, CleanupDies(k) PROVE Goal
    <3>1. ready' = ready /\ OffWork /\ OffCancel /\ OffStatus
      BY <2>4 DEF CleanupDies
    <3> QED
      BY <3>1, <1>00
  <2> QED
    BY <1>6, <2>1, <2>2, <2>3, <2>4 DEF Dies
<1>7. ASSUME UNCHANGED vars PROVE Goal
  <2>1. ready' = ready /\ OffWork /\ OffCancel /\ OffStatus
    BY <1>7 DEF vars
  <2> QED
    BY <2>1, <1>00
<1>8. Goal
  BY <1>1, <1>2, <1>3, <1>4, <1>5, <1>6, <1>7 DEF Next
<1> QED
  BY <1>8 DEF Goal

(* A task that says "queued" once enqueue_task returned is on the list, in  *)
(* the hands of a worker, or about to be marked cancelled.                  *)
THEOREM QueuedCanRun == Spec => []QueuedIsReachable
<1>1. Init => ReachInv
  BY DEF Init, ReachInv, Reachable
<1>2. ReachInv => QueuedIsReachable
  BY DEF ReachInv, Reachable, QueuedIsReachable, In, InReady
<1> QED
  BY <1>1, <1>2, ReachStep, HandsCorrect, RecordsComeFirst, PTL DEF Spec
-----------------------------------------------------------------------------
(* A task whose hash says it is finished is off the list, and the worker    *)
(* that wrote so has only ack_task's last command left.                     *)
OutOfPlay(t) ==
  status[t] \in {"completed", "failed"} =>
    /\ enq[t] = "done" /\ ~In(ready, t)
    /\ \A w \in Workers : wtask[w] = t => wpc[w] \in {"completed", "failed"}

FinishInv == \A t \in Tasks \ expiries : OutOfPlay(t)

LEMMA FinishStep ==
  TypeOK /\ HandsInv /\ PlaceInv /\ FinishInv /\ [Next]_vars => FinishInv'
<1> SUFFICES ASSUME TypeOK, HandsInv, PlaceInv, FinishInv, [Next]_vars,
                    NEW t \in Tasks, t \notin expiries'
             PROVE  OutOfPlay(t)'
  BY DEF FinishInv
<1> DEFINE Goal == OutOfPlay(t)'
           Aside == /\ \A w \in Workers : \/ wtask'[w] = wtask[w] /\ wpc'[w] = wpc[w]
                                          \/ wtask'[w] = NoTask
                    /\ status'[t] \in {"completed", "failed"} => status[t] = status'[t]
                    /\ enq'[t] = enq[t]
                    /\ In(ready', t) => In(ready, t)
<1>0. t \notin expiries /\ Once(t) /\ OutOfPlay(t)
  BY ExpiriesGrow DEF FinishInv, PlaceInv
<1>00. Aside => Goal
  BY <1>0, NoTaskAssumption DEF OutOfPlay
<1> HIDE DEF Goal
<1> USE NoTaskAssumption
    DEF TypeOK, store, visibility, workerVars, cancelVars, cleanVars, history
<1>1. ASSUME NEW s \in Tasks, Enqueue(s) \/ TimeoutPasses(s) \/ KeyExpires(s)
      PROVE  Goal
  <2>1. CASE s = t /\ Enqueue(s)
    BY <2>1, <1>0 DEF Goal, OutOfPlay, Enqueue, EnqCheckUser, EnqCheckGlobal, EnqStore,
                      EnqPush
  <2>2. CASE ~(s = t /\ Enqueue(s))
    <3>1. ready' = ready \/ EnqPush(s)
      BY <1>1 DEF Enqueue, EnqCheckUser, EnqCheckGlobal, EnqStore,
                        TimeoutPasses, KeyExpires
    <3>2. EnqPush(s) => s # t /\ ready' = <<s>> \o ready
      BY <2>2 DEF Enqueue, EnqPush, LPush
    <3>5. In(<<s>> \o ready, t) <=> s = t \/ In(ready, t)
      BY PushPresence
    <3>3. In(ready', t) => In(ready, t)
      BY <3>1, <3>2, <3>5
    <3>4. wtask' = wtask /\ wpc' = wpc /\ status'[t] = status[t] /\ enq'[t] = enq[t]
      BY <1>1, <2>2 DEF Enqueue, EnqCheckUser, EnqCheckGlobal, EnqStore, EnqPush,
                        TimeoutPasses, KeyExpires
    <3> QED
      BY <1>00, <3>3, <3>4
  <2> QED
    BY <2>1, <2>2
<1>2. ASSUME NEW w \in Workers, Dequeue(w) PROVE Goal
  <2>1. CASE DeqPop(w)
    <3>1. /\ In(ready, t) <=> ready[Len(ready)] = t \/ In(ready', t)
          /\ wtask' = [wtask EXCEPT ![w] = ready[Len(ready)]]
          /\ wpc' = [wpc EXCEPT ![w] = "popped"]
          /\ status' = status /\ enq' = enq
      BY <2>1, PopPresence DEF DeqPop
    <3> QED
      BY <3>1, <1>0 DEF Goal, OutOfPlay
  <2>2. CASE DeqBounce(w)
    <3>1. /\ In(ready', t) <=> wtask[w] = t \/ In(ready, t)
          /\ wpc[w] = "bounce" /\ status' = status /\ enq' = enq
          /\ wtask' = [wtask EXCEPT ![w] = NoTask]
          /\ wpc' = [wpc EXCEPT ![w] = "idle"]
      BY <2>2, PushPresence DEF DeqBounce, LPush
    <3> QED
      BY <3>1, <1>0 DEF Goal, OutOfPlay
  <2>3. CASE ~DeqPop(w) /\ ~DeqBounce(w)
    <3>1. /\ ready' = ready /\ enq' = enq /\ wpc[w] \notin {"completed", "failed"}
          /\ wtask'[w] \in {wtask[w], NoTask}
          /\ \A v \in Workers \ {w} : wpc'[v] = wpc[v] /\ wtask'[v] = wtask[v]
          /\ status'[t] \in {"completed", "failed"} => status[t] = status'[t]
      BY <1>2, <2>3 DEF Dequeue, DeqCheck, DeqMarkUser, DeqMarkProcessing,
                        DeqStamp, DeqExpire, DeqSetStatus
    <3> QED
      BY <3>1, <1>0 DEF Goal, OutOfPlay
  <2> QED
    BY <2>1, <2>2, <2>3
<1>3. ASSUME NEW w \in Workers, Ack(w) PROVE Goal
  <2>1. ASSUME NEW outcome \in Outcomes, AckSetStatus(w, outcome) PROVE Goal
    <3>1. /\ ready' = ready /\ enq' = enq /\ wtask' = wtask /\ wtask[w] \in Tasks
          /\ wpc' = [wpc EXCEPT ![w] = outcome]
          /\ outcome \in {"completed", "failed"}
          /\ status' = [status EXCEPT ![wtask[w]] = outcome]
      BY <2>1, OutcomesAssumption DEF AckSetStatus
    <3>2. CASE wtask[w] = t
      <4>1. /\ enq[t] = "done" /\ ~In(ready, t)
            /\ \A v \in Workers : wtask[v] = t => v = w
        BY <3>2, <1>0 DEF Once
      <4> QED
        BY <3>1, <4>1 DEF Goal, OutOfPlay
    <3>3. CASE wtask[w] # t
      <4>1. /\ status'[t] = status[t]
            /\ \A v \in Workers : wtask'[v] = t => wtask[v] = t /\ wpc'[v] = wpc[v]
        BY <3>1, <3>3
      <4> QED
        BY <3>1, <4>1, <1>0 DEF Goal, OutOfPlay
    <3> QED
      BY <3>2, <3>3
  <2>2. CASE ~\E outcome \in Outcomes : AckSetStatus(w, outcome)
    <3>1. /\ ready' = ready /\ enq' = enq /\ status' = status
          /\ \A v \in Workers \ {w} : wpc'[v] = wpc[v] /\ wtask'[v] = wtask[v]
          /\ \/ wtask'[w] = NoTask
             \/ wtask'[w] = wtask[w] /\ wpc[w] \notin {"completed", "failed"}
      BY <1>3, <2>2 DEF Ack, AckUnmarkUser, AckUnmarkProcessing, AckClear, AckRecord
    <3>2. \A v \in Workers : wtask'[v] = t /\ v # w => wtask[v] = t /\ wpc'[v] = wpc[v]
      BY <3>1
    <3>3. OutOfPlay(t) /\ status[t] \in {"completed", "failed"} => wtask'[w] # t
      BY <3>1 DEF OutOfPlay
    <3> QED
      BY <3>1, <3>2, <3>3, <1>0 DEF Goal, OutOfPlay
  <2> QED
    BY <2>1, <2>2
<1>4. ASSUME NEW c \in Cancellers, Cancel(c) PROVE Goal
  <2>1. In(ready', t) => In(ready, t)
    <3>1. ready' = ready \/ ready' = Without(ready, ctask[c])
      BY <1>4 DEF Cancel, CancelProceeds, CancelLoad, CancelUnmarkUser,
                  CancelUnmarkProcessing, CancelClear, CancelRemove, CancelWrite
    <3> QED
      BY <3>1, LremPresence
  <2>2. /\ wtask' = wtask /\ wpc' = wpc /\ enq' = enq
        /\ status'[t] \in {"completed", "failed"} => status[t] = status'[t]
    BY <1>4 DEF Cancel, CancelProceeds, CancelLoad, CancelUnmarkUser,
                CancelUnmarkProcessing, CancelClear, CancelRemove, CancelWrite
  <2> QED
    BY <1>00, <2>1, <2>2
<1>5. ASSUME NEW k \in Cleaners, Cleanup(k) PROVE Goal
  <2>1. ktask[k] # t
    BY <1>0 DEF HandsInv
  <2>2. In(ready', t) => In(ready, t)
    <3>1. ready' = ready \/ (ktask[k] \in Tasks /\ ready' = <<ktask[k]>> \o ready)
      BY <1>5 DEF Cleanup, CleanScan, CleanUnmarkUser, CleanUnmarkProcessing,
                  CleanClear, CleanPush, CleanWrite, LPush
    <3>2. ktask[k] \in Tasks =>
            (In(<<ktask[k]>> \o ready, t) <=> ktask[k] = t \/ In(ready, t))
      BY PushPresence
    <3> QED
      BY <2>1, <3>1, <3>2
  <2>3. wtask' = wtask /\ wpc' = wpc /\ enq' = enq /\ status'[t] = status[t]
    BY <1>5, <2>1 DEF Cleanup, CleanScan, CleanUnmarkUser,
                      CleanUnmarkProcessing, CleanClear, CleanPush, CleanWrite
  <2> QED
    BY <1>00, <2>2, <2>3
<1>6. ASSUME Dies PROVE Goal
  <2>1. ASSUME NEW s \in Tasks, EnqueueDies(s) PROVE Goal
    BY <1>0, <2>1 DEF EnqueueDies, Goal, OutOfPlay
  <2>2. ASSUME NEW w \in Workers, WorkerDies(w) PROVE Aside
    BY <2>2 DEF WorkerDies
  <2>3. ASSUME NEW c \in Cancellers, CancelDies(c) PROVE Aside
    BY <2>3 DEF CancelDies
  <2>4. ASSUME NEW k \in Cleaners, CleanupDies(k) PROVE Aside
    BY <2>4 DEF CleanupDies
  <2> QED
    BY <1>00, <1>6, <2>1, <2>2, <2>3, <2>4 DEF Dies
<1>7. ASSUME UNCHANGED vars PROVE Goal
  <2>1. Aside
    BY <1>7 DEF vars
  <2> QED
    BY <1>00, <2>1
<1>8. Goal
  BY <1>1, <1>2, <1>3, <1>4, <1>5, <1>6, <1>7 DEF Next
<1> QED
  BY <1>8 DEF Goal

(* The step itself: only a cancellation may relabel a finished task.        *)
LEMMA FinishedStep ==
  TypeOK /\ HandsInv /\ FinishInv /\ [Next]_vars =>
    [\A t \in Tasks \ expiries :
       status[t] \in {"completed", "failed"} => status'[t] \in {status[t], "cancelled"}]_vars
<1> SUFFICES ASSUME TypeOK, HandsInv, FinishInv, Next, NEW t \in Tasks \ expiries,
                    status[t] \in {"completed", "failed"}
             PROVE  status'[t] \in {status[t], "cancelled"}
  OBVIOUS
<1> USE NoTaskAssumption
    DEF TypeOK, store, visibility, workerVars, cancelVars, cleanVars, history
<1>0. OutOfPlay(t)
  BY DEF FinishInv
<1>1. ASSUME NEW s \in Tasks, Enqueue(s) \/ TimeoutPasses(s) \/ KeyExpires(s)
      PROVE  status'[t] = status[t]
  BY <1>0, <1>1 DEF OutOfPlay, Enqueue, EnqCheckUser, EnqCheckGlobal, EnqStore, EnqPush,
                    TimeoutPasses, KeyExpires
<1>2. ASSUME NEW w \in Workers, Dequeue(w) \/ Ack(w) PROVE status'[t] = status[t]
  BY <1>0, <1>2 DEF OutOfPlay, Dequeue, DeqPop, DeqCheck, DeqBounce, DeqMarkUser,
     DeqMarkProcessing, DeqStamp, DeqExpire, DeqSetStatus, Ack, AckUnmarkUser,
     AckUnmarkProcessing, AckClear, AckSetStatus, AckRecord
<1>3. ASSUME NEW c \in Cancellers, Cancel(c)
      PROVE  status'[t] \in {status[t], "cancelled"}
  BY <1>3 DEF Cancel, CancelProceeds, CancelLoad, CancelUnmarkUser,
     CancelUnmarkProcessing, CancelClear, CancelRemove, CancelWrite
<1>4. ASSUME NEW k \in Cleaners, Cleanup(k) PROVE status'[t] = status[t]
  BY <1>4 DEF HandsInv, Cleanup, CleanScan, CleanUnmarkUser, CleanUnmarkProcessing,
     CleanClear, CleanPush, CleanWrite
<1>5. ASSUME Dies PROVE status'[t] = status[t]
  BY <1>5 DEF Dies, EnqueueDies, WorkerDies, CancelDies, CleanupDies
<1> QED
  BY <1>1, <1>2, <1>3, <1>4, <1>5 DEF Next

LEMMA FinishCorrect == Spec => [](TypeOK /\ HandsInv /\ PlaceInv /\ FinishInv)
<1>1. Init => FinishInv
  BY DEF Init, FinishInv, OutOfPlay
<1> QED
  BY <1>1, FinishStep, PlaceCorrect, PTL DEF Spec

(* The record of a finished task that never timed out is final, but for a   *)
(* cancellation that comes late: nothing runs the task again.               *)
THEOREM FinishedIsFinal == Spec => FinishedStays
BY FinishedStep, FinishCorrect, PTL DEF Spec, FinishedStays
-----------------------------------------------------------------------------
(* The refinement.  A task ack_task has recorded is nowhere else.           *)
RecordedOnce(t) ==
  t \in completed \cup failed =>
    enq[t] = "done" /\ ~In(ready, t) /\ \A w \in Workers : wtask[w] # t

RecordedInv == \A t \in Tasks \ expiries : RecordedOnce(t)

LEMMA RecordedStep ==
  TypeOK /\ HandsInv /\ PlaceInv /\ RecordedInv /\ [Next]_vars => RecordedInv'
<1> SUFFICES ASSUME TypeOK, HandsInv, PlaceInv, RecordedInv, [Next]_vars,
                    NEW t \in Tasks, t \notin expiries'
             PROVE  RecordedOnce(t)'
  BY DEF RecordedInv
<1> DEFINE Goal == RecordedOnce(t)'
           Aside == /\ \A w \in Workers : wtask'[w] \in {wtask[w], NoTask}
                    /\ completed' = completed /\ failed' = failed
                    /\ enq[t] = "done" => enq'[t] = "done"
                    /\ In(ready', t) => In(ready, t)
<1>0. t \notin expiries /\ Once(t) /\ RecordedOnce(t)
  BY ExpiriesGrow DEF RecordedInv, PlaceInv
<1>00. Aside => Goal
  BY <1>0, NoTaskAssumption DEF RecordedOnce
<1> HIDE DEF Goal
<1> USE NoTaskAssumption
    DEF TypeOK, store, visibility, workerVars, cancelVars, cleanVars, history
<1>1. ASSUME NEW s \in Tasks, Enqueue(s) \/ TimeoutPasses(s) \/ KeyExpires(s)
      PROVE  Goal
  <2>1. CASE EnqPush(s)
    <3>1. In(<<s>> \o ready, t) <=> s = t \/ In(ready, t)
      BY PushPresence
    <3> QED
      BY <2>1, <3>1, <1>0 DEF EnqPush, LPush, Goal, RecordedOnce
  <2>2. CASE ~EnqPush(s)
    <3>1. Aside
      BY <1>1, <2>2 DEF Enqueue, EnqCheckUser, EnqCheckGlobal, EnqStore,
                        TimeoutPasses, KeyExpires
    <3> QED
      BY <3>1, <1>00
  <2> QED
    BY <2>1, <2>2
<1>2. ASSUME NEW w \in Workers, Dequeue(w) PROVE Goal
  <2>1. CASE DeqPop(w)
    <3>1. /\ In(ready, t) <=> ready[Len(ready)] = t \/ In(ready', t)
          /\ wtask' = [wtask EXCEPT ![w] = ready[Len(ready)]]
          /\ enq' = enq /\ completed' = completed /\ failed' = failed
      BY <2>1, PopPresence DEF DeqPop
    <3> QED
      BY <3>1, <1>0 DEF Goal, RecordedOnce
  <2>2. CASE DeqBounce(w)
    <3>1. /\ In(ready', t) <=> wtask[w] = t \/ In(ready, t)
          /\ wtask' = [wtask EXCEPT ![w] = NoTask]
          /\ enq' = enq /\ completed' = completed /\ failed' = failed
      BY <2>2, PushPresence DEF DeqBounce, LPush
    <3> QED
      BY <3>1, <1>0 DEF Goal, RecordedOnce
  <2>3. CASE ~DeqPop(w) /\ ~DeqBounce(w)
    <3>1. Aside
      BY <1>2, <2>3 DEF Dequeue, DeqCheck, DeqMarkUser, DeqMarkProcessing,
                        DeqStamp, DeqExpire, DeqSetStatus
    <3> QED
      BY <3>1, <1>00
  <2> QED
    BY <2>1, <2>2, <2>3
<1>3. ASSUME NEW w \in Workers, Ack(w) PROVE Goal
  <2>1. CASE AckRecord(w)
    <3>1. /\ ready' = ready /\ enq' = enq /\ wtask' = [wtask EXCEPT ![w] = NoTask]
          /\ t \in completed' \cup failed' => wtask[w] = t \/ t \in completed \cup failed
      BY <2>1 DEF AckRecord
    <3>2. CASE wtask[w] = t
      <4>1. /\ enq[t] = "done" /\ ~In(ready, t)
            /\ \A v \in Workers : wtask[v] = t => v = w
        BY <3>2, <1>0 DEF Once
      <4> QED
        BY <3>1, <4>1 DEF Goal, RecordedOnce
    <3>3. CASE wtask[w] # t
      BY <3>1, <3>3, <1>0 DEF Goal, RecordedOnce
    <3> QED
      BY <3>2, <3>3
  <2>2. CASE ~AckRecord(w)
    <3>1. Aside
      BY <1>3, <2>2 DEF Ack, AckUnmarkUser, AckUnmarkProcessing, AckClear, AckSetStatus
    <3> QED
      BY <3>1, <1>00
  <2> QED
    BY <2>1, <2>2
<1>4. ASSUME NEW c \in Cancellers, Cancel(c) PROVE Goal
  <2>1. In(ready', t) => In(ready, t)
    <3>1. ready' = ready \/ ready' = Without(ready, ctask[c])
      BY <1>4 DEF Cancel, CancelProceeds, CancelLoad, CancelUnmarkUser,
                  CancelUnmarkProcessing, CancelClear, CancelRemove, CancelWrite
    <3> QED
      BY <3>1, LremPresence
  <2>2. wtask' = wtask /\ completed' = completed /\ failed' = failed /\ enq' = enq
    BY <1>4 DEF Cancel, CancelProceeds, CancelLoad, CancelUnmarkUser,
                CancelUnmarkProcessing, CancelClear, CancelRemove, CancelWrite
  <2> QED
    BY <1>00, <2>1, <2>2
<1>5. ASSUME NEW k \in Cleaners, Cleanup(k) PROVE Goal
  <2>1. ktask[k] # t
    BY <1>0 DEF HandsInv
  <2>2. In(ready', t) => In(ready, t)
    <3>1. ready' = ready \/ (ktask[k] \in Tasks /\ ready' = <<ktask[k]>> \o ready)
      BY <1>5 DEF Cleanup, CleanScan, CleanUnmarkUser, CleanUnmarkProcessing,
                  CleanClear, CleanPush, CleanWrite, LPush
    <3>2. ktask[k] \in Tasks =>
            (In(<<ktask[k]>> \o ready, t) <=> ktask[k] = t \/ In(ready, t))
      BY PushPresence
    <3> QED
      BY <2>1, <3>1, <3>2
  <2>3. wtask' = wtask /\ completed' = completed /\ failed' = failed /\ enq' = enq
    BY <1>5 DEF Cleanup, CleanScan, CleanUnmarkUser, CleanUnmarkProcessing,
                CleanClear, CleanPush, CleanWrite
  <2> QED
    BY <1>00, <2>2, <2>3
<1>6. ASSUME Dies PROVE Goal
  <2>1. ASSUME NEW s \in Tasks, EnqueueDies(s) PROVE Aside
    BY <2>1 DEF EnqueueDies
  <2>2. ASSUME NEW w \in Workers, WorkerDies(w) PROVE Aside
    BY <2>2 DEF WorkerDies
  <2>3. ASSUME NEW c \in Cancellers, CancelDies(c) PROVE Aside
    BY <2>3 DEF CancelDies
  <2>4. ASSUME NEW k \in Cleaners, CleanupDies(k) PROVE Aside
    BY <2>4 DEF CleanupDies
  <2> QED
    BY <1>00, <1>6, <2>1, <2>2, <2>3, <2>4 DEF Dies
<1>7. ASSUME UNCHANGED vars PROVE Goal
  <2>1. Aside
    BY <1>7 DEF vars
  <2> QED
    BY <1>00, <2>1
<1>8. Goal
  BY <1>1, <1>2, <1>3, <1>4, <1>5, <1>6, <1>7 DEF Next
<1> QED
  BY <1>8 DEF Goal

(* What Place reads of one task is the same before and after a step.        *)
SamePlace(t) ==
  /\ t \in expiries' \cup abandoned' <=> t \in expiries \cup abandoned
  /\ In(ready, t)' <=> In(ready, t)
  /\ \A w \in Workers :
       /\ wtask'[w] = t <=> wtask[w] = t
       /\ wtask[w] = t => (wpc'[w] \in Dequeuing <=> wpc[w] \in Dequeuing)
  /\ enq'[t] = "done" <=> enq[t] = "done"
  /\ t \in completed' <=> t \in completed
  /\ t \in failed' <=> t \in failed

LEMMA SamePlaceSamePlace ==
  ASSUME NEW t, SamePlace(t)
  PROVE  Place(t)' = Place(t)
<1>1. InReady(t)' <=> InReady(t)
  BY DEF SamePlace, In, InReady
<1>2. (HeldToDequeue(t)' <=> HeldToDequeue(t)) /\ (Held(t)' <=> Held(t))
  BY DEF SamePlace, HeldToDequeue, Held
<1> QED
  BY <1>1, <1>2 DEF SamePlace, Place

(* How a step of the commands shows on the abstract queue.                  *)
LEMMA StepStutters ==
  ASSUME \A t \in Tasks : SamePlace(t), cancels' = cancels
  PROVE  UNCHANGED Abstract!vars
BY SamePlaceSamePlace DEF Abstract!vars, Stage

LEMMA StepExempts ==
  ASSUME \A t \in Tasks : SamePlace(t) \/ t \in expiries' \cup abandoned', cancels' = cancels
  PROVE  Abstract!Next
<1>1. \A t \in Tasks : Place(t)' \in {Place(t), "exempt"} /\ Place(t)' \in Abstract!Stages
  BY SamePlaceSamePlace DEF Place, Abstract!Stages
<1>2. Abstract!Exempt
  BY <1>1 DEF Stage, Abstract!Exempt
<1> QED
  BY <1>2 DEF Abstract!Next

LEMMA StepMoves ==
  ASSUME NEW s \in Tasks, \A t \in Tasks \ {s} : SamePlace(t), cancels' = cancels,
         \/ Place(s)' = Place(s)
         \/ Place(s) = "outside" /\ Place(s)' = "waiting"
         \/ Place(s) = "waiting" /\ Place(s)' = "running"
         \/ Place(s) = "running" /\ Place(s)' \in {"completed", "failed"}
         \/ Place(s) = "waiting" /\ Place(s)' = "withdrawn" /\ s \in cancels
  PROVE  [Abstract!Next]_Abstract!vars
<1>1. Stage' = [Stage EXCEPT ![s] = Place(s)'] /\ Stage[s] = Place(s)
  BY SamePlaceSamePlace DEF Stage
<1>2. CASE Place(s)' = Place(s)
  BY <1>2, SamePlaceSamePlace DEF Abstract!vars, Stage
<1>3. ASSUME NEW to, Place(s)' = to PROVE Abstract!Move(s, Place(s), to)
  BY <1>1, <1>3 DEF Abstract!Move
<1> QED
  BY <1>2, <1>3 DEF Abstract!Next, Abstract!Accept, Abstract!Start, Abstract!Finish,
     Abstract!Withdraw

RefInv ==
  /\ TypeOK /\ HandsInv /\ PlaceInv /\ RecordedInv /\ RecordBeforeReady

LEMMA EnqueueRefines ==
  ASSUME RefInv, NEW s \in Tasks, Enqueue(s) \/ TimeoutPasses(s) \/ KeyExpires(s)
  PROVE  [Abstract!Next]_Abstract!vars
<1> USE NoTaskAssumption
    DEF RefInv, TypeOK, store, visibility, workerVars, cancelVars, cleanVars, history
<1>1. CASE EnqPush(s)
  <2>1. /\ ready' = <<s>> \o ready /\ enq' = [enq EXCEPT ![s] = "done"]
        /\ enq[s] = "stored" /\ cancels' = cancels
        /\ UNCHANGED <<wpc, wtask, completed, failed, expiries, abandoned>>
    BY <1>1 DEF EnqPush, LPush
  <2>2. \A t \in Tasks : In(ready', t) <=> s = t \/ In(ready, t)
    BY <2>1, PushPresence
  <2>3. \A t \in Tasks \ {s} : SamePlace(t)
    BY <2>1, <2>2 DEF SamePlace
  <2>4. CASE s \in expiries \cup abandoned
    <3>1. Place(s)' = Place(s)
      BY <2>1, <2>4 DEF Place
    <3> QED
      BY <2>1, <2>3, <3>1, StepMoves
  <2>5. CASE s \notin expiries \cup abandoned
    <3>1. ~In(ready, s) /\ \A w \in Workers : wtask[w] # s
      BY <2>1, <2>5 DEF PlaceInv, Once
    <3>2. Place(s) = "outside"
      BY <2>1, <2>5, <3>1 DEF Place, InReady, In, HeldToDequeue, Held
    <3>3. InReady(s)'
      BY <2>1, <2>2 DEF InReady, In
    <3>4. Place(s)' = "waiting"
      BY <2>1, <2>5, <3>3 DEF Place
    <3> QED
      BY <2>1, <2>3, <3>2, <3>4, StepMoves
  <2> QED
    BY <2>4, <2>5
<1>2. CASE ~EnqPush(s)
  <2>1. /\ UNCHANGED <<ready, wpc, wtask, completed, failed, expiries, abandoned, cancels>>
        /\ \A t \in Tasks : enq'[t] = "done" <=> enq[t] = "done"
    BY <1>2 DEF Enqueue, EnqCheckUser, EnqCheckGlobal, EnqStore, TimeoutPasses, KeyExpires
  <2>2. \A t \in Tasks : SamePlace(t)
    BY <2>1 DEF SamePlace
  <2> QED
    BY <2>1, <2>2, StepStutters
<1> QED
  BY <1>1, <1>2

LEMMA DequeueRefines ==
  ASSUME RefInv, NEW w \in Workers, Dequeue(w)
  PROVE  [Abstract!Next]_Abstract!vars
<1> USE NoTaskAssumption
    DEF RefInv, TypeOK, store, visibility, workerVars, cancelVars, cleanVars, history
<1> DEFINE Rest == UNCHANGED <<enq, completed, failed, expiries, abandoned, cancels>>
<1>1. CASE DeqPop(w)
  <2>0. PICK s \in Tasks : s = ready[Len(ready)]
    BY <1>1 DEF DeqPop
  <2>1. /\ Rest /\ ready # <<>> /\ wtask[w] = NoTask
        /\ wtask' = [wtask EXCEPT ![w] = s] /\ wpc' = [wpc EXCEPT ![w] = "popped"]
    BY <1>1, <2>0 DEF DeqPop
  <2>2. /\ In(ready, s)
        /\ \A t \in Tasks : In(ready, t) <=> s = t \/ In(ready', t)
    BY <1>1, <2>0, PopPresence DEF DeqPop
  <2>4. \A t \in Tasks \ {s} : SamePlace(t)
    BY <2>1, <2>2 DEF SamePlace
  <2>5. HeldToDequeue(s)' /\ InReady(s)
    BY <2>1, <2>2 DEF HeldToDequeue, Dequeuing, InReady, In
  <2>6. Place(s)' = Place(s)
    BY <2>1, <2>5 DEF Place
  <2> QED
    BY <2>1, <2>4, <2>6, StepMoves
<1>2. CASE DeqBounce(w)
  <2>0. PICK s \in Tasks : s = wtask[w]
    BY <1>2 DEF DeqBounce
  <2>1. /\ Rest /\ s = wtask[w] /\ wpc[w] = "bounce" /\ ready' = <<s>> \o ready
        /\ wtask' = [wtask EXCEPT ![w] = NoTask] /\ wpc' = [wpc EXCEPT ![w] = "idle"]
    BY <1>2, <2>0 DEF DeqBounce, LPush
  <2>2. \A t \in Tasks : In(ready', t) <=> s = t \/ In(ready, t)
    BY <2>1, PushPresence
  <2>4. \A t \in Tasks \ {s} : SamePlace(t)
    BY <2>1, <2>2 DEF SamePlace
  <2>5. HeldToDequeue(s) /\ InReady(s)'
    BY <2>1, <2>2 DEF HeldToDequeue, Dequeuing, InReady, In
  <2>6. Place(s)' = Place(s)
    BY <2>1, <2>5 DEF Place
  <2> QED
    BY <2>1, <2>4, <2>6, StepMoves
<1>3. CASE DeqSetStatus(w)
  <2>0. PICK s \in Tasks : s = wtask[w]
    BY <1>3 DEF DeqSetStatus
  <2>1. /\ Rest /\ wpc[w] = "set_status" /\ ready' = ready
        /\ wtask' = wtask /\ wpc' = [wpc EXCEPT ![w] = "running"] /\ wtask[w] = s
    BY <1>3, <2>0 DEF DeqSetStatus
  <2>2. \A t \in Tasks \ {s} : SamePlace(t)
    BY <2>1 DEF SamePlace
  <2>3. CASE s \in expiries \cup abandoned
    <3>1. Place(s)' = Place(s)
      BY <2>1, <2>3 DEF Place
    <3> QED
      BY <2>1, <2>2, <3>1, StepMoves
  <2>4. CASE s \notin expiries \cup abandoned
    <3>1. /\ ~In(ready, s) /\ \A v \in Workers : wtask[v] = s => v = w
      BY <2>1, <2>4 DEF PlaceInv, Once
    <3>2. HeldToDequeue(s) /\ Held(s)' /\ ~HeldToDequeue(s)' /\ ~InReady(s)'
      BY <2>1, <3>1 DEF HeldToDequeue, Held, Dequeuing, InReady, In
    <3>3. Place(s) = "waiting" /\ Place(s)' = "running"
      BY <2>1, <2>4, <3>2 DEF Place
    <3> QED
      BY <2>1, <2>2, <3>3, StepMoves
  <2> QED
    BY <2>3, <2>4
<1>4. CASE DeqCheck(w)
  <2>1. status[wtask[w]] # "none"
    BY <1>4 DEF DeqCheck, RecordBeforeReady
  <2>2. /\ Rest /\ ready' = ready /\ wtask' = wtask
        /\ \A v \in Workers : wpc'[v] \in Dequeuing <=> wpc[v] \in Dequeuing
    BY <1>4, <2>1 DEF DeqCheck, Dequeuing
  <2>3. \A t \in Tasks : SamePlace(t)
    BY <2>2 DEF SamePlace
  <2> QED
    BY <2>2, <2>3, StepStutters
<1>5. CASE DeqMarkUser(w) \/ DeqMarkProcessing(w) \/ DeqStamp(w) \/ DeqExpire(w)
  <2>1. /\ Rest /\ ready' = ready /\ wtask' = wtask
        /\ \A v \in Workers : wpc'[v] \in Dequeuing <=> wpc[v] \in Dequeuing
    BY <1>5 DEF DeqMarkUser, DeqMarkProcessing, DeqStamp, DeqExpire, Dequeuing
  <2>2. \A t \in Tasks : SamePlace(t)
    BY <2>1 DEF SamePlace
  <2> QED
    BY <2>1, <2>2, StepStutters
<1> QED
  BY <1>1, <1>2, <1>3, <1>4, <1>5 DEF Dequeue

LEMMA AckRefines ==
  ASSUME RefInv, NEW w \in Workers, Ack(w)
  PROVE  [Abstract!Next]_Abstract!vars
<1> USE NoTaskAssumption
    DEF RefInv, TypeOK, store, visibility, workerVars, cancelVars, cleanVars, history
<1>1. CASE AckRecord(w)
  <2>0. PICK s \in Tasks : s = wtask[w]
    BY <1>1 DEF AckRecord
  <2>1. /\ UNCHANGED <<ready, enq, expiries, abandoned, cancels>>
        /\ wpc[w] \in {"completed", "failed"} /\ wtask[w] = s
        /\ wtask' = [wtask EXCEPT ![w] = NoTask] /\ wpc' = [wpc EXCEPT ![w] = "idle"]
        /\ completed' = IF wpc[w] = "completed" THEN completed \cup {s} ELSE completed
        /\ failed' = IF wpc[w] = "failed" THEN failed \cup {s} ELSE failed
    BY <1>1, <2>0 DEF AckRecord
  <2>2. \A t \in Tasks \ {s} : SamePlace(t)
    BY <2>1 DEF SamePlace
  <2>3. CASE s \in expiries \cup abandoned
    <3>1. Place(s)' = Place(s)
      BY <2>1, <2>3 DEF Place
    <3> QED
      BY <2>1, <2>2, <3>1, StepMoves
  <2>4. CASE s \notin expiries \cup abandoned
    <3>1. /\ ~In(ready, s) /\ enq[s] = "done"
          /\ \A v \in Workers : wtask[v] = s => v = w
          /\ s \notin completed \cup failed
      BY <2>1, <2>4 DEF PlaceInv, Once, RecordedInv, RecordedOnce
    <3>2. /\ ~InReady(s) /\ ~HeldToDequeue(s) /\ Held(s)
          /\ ~InReady(s)' /\ ~HeldToDequeue(s)' /\ ~Held(s)'
      BY <2>1, <3>1 DEF HeldToDequeue, Held, Dequeuing, InReady, In
    <3>3. Place(s) = "running"
      BY <2>4, <3>2 DEF Place
    <3>4. Place(s)' \in {"completed", "failed"}
      BY <2>1, <2>4, <3>1, <3>2 DEF Place
    <3> QED
      BY <2>1, <2>2, <3>3, <3>4, StepMoves
  <2> QED
    BY <2>3, <2>4
<1>2. CASE ~AckRecord(w)
  <2>1. /\ UNCHANGED <<ready, wtask, enq, completed, failed, expiries, abandoned, cancels>>
        /\ \A v \in Workers : wpc'[v] \in Dequeuing <=> wpc[v] \in Dequeuing
    BY <1>2, OutcomesAssumption DEF Ack, AckUnmarkUser, AckUnmarkProcessing, AckClear,
                                    AckSetStatus, Dequeuing
  <2>2. \A t \in Tasks : SamePlace(t)
    BY <2>1 DEF SamePlace
  <2> QED
    BY <2>1, <2>2, StepStutters
<1> QED
  BY <1>1, <1>2

LEMMA CancelRefines ==
  ASSUME RefInv, NEW c \in Cancellers, Cancel(c)
  PROVE  [Abstract!Next]_Abstract!vars
<1> USE NoTaskAssumption
    DEF RefInv, TypeOK, store, visibility, workerVars, cancelVars, cleanVars, history
<1> DEFINE Rest == UNCHANGED <<wpc, wtask, enq, completed, failed, expiries, abandoned>>
<1>1. ASSUME NEW s \in Tasks, CancelLoad(c, s) PROVE [Abstract!Next]_Abstract!vars
  <2>1. Rest /\ ready' = ready /\ cancels' = cancels \cup {s}
    BY <1>1 DEF CancelLoad
  <2>2. \A t \in Tasks : SamePlace(t)
    BY <2>1 DEF SamePlace
  <2>3. Abstract!Request(s)
    BY <2>1, <2>2, SamePlaceSamePlace DEF Abstract!Request, Stage
  <2> QED
    BY <2>3 DEF Abstract!Next
<1>2. CASE CancelRemove(c)
  <2>0. PICK s \in Tasks : s = ctask[c]
    BY <1>2 DEF CancelRemove
  <2>1. /\ Rest /\ cancels' = cancels /\ s \in cancels
        /\ ready' = Without(ready, s)
    BY <1>2, <2>0 DEF CancelRemove, HandsInv
  <2>2. \A t \in Tasks : In(ready', t) <=> s # t /\ In(ready, t)
    BY <2>1, LremPresence
  <2>3. \A t \in Tasks \ {s} : SamePlace(t)
    BY <2>1, <2>2 DEF SamePlace
  <2>4. CASE s \in expiries \cup abandoned \/ ~In(ready, s)
    <3>1. Place(s)' = Place(s)
      <4>1. CASE s \in expiries \cup abandoned
        BY <2>1, <4>1 DEF Place
      <4>2. CASE ~In(ready, s)
        <5>1. SamePlace(s)
          BY <2>1, <2>2, <4>2 DEF SamePlace
        <5> QED
          BY <5>1, SamePlaceSamePlace
      <4> QED
        BY <2>4, <4>1, <4>2
    <3> QED
      BY <2>1, <2>3, <3>1, StepMoves
  <2>5. CASE s \notin expiries \cup abandoned /\ In(ready, s)
    <3>1. /\ enq[s] = "done" /\ s \notin completed \cup failed
          /\ \A v \in Workers : wtask[v] # s
      BY <2>1, <2>5 DEF PlaceInv, Once, RecordedInv, RecordedOnce
    <3>2. InReady(s) /\ ~InReady(s)' /\ ~HeldToDequeue(s)' /\ ~Held(s)'
      BY <2>1, <2>2, <2>5, <3>1 DEF HeldToDequeue, Held, InReady, In
    <3>3. Place(s) = "waiting" /\ Place(s)' = "withdrawn"
      BY <2>1, <2>5, <3>1, <3>2 DEF Place
    <3> QED
      BY <2>1, <2>3, <3>3, StepMoves
  <2> QED
    BY <2>4, <2>5
<1>3. CASE CancelUnmarkUser(c) \/ CancelUnmarkProcessing(c) \/ CancelClear(c) \/ CancelWrite(c)
  <2>1. Rest /\ ready' = ready /\ cancels' = cancels
    BY <1>3 DEF CancelUnmarkUser, CancelUnmarkProcessing, CancelClear, CancelWrite
  <2>2. \A t \in Tasks : SamePlace(t)
    BY <2>1 DEF SamePlace
  <2> QED
    BY <2>1, <2>2, StepStutters
<1> QED
  BY <1>1, <1>2, <1>3 DEF Cancel, CancelProceeds

LEMMA CleanupRefines ==
  ASSUME RefInv, NEW k \in Cleaners, Cleanup(k)
  PROVE  [Abstract!Next]_Abstract!vars
<1> USE NoTaskAssumption
    DEF RefInv, TypeOK, store, visibility, workerVars, cancelVars, cleanVars, history
<1>1. /\ UNCHANGED <<wpc, wtask, enq, completed, failed, abandoned, cancels>>
      /\ expiries \subseteq expiries'
  BY DEF Cleanup, CleanScan, CleanUnmarkUser, CleanUnmarkProcessing, CleanClear,
         CleanPush, CleanWrite
<1>2. \A t \in Tasks \ expiries : In(ready', t) <=> In(ready, t)
  <2>1. CASE CleanPush(k)
    <3>1. /\ ktask[k] \in Tasks /\ ktask[k] \in expiries
          /\ ready' = <<ktask[k]>> \o ready
      BY <2>1 DEF CleanPush, LPush, HandsInv
    <3>2. \A t \in Tasks : In(ready', t) <=> ktask[k] = t \/ In(ready, t)
      BY <3>1, PushPresence
    <3> QED
      BY <3>1, <3>2
  <2>2. CASE ~CleanPush(k)
    BY <2>2 DEF Cleanup, CleanScan, CleanUnmarkUser, CleanUnmarkProcessing, CleanClear,
                CleanWrite
  <2> QED
    BY <2>1, <2>2
<1>3. \A t \in Tasks : SamePlace(t) \/ t \in expiries' \cup abandoned'
  BY <1>1, <1>2 DEF SamePlace
<1> QED
  BY <1>1, <1>3, StepExempts

LEMMA DeathRefines ==
  ASSUME RefInv, Dies
  PROVE  Abstract!Next
<1> USE NoTaskAssumption
    DEF RefInv, TypeOK, store, visibility, workerVars, cancelVars, cleanVars, history, Abandon
<1> DEFINE Goal == \A t \in Tasks : SamePlace(t) \/ t \in expiries' \cup abandoned'
<1>1. ASSUME NEW s \in Tasks, EnqueueDies(s) PROVE Goal
  BY <1>1 DEF EnqueueDies, SamePlace
<1>2. ASSUME NEW w \in Workers, WorkerDies(w) PROVE Goal
  BY <1>2 DEF WorkerDies, SamePlace
<1>3. ASSUME NEW c \in Cancellers, CancelDies(c) PROVE Goal
  BY <1>3 DEF CancelDies, SamePlace
<1>4. ASSUME NEW k \in Cleaners, CleanupDies(k) PROVE Goal
  BY <1>4 DEF CleanupDies, SamePlace
<1>5. cancels' = cancels
  BY DEF Dies, EnqueueDies, WorkerDies, CancelDies, CleanupDies
<1> QED
  BY <1>1, <1>2, <1>3, <1>4, <1>5, StepExempts DEF Dies

(* TaskQueue implements AbstractQueue: a task is run at most once, and      *)
(* leaves the queue unrun only on request, unless it timed out or a         *)
(* coroutine died on it.                                                    *)
THEOREM QueueImplementsAbstract == Spec => RunsAtMostOnce
<1>1. Init => Abstract!Init
  BY NoTaskAssumption
     DEF Init, Abstract!Init, Stage, Place, InReady, HeldToDequeue, Held
<1>2. Init => RecordedInv
  BY DEF Init, RecordedInv, RecordedOnce
<1>3. RefInv /\ [Next]_vars => [Abstract!Next]_Abstract!vars
  <2> SUFFICES ASSUME RefInv, [Next]_vars PROVE [Abstract!Next]_Abstract!vars
    OBVIOUS
  <2>1. CASE UNCHANGED vars
    <3>1. \A t \in Tasks : SamePlace(t)
      BY <2>1 DEF SamePlace, vars, store, workerVars, history
    <3> QED
      BY <2>1, <3>1, StepStutters DEF vars, history
  <2>2. CASE Next
    BY <2>2, EnqueueRefines, DequeueRefines, AckRefines, CancelRefines,
       CleanupRefines, DeathRefines DEF Next
  <2> QED
    BY <2>1, <2>2
<1>4. TypeOK /\ HandsInv /\ PlaceInv /\ RecordedInv /\ RecordBeforeReady => RefInv
  BY DEF RefInv
<1> QED
  BY <1>1, <1>2, <1>3, <1>4, RecordedStep, PlaceCorrect, RecordsComeFirst, PTL
  DEF Spec, RunsAtMostOnce, Abstract!Spec
=============================================================================
