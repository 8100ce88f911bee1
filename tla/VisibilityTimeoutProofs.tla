----------------------- MODULE VisibilityTimeoutProofs -----------------------
(* The clock arithmetic of a visibility key, for every resolution of the    *)
(* clock, every timeout and however long it runs.                           *)
EXTENDS VisibilityTimeout, TLAPS

(* Whole seconds: being more than d seconds apart on the truncated clock    *)
(* means being more than d * Sec ticks apart.                               *)
LEMMA SecondsApart ==
  ASSUME NEW a \in Nat, NEW b \in Nat, NEW d \in Nat,
         Seconds(a) > Seconds(b) + d
  PROVE  a > b + d * Sec
<1> DEFINE p == Seconds(a)  q == Seconds(b)
<1>1. /\ p \in Nat /\ q \in Nat
      /\ a >= Sec * p /\ b < Sec * q + Sec
  BY SecAssumption DEF Seconds
<1>2. p >= q + d + 1
  BY <1>1
<1> HIDE DEF p, q
<1>3. Sec * p >= Sec * (q + d + 1)
  BY <1>1, <1>2, SecAssumption
<1>4. Sec * (q + d + 1) = Sec * q + d * Sec + Sec
  BY <1>1, SecAssumption
<1>5. d * Sec \in Nat /\ Sec * q \in Nat /\ Sec * p \in Nat /\ Sec \in Nat
  BY <1>1, SecAssumption
<1> QED
  BY <1>1, <1>3, <1>4, <1>5

(* What a key that exists says of the past.                                 *)
KeyInv ==
  /\ TypeOK
  /\ key # "none" => timeoutAt = Seconds(stampedAt) + Timeout
  /\ key = "ttl" => expireAt = expireSetAt + Timeout * Sec /\ now < expireAt

LEMMA ProductType == Timeout * Sec \in Nat /\ Timeout * Sec > 0
<1>1. Timeout >= 1 /\ Sec >= 1 /\ Timeout \in Nat /\ Sec \in Nat
  BY SecAssumption, TimeoutAssumption
<1>2. Timeout * Sec \in Nat
  BY <1>1
<1>3. Timeout * Sec >= 1 * Sec
  BY <1>1
<1> QED
  BY <1>1, <1>2, <1>3

LEMMA SecondsType == \A a \in Nat : Seconds(a) \in Nat
BY SecAssumption DEF Seconds

LEMMA KeyInit == Init => KeyInv
BY DEF Init, KeyInv, TypeOK

LEMMA KeyStep == KeyInv /\ [Next]_vars => KeyInv'
<1> SUFFICES ASSUME KeyInv, [Next]_vars PROVE KeyInv'
  OBVIOUS
<1> USE DEF KeyInv, TypeOK, clock, keyVars, DelKey
<1>1. CASE Stamp
  <2>1. Seconds(now) + Timeout \in Nat
    BY SecondsType, TimeoutAssumption
  <2> QED
    BY <1>1, <2>1 DEF Stamp
<1>2. CASE Expire
  <2> DEFINE length == Timeout * Sec
  <2>1. length \in Nat /\ length > 0
    BY ProductType
  <2>2. /\ task' = "processing" /\ key' = "ttl"
        /\ expireAt' = now + length /\ expireSetAt' = now
        /\ timeoutAt = Seconds(stampedAt) + Timeout
        /\ UNCHANGED <<now, cleanup, worker, timeoutAt, stampedAt>>
    BY <1>2 DEF Expire
  <2> HIDE DEF length
  <2>3. TypeOK'
    BY <1>2, <2>1, <2>2
  <2>4. expireAt' = expireSetAt' + length /\ now' < expireAt'
    BY <2>1, <2>2 DEF TypeOK
  <2> QED
    BY <2>2, <2>3, <2>4 DEF length
<1>3. CASE Ack
  BY <1>3 DEF Ack
<1>4. CASE WorkerDies
  BY <1>4 DEF WorkerDies
<1>5. CASE Scan
  BY <1>5 DEF Scan
<1>6. CASE Tick
  BY <1>6 DEF Tick
<1>7. CASE UNCHANGED vars
  BY <1>7 DEF vars
<1> QED
  BY <1>1, <1>2, <1>3, <1>4, <1>5, <1>6, <1>7 DEF Next

(* A key agrees with what was written into it, and is there no longer than *)
(* its TTL.                                                                 *)
THEOREM KeyCorrect == Spec => []KeyInv
BY KeyInit, KeyStep, PTL DEF Spec

(* The type invariant of the key, the clock and the delivery.               *)
THEOREM KeyTyped == Spec => []TypeOK
<1>1. KeyInv => TypeOK
  BY DEF KeyInv
<1> QED
  BY <1>1, KeyCorrect, PTL

(* The TTL of a key stamped and expired within one second always ends       *)
(* before a scan can find the key overdue: with these constants equal, the  *)
(* recovery of a dead worker's task depends on the EXPIRE being late.       *)
THEOREM TtlAlwaysWins == Spec => []TtlWins
<1>1. KeyInv => TtlWins
  <2> SUFFICES ASSUME KeyInv, key = "ttl", Seconds(expireSetAt) = Seconds(stampedAt),
                      Overdue
               PROVE  FALSE
    BY DEF TtlWins
  <2>1. Seconds(now) > Seconds(expireSetAt) + Timeout
    BY DEF KeyInv, Overdue
  <2>2. now > expireSetAt + Timeout * Sec
    BY <2>1, SecondsApart, TimeoutAssumption DEF KeyInv, TypeOK
  <2>3. now < expireSetAt + Timeout * Sec
    BY DEF KeyInv
  <2> QED
    BY <2>2, <2>3, ProductType DEF KeyInv, TypeOK
<1> QED
  BY <1>1, KeyCorrect, PTL

(* No scan takes a task from its worker before the timeout has passed.      *)
THEOREM NeverStolenEarly == Spec => NotStolenEarly
<1>1. KeyInv /\ [Next]_vars =>
        [(task # "ready" /\ task' = "ready") => now > stampedAt + Timeout * Sec]_vars
  <2> SUFFICES ASSUME KeyInv, Next, task # "ready", task' = "ready"
               PROVE  now > stampedAt + Timeout * Sec
    OBVIOUS
  <2>1. Scan /\ Overdue
    BY DEF Next, Stamp, Expire, Ack, WorkerDies, Scan, Tick, keyVars, clock
  <2>2. Seconds(now) > Seconds(stampedAt) + Timeout
    BY <2>1 DEF KeyInv, Overdue
  <2> QED
    BY <2>2, SecondsApart, TimeoutAssumption DEF KeyInv, TypeOK
<1> QED
  BY <1>1, KeyCorrect, PTL DEF Spec, NotStolenEarly

-----------------------------------------------------------------------------
\* What a scan can find overdue, and when.
OnlyLateKeys ==
  [][task # "ready" /\ task' = "ready" =>
       /\ Seconds(stampedAt) + Timeout < Seconds(now)
       /\ \/ key = "plain"
          \/ /\ Seconds(stampedAt) # Seconds(expireSetAt)
             /\ now < expireSetAt + Timeout * Sec]_vars

\* Without its key a task whose worker died is out of every scan's sight.
LostForGood ==
  [][worker = "dead" /\ key = "none" => UNCHANGED <<task, worker, key>>]_vars

(* cleanup_expired_tasks takes back two kinds of tasks only: those whose    *)
(* key never got its TTL, and those whose EXPIRE came in a later second     *)
(* than the HSET, and these only from the whole second after the timeout    *)
(* until the TTL ends, fewer ticks than the EXPIRE was late.                *)
THEOREM RecoveryNeedsALateExpire == Spec => OnlyLateKeys
<1> DEFINE Late == \/ key = "plain"
                   \/ /\ Seconds(stampedAt) # Seconds(expireSetAt)
                      /\ now < expireSetAt + Timeout * Sec
<1>1. KeyInv /\ TtlWins /\ [Next]_vars =>
        [task # "ready" /\ task' = "ready" =>
           Seconds(stampedAt) + Timeout < Seconds(now) /\ Late]_vars
  <2> SUFFICES ASSUME KeyInv, TtlWins, Next, task # "ready", task' = "ready"
               PROVE  Seconds(stampedAt) + Timeout < Seconds(now) /\ Late
    OBVIOUS
  <2>1. Scan /\ Overdue
    BY DEF Next, Stamp, Expire, Ack, WorkerDies, Scan, Tick, keyVars, clock
  <2>2. key \in {"plain", "ttl"} /\ Seconds(now) > Seconds(stampedAt) + Timeout
    BY <2>1 DEF KeyInv, TypeOK, Overdue
  <2>3. Seconds(stampedAt) \in Nat /\ Seconds(now) \in Nat /\ Timeout \in Nat
    BY SecondsType, TimeoutAssumption DEF KeyInv, TypeOK
  <2>4. ASSUME key = "ttl"
        PROVE  Seconds(stampedAt) # Seconds(expireSetAt) /\ now < expireSetAt + Timeout * Sec
    BY <2>1, <2>4 DEF KeyInv, TtlWins
  <2> QED
    BY <2>2, <2>3, <2>4
<1> QED
  BY <1>1, KeyCorrect, TtlAlwaysWins, PTL DEF Spec, OnlyLateKeys

(* Once the key of a dead worker's task is gone, whether its TTL ended or   *)
(* not, nothing brings the task back: what run VisibilityRecovery shows is  *)
(* no delay.                                                                *)
THEOREM ALostTaskStaysLost == Spec => LostForGood
<1>1. [Next]_vars =>
        [worker = "dead" /\ key = "none" => UNCHANGED <<task, worker, key>>]_vars
  BY DEF Next, Stamp, Expire, Ack, WorkerDies, Scan, Tick, Overdue, DelKey, keyVars, clock
<1> QED
  BY <1>1, PTL DEF Spec, LostForGood
=============================================================================
