-------------------------- MODULE VisibilityTimeout --------------------------
(***************************************************************************)
(* The clock of one visibility key, which TaskQueue leaves abstract:       *)
(* set_visibility_timeout writes timeout_at in whole seconds and gives the *)
(* key a TTL of the same length; cleanup_expired_tasks compares timeout_at *)
(* with the whole seconds of its own clock.  Time is counted in ticks, Sec *)
(* of them to a second, and the cleanup is as eager as can be: one scan in *)
(* every tick.  One worker delivers one task, again and again.             *)
(***************************************************************************)
EXTENDS Integers

CONSTANTS Sec,      \* ticks in a second
          Timeout,  \* VISIBILITY_TIMEOUT_SECONDS
          MaxTime   \* bound: ticks a behaviour lasts

ASSUME SecAssumption == Sec \in Nat \ {0}
ASSUME TimeoutAssumption == Timeout \in Nat \ {0}

VARIABLES now,        \* the clock, in ticks
          cleanup,    \* "due" or "done" in this tick
          task,       \* "ready", "stamping", "processing", "done"
          worker,     \* "up", or "dead" with the task in its hands
          key,        \* the visibility key: "none", "plain", or with a TTL: "ttl"
          timeoutAt,  \* its timeout_at field, in seconds
          expireAt,   \* when its TTL ends, in ticks
          stampedAt, expireSetAt  \* history: ticks of the HSET and the EXPIRE

clock == <<now, cleanup>>
keyVars == <<key, timeoutAt, expireAt, stampedAt, expireSetAt>>
vars == <<clock, task, worker, keyVars>>

Seconds(tick) == tick \div Sec   \* int(time.time())

Init ==
  /\ now = 0 /\ cleanup = "due"
  /\ task = "ready" /\ worker = "up"
  /\ key = "none"
  /\ timeoutAt = 0 /\ expireAt = 0 /\ stampedAt = 0 /\ expireSetAt = 0

(* dequeue_task up to the HSET of set_visibility_timeout.                   *)
Stamp ==
  /\ task = "ready" /\ worker = "up"
  /\ task' = "stamping"
  /\ key' = "plain"
  /\ timeoutAt' = Seconds(now) + Timeout
  /\ stampedAt' = now
  /\ UNCHANGED <<clock, worker, expireAt, expireSetAt>>

MutExpire ==  \* the key is kept for a while after the timeout
  /\ task = "stamping" /\ worker = "up"
  /\ task' = "processing"
  /\ key' = "ttl"
  /\ expireAt' = now + (Timeout + 1) * Sec
  /\ expireSetAt' = now
  /\ UNCHANGED <<clock, worker, timeoutAt, stampedAt>>

MutExpireForgotten ==  \* the key gets no TTL
  /\ task = "stamping" /\ worker = "up"
  /\ task' = "processing"
  /\ UNCHANGED <<clock, worker, keyVars>>

(* The EXPIRE that follows, in a round trip of its own.                     *)
Expire ==
  /\ task = "stamping" /\ worker = "up"
  /\ task' = "processing"
  /\ key' = "ttl"
  /\ expireAt' = now + Timeout * Sec
  /\ expireSetAt' = now
  /\ UNCHANGED <<clock, worker, timeoutAt, stampedAt>>

DelKey == key' = "none"

(* ack_task, or anything else that ends the delivery.                       *)
Ack ==
  /\ task = "processing" /\ worker = "up"
  /\ task' = "done"
  /\ DelKey
  /\ UNCHANGED <<clock, worker, timeoutAt, expireAt, stampedAt, expireSetAt>>

WorkerDies ==
  /\ task \in {"stamping", "processing"} /\ worker = "up"
  /\ worker' = "dead"
  /\ UNCHANGED <<clock, task, keyVars>>

MutOverdue == key # "none" /\ Seconds(now) >= timeoutAt - 1   \* times out a second early

Overdue == key # "none" /\ Seconds(now) > timeoutAt

(* cleanup_expired_tasks: an overdue task goes back on the ready list, where *)
(* another worker finds it.                                                 *)
Scan ==
  /\ cleanup = "due"
  /\ cleanup' = "done"
  /\ IF Overdue
     THEN task' = "ready" /\ worker' = "up" /\ DelKey
     ELSE UNCHANGED <<task, worker, key>>
  /\ UNCHANGED <<now, timeoutAt, expireAt, stampedAt, expireSetAt>>

(* Redis deletes a key whose TTL has ended before any command can see it.   *)
Tick ==
  /\ cleanup = "done" /\ now < MaxTime
  /\ now' = now + 1
  /\ cleanup' = "due"
  /\ IF key = "ttl" /\ now' >= expireAt THEN DelKey ELSE UNCHANGED key
  /\ UNCHANGED <<task, worker, timeoutAt, expireAt, stampedAt, expireSetAt>>

Next == Stamp \/ Expire \/ Ack \/ WorkerDies \/ Scan \/ Tick

Spec == Init /\ [][Next]_vars

-----------------------------------------------------------------------------
TypeOK ==
  /\ now \in Nat /\ cleanup \in {"due", "done"}
  /\ task \in {"ready", "stamping", "processing", "done"}
  /\ worker \in {"up", "dead"}
  /\ key \in {"none", "plain", "ttl"}
  /\ timeoutAt \in Nat /\ expireAt \in Nat
  /\ stampedAt \in Nat /\ expireSetAt \in Nat
  /\ key = "plain" <=> task = "stamping"
  /\ key = "ttl" => task = "processing"

(* The TTL wins: unless the EXPIRE fell into a later second than the HSET,  *)
(* the key is gone before any scan could find it overdue, so that scan      *)
(* never re-queues anything.                                                *)
TtlWins ==
  key = "ttl" /\ Seconds(expireSetAt) = Seconds(stampedAt) => ~Overdue

(* A task is never taken from a worker before Timeout seconds have passed.  *)
NotStolenEarly ==
  [][(task # "ready" /\ task' = "ready") => now > stampedAt + Timeout * Sec]_vars

(* What cleanup_expired_tasks is for ("handle the expired tasks", "add it   *)
(* to the queue again"): a task whose worker died keeps its key until a     *)
(* scan has put it back.                                                    *)
DeadWorkersTaskIsRecoverable == worker = "dead" => key # "none"
=============================================================================
