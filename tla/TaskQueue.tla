------------------------------ MODULE TaskQueue ------------------------------
(***************************************************************************)
(* The Redis task queue of app/services/queue_service.py, with the helpers *)
(* of app/services/queue/.  Every action is one Redis command of one       *)
(* coroutine: between two of them any other client may run.  Reads of      *)
(* fields that are never rewritten (the task's owner) are merged with the  *)
(* command that follows.                                                   *)
(*                                                                         *)
(*   producers   enqueue_task, one call per task (ids are fresh uuids)     *)
(*   workers     dequeue_task, the analysis, ack_task, one task at a time  *)
(*   cancellers  cancel_task                                               *)
(*   cleaners    cleanup_expired_tasks                                     *)
(*                                                                         *)
(* Time is abstract here: a visibility key may become overdue, and a key   *)
(* with a TTL may vanish, at any moment (VisibilityTimeout has the clock). *)
(***************************************************************************)
EXTENDS Naturals, Sequences, FiniteSets

CONSTANTS Tasks,        \* the ids enqueue_task hands out
          Users, Owner, \* Owner[t] is the "user" field of task t
          Workers, Cancellers, Cleaners,
          UserLimit, GlobalLimit,
          NoTask,
          Outcomes,     \* bound: how an analysis may end, both ways in the code
          MaxCrashes    \* bound: how many coroutines die half way

ASSUME OwnerAssumption == Owner \in [Tasks -> Users]
ASSUME LimitAssumption == UserLimit \in Nat \ {0} /\ GlobalLimit \in Nat \ {0}
ASSUME WorkersAssumption == IsFiniteSet(Workers)
ASSUME NoTaskAssumption == NoTask \notin Tasks
ASSUME OutcomesAssumption == Outcomes \subseteq {"completed", "failed"}
ASSUME CrashAssumption == MaxCrashes \in Nat

VARIABLES
  ready,           \* READY_LIST; LPUSH adds at the left, RPOP takes the right
  status,          \* the "status" field of each task hash, "none": no hash
  userProcessing,  \* USER_PROCESSING_PREFIX + user
  processing,      \* SET_PROCESSING
  completed, failed,      \* SET_COMPLETED, SET_FAILED
  visible, overdue, ttl,  \* visibility keys: present, past timeout_at, EXPIREd
  enq,             \* progress of the enqueue_task call of each task
  wpc, wtask,      \* progress of each worker and the task in its hands
  cpc, ctask,      \* the same for each cancel_task call
  kpc, ktask, kexp,       \* the same for each cleanup, with the ids to handle
  cancels,         \* history: tasks some cancel_task call has loaded
  expiries,        \* history: tasks some cleanup found overdue
  abandoned,       \* history: tasks on which some coroutine died
  crashes

store == <<ready, status, userProcessing, processing, completed, failed,
           visible, overdue, ttl>>
visibility == <<visible, overdue, ttl>>
workerVars == <<wpc, wtask>>
cancelVars == <<cpc, ctask>>
cleanVars == <<kpc, ktask, kexp>>
history == <<cancels, expiries, abandoned, crashes>>
vars == <<store, enq, workerVars, cancelVars, cleanVars, history>>

Statuses == {"none", "queued", "processing", "completed", "failed", "cancelled"}
EnqPCs == {"new", "user_ok", "global_ok", "stored", "done", "rejected", "died"}
Dequeuing == {"popped", "bounce", "mark_user", "mark_processing", "stamp",
              "expire", "set_status"}
Acking == {"ack_processing", "ack_clear", "ack_status", "completed", "failed"}
WorkerPCs == {"idle", "running"} \cup Dequeuing \cup Acking
CancelPCs == {"idle", "unmark_user", "unmark_processing", "clear", "remove", "write"}
CleanPCs == {"idle", "next", "unmark_processing", "clear", "push", "write"}

Init ==
  /\ ready = <<>>
  /\ status = [t \in Tasks |-> "none"]
  /\ userProcessing = [u \in Users |-> {}]
  /\ processing = {} /\ completed = {} /\ failed = {}
  /\ visible = {} /\ overdue = {} /\ ttl = {}
  /\ enq = [t \in Tasks |-> "new"]
  /\ wpc = [w \in Workers |-> "idle"] /\ wtask = [w \in Workers |-> NoTask]
  /\ cpc = [c \in Cancellers |-> "idle"] /\ ctask = [c \in Cancellers |-> NoTask]
  /\ kpc = [k \in Cleaners |-> "idle"] /\ ktask = [k \in Cleaners |-> NoTask]
  /\ kexp = [k \in Cleaners |-> {}]
  /\ cancels = {} /\ expiries = {} /\ abandoned = {} /\ crashes = 0

-----------------------------------------------------------------------------
(* Redis commands on the ready list.                                        *)

LPush(t) == ready' = <<t>> \o ready

(* Positions of s that LREM s 0 t keeps, and the one of them of rank k.     *)
Kept(s, t) == {i \in 1..Len(s) : s[i] # t}
KeptUpTo(s, t, i) == {j \in Kept(s, t) : j <= i}
Pos(s, t, k) == CHOOSE i \in Kept(s, t) : Cardinality(KeptUpTo(s, t, i)) = k
Without(s, t) == [k \in 1..Cardinality(Kept(s, t)) |-> s[Pos(s, t, k)]]

SremUser(t) ==
  userProcessing' = [userProcessing EXCEPT ![Owner[t]] = @ \ {t}]

DelVisibility(t) ==
  /\ visible' = visible \ {t}
  /\ overdue' = overdue \ {t}
  /\ ttl' = ttl \ {t}

UserHasRoom(u) == Cardinality(userProcessing[u]) < UserLimit
GlobalHasRoom == Cardinality(processing) < GlobalLimit

-----------------------------------------------------------------------------
(* enqueue_task.  A refused call raises ValueError.                         *)

EnqCheckUser(t) ==
  /\ enq[t] = "new"
  /\ enq' = [enq EXCEPT ![t] = IF UserHasRoom(Owner[t]) THEN "user_ok"
                                                         ELSE "rejected"]
  /\ UNCHANGED <<store, workerVars, cancelVars, cleanVars, history>>

EnqCheckGlobal(t) ==
  /\ enq[t] = "user_ok"
  /\ enq' = [enq EXCEPT ![t] = IF GlobalHasRoom THEN "global_ok" ELSE "rejected"]
  /\ UNCHANGED <<store, workerVars, cancelVars, cleanVars, history>>

MutEnqStore(t) ==  \* the id is pushed before its hash is written
  /\ enq[t] = "global_ok"
  /\ enq' = [enq EXCEPT ![t] = "stored"]
  /\ LPush(t)
  /\ UNCHANGED <<status, userProcessing, processing, completed, failed,
                 visibility, workerVars, cancelVars, cleanVars, history>>

EnqStore(t) ==
  /\ enq[t] = "global_ok"
  /\ enq' = [enq EXCEPT ![t] = "stored"]
  /\ status' = [status EXCEPT ![t] = "queued"]
  /\ UNCHANGED <<ready, userProcessing, processing, completed, failed,
                 visibility, workerVars, cancelVars, cleanVars, history>>

EnqPush(t) ==
  /\ enq[t] = "stored"
  /\ enq' = [enq EXCEPT ![t] = "done"]
  /\ LPush(t)
  /\ UNCHANGED <<status, userProcessing, processing, completed, failed,
                 visibility, workerVars, cancelVars, cleanVars, history>>

-----------------------------------------------------------------------------
(* dequeue_task.                                                            *)

MutDeqPop(w) ==  \* the id is read, not taken off the list
  /\ wpc[w] = "idle" /\ ready # <<>>
  /\ wpc' = [wpc EXCEPT ![w] = "popped"]
  /\ wtask' = [wtask EXCEPT ![w] = ready[Len(ready)]]
  /\ UNCHANGED <<store, enq, cancelVars, cleanVars, history>>

DeqPop(w) ==
  /\ wpc[w] = "idle" /\ ready # <<>>
  /\ wpc' = [wpc EXCEPT ![w] = "popped"]
  /\ wtask' = [wtask EXCEPT ![w] = ready[Len(ready)]]
  /\ ready' = SubSeq(ready, 1, Len(ready) - 1)
  /\ UNCHANGED <<status, userProcessing, processing, completed, failed,
                 visibility, enq, cancelVars, cleanVars, history>>

MutDeqCheck(w) ==  \* the limit is not checked a second time
  /\ wpc[w] = "popped"
  /\ wpc' = [wpc EXCEPT ![w] = "mark_user"]
  /\ UNCHANGED <<store, enq, wtask, cancelVars, cleanVars, history>>

(* get_task and the second check of the user's limit; the global limit is   *)
(* not looked at again.  An id without a hash is dropped.                   *)
DeqCheck(w) ==
  /\ wpc[w] = "popped"
  /\ LET t == wtask[w] IN
     /\ wpc' = [wpc EXCEPT ![w] = IF status[t] = "none" THEN "idle"
                                  ELSE IF UserHasRoom(Owner[t]) THEN "mark_user"
                                  ELSE "bounce"]
     /\ wtask' = [wtask EXCEPT ![w] = IF status[t] = "none" THEN NoTask ELSE t]
  /\ UNCHANGED <<store, enq, cancelVars, cleanVars, history>>

MutDeqBounce(w) ==  \* the refused task is not put back
  /\ wpc[w] = "bounce"
  /\ wpc' = [wpc EXCEPT ![w] = "idle"]
  /\ wtask' = [wtask EXCEPT ![w] = NoTask]
  /\ UNCHANGED <<store, enq, cancelVars, cleanVars, history>>

MutDeqBounceType(w) ==  \* the id is forgotten before it is put back
  /\ wpc[w] = "bounce"
  /\ wpc' = [wpc EXCEPT ![w] = "idle"]
  /\ wtask' = [wtask EXCEPT ![w] = NoTask]
  /\ LPush(NoTask)
  /\ UNCHANGED <<status, userProcessing, processing, completed, failed,
                 visibility, enq, cancelVars, cleanVars, history>>

DeqBounce(w) ==
  /\ wpc[w] = "bounce"
  /\ wpc' = [wpc EXCEPT ![w] = "idle"]
  /\ wtask' = [wtask EXCEPT ![w] = NoTask]
  /\ LPush(wtask[w])
  /\ UNCHANGED <<status, userProcessing, processing, completed, failed,
                 visibility, enq, cancelVars, cleanVars, history>>

DeqMarkUser(w) ==
  /\ wpc[w] = "mark_user"
  /\ wpc' = [wpc EXCEPT ![w] = "mark_processing"]
  /\ userProcessing' =
       [userProcessing EXCEPT ![Owner[wtask[w]]] = @ \cup {wtask[w]}]
  /\ UNCHANGED <<ready, status, processing, completed, failed, visibility, enq,
                 wtask, cancelVars, cleanVars, history>>

MutDeqMarkProcessing(w) ==  \* the global set is forgotten
  /\ wpc[w] = "mark_processing"
  /\ wpc' = [wpc EXCEPT ![w] = "stamp"]
  /\ UNCHANGED <<store, enq, wtask, cancelVars, cleanVars, history>>

DeqMarkProcessing(w) ==
  /\ wpc[w] = "mark_processing"
  /\ wpc' = [wpc EXCEPT ![w] = "stamp"]
  /\ processing' = processing \cup {wtask[w]}
  /\ UNCHANGED <<ready, status, userProcessing, completed, failed, visibility,
                 enq, wtask, cancelVars, cleanVars, history>>

(* set_visibility_timeout: HSET moves timeout_at into the future but leaves *)
(* the TTL of an older key alone; EXPIRE on a deleted key does nothing.     *)
DeqStamp(w) ==
  /\ wpc[w] = "stamp"
  /\ wpc' = [wpc EXCEPT ![w] = "expire"]
  /\ visible' = visible \cup {wtask[w]}
  /\ overdue' = overdue \ {wtask[w]}
  /\ UNCHANGED <<ready, status, userProcessing, processing, completed, failed,
                 ttl, enq, wtask, cancelVars, cleanVars, history>>

DeqExpire(w) ==
  /\ wpc[w] = "expire"
  /\ wpc' = [wpc EXCEPT ![w] = "set_status"]
  /\ ttl' = ttl \cup ({wtask[w]} \cap visible)
  /\ UNCHANGED <<ready, status, userProcessing, processing, completed, failed,
                 visible, overdue, enq, wtask, cancelVars, cleanVars, history>>

DeqSetStatus(w) ==
  /\ wpc[w] = "set_status"
  /\ wpc' = [wpc EXCEPT ![w] = "running"]
  /\ status' = [status EXCEPT ![wtask[w]] = "processing"]
  /\ UNCHANGED <<ready, userProcessing, processing, completed, failed,
                 visibility, enq, wtask, cancelVars, cleanVars, history>>

-----------------------------------------------------------------------------
(* ack_task, called when the analysis ends.                                 *)

MutAckUnmarkUser(w) ==  \* the user's set is forgotten
  /\ wpc[w] = "running"
  /\ wpc' = [wpc EXCEPT ![w] = "ack_processing"]
  /\ UNCHANGED <<store, enq, wtask, cancelVars, cleanVars, history>>

AckUnmarkUser(w) ==
  /\ wpc[w] = "running"
  /\ wpc' = [wpc EXCEPT ![w] = "ack_processing"]
  /\ SremUser(wtask[w])
  /\ UNCHANGED <<ready, status, processing, completed, failed, visibility, enq,
                 wtask, cancelVars, cleanVars, history>>

AckUnmarkProcessing(w) ==
  /\ wpc[w] = "ack_processing"
  /\ wpc' = [wpc EXCEPT ![w] = "ack_clear"]
  /\ processing' = processing \ {wtask[w]}
  /\ UNCHANGED <<ready, status, userProcessing, completed, failed, visibility,
                 enq, wtask, cancelVars, cleanVars, history>>

AckClear(w) ==
  /\ wpc[w] = "ack_clear"
  /\ wpc' = [wpc EXCEPT ![w] = "ack_status"]
  /\ DelVisibility(wtask[w])
  /\ UNCHANGED <<ready, status, userProcessing, processing, completed, failed,
                 enq, wtask, cancelVars, cleanVars, history>>

AckSetStatus(w, outcome) ==
  /\ wpc[w] = "ack_status"
  /\ wpc' = [wpc EXCEPT ![w] = outcome]
  /\ status' = [status EXCEPT ![wtask[w]] = outcome]
  /\ UNCHANGED <<ready, userProcessing, processing, completed, failed,
                 visibility, enq, wtask, cancelVars, cleanVars, history>>

AckRecord(w) ==
  /\ wpc[w] \in {"completed", "failed"}
  /\ wpc' = [wpc EXCEPT ![w] = "idle"]
  /\ wtask' = [wtask EXCEPT ![w] = NoTask]
  /\ completed' = IF wpc[w] = "completed" THEN completed \cup {wtask[w]} ELSE completed
  /\ failed' = IF wpc[w] = "failed" THEN failed \cup {wtask[w]} ELSE failed
  /\ UNCHANGED <<ready, status, userProcessing, processing, visibility, enq,
                 cancelVars, cleanVars, history>>

-----------------------------------------------------------------------------
(* cancel_task.  The status read first decides what is undone; the status   *)
(* "cancelled" is written whatever it was.                                  *)

CancelLoad(c, t) ==
  /\ cpc[c] = "idle" /\ status[t] # "none"
  /\ cpc' = [cpc EXCEPT ![c] = IF status[t] = "processing" THEN "unmark_user"
                               ELSE IF status[t] = "queued" THEN "remove"
                               ELSE "write"]
  /\ ctask' = [ctask EXCEPT ![c] = t]
  /\ cancels' = cancels \cup {t}
  /\ UNCHANGED <<store, enq, workerVars, cleanVars, expiries, abandoned, crashes>>

CancelUnmarkUser(c) ==
  /\ cpc[c] = "unmark_user"
  /\ cpc' = [cpc EXCEPT ![c] = "unmark_processing"]
  /\ SremUser(ctask[c])
  /\ UNCHANGED <<ready, status, processing, completed, failed, visibility, enq,
                 workerVars, ctask, cleanVars, history>>

CancelUnmarkProcessing(c) ==
  /\ cpc[c] = "unmark_processing"
  /\ cpc' = [cpc EXCEPT ![c] = "clear"]
  /\ processing' = processing \ {ctask[c]}
  /\ UNCHANGED <<ready, status, userProcessing, completed, failed, visibility,
                 enq, workerVars, ctask, cleanVars, history>>

CancelClear(c) ==
  /\ cpc[c] = "clear"
  /\ cpc' = [cpc EXCEPT ![c] = "write"]
  /\ DelVisibility(ctask[c])
  /\ UNCHANGED <<ready, status, userProcessing, processing, completed, failed,
                 enq, workerVars, ctask, cleanVars, history>>

CancelRemove(c) ==
  /\ cpc[c] = "remove"
  /\ cpc' = [cpc EXCEPT ![c] = "write"]
  /\ ready' = Without(ready, ctask[c])
  /\ UNCHANGED <<status, userProcessing, processing, completed, failed,
                 visibility, enq, workerVars, ctask, cleanVars, history>>

CancelWrite(c) ==
  /\ cpc[c] = "write"
  /\ cpc' = [cpc EXCEPT ![c] = "idle"]
  /\ ctask' = [ctask EXCEPT ![c] = NoTask]
  /\ status' = [status EXCEPT ![ctask[c]] = "cancelled"]
  /\ UNCHANGED <<ready, userProcessing, processing, completed, failed,
                 visibility, enq, workerVars, cleanVars, history>>

-----------------------------------------------------------------------------
(* cleanup_expired_tasks and _handle_expired_task.  A key deleted between   *)
(* KEYS and its HGETALL is left out, hence any set of overdue keys.         *)

CleanScan(k) ==
  /\ kpc[k] = "idle"
  /\ \E found \in SUBSET overdue \ {{}} :
       /\ kexp' = [kexp EXCEPT ![k] = found]
       /\ expiries' = expiries \cup found
  /\ kpc' = [kpc EXCEPT ![k] = "next"]
  /\ UNCHANGED <<store, enq, workerVars, cancelVars, ktask, cancels, abandoned,
                 crashes>>

CleanUnmarkUser(k, t) ==
  /\ kpc[k] = "next" /\ t \in kexp[k]
  /\ kpc' = [kpc EXCEPT ![k] = "unmark_processing"]
  /\ ktask' = [ktask EXCEPT ![k] = t]
  /\ kexp' = [kexp EXCEPT ![k] = @ \ {t}]
  /\ SremUser(t)
  /\ UNCHANGED <<ready, status, processing, completed, failed, visibility, enq,
                 workerVars, cancelVars, history>>

CleanUnmarkProcessing(k) ==
  /\ kpc[k] = "unmark_processing"
  /\ kpc' = [kpc EXCEPT ![k] = "clear"]
  /\ processing' = processing \ {ktask[k]}
  /\ UNCHANGED <<ready, status, userProcessing, completed, failed, visibility,
                 enq, workerVars, cancelVars, ktask, kexp, history>>

CleanClear(k) ==
  /\ kpc[k] = "clear"
  /\ kpc' = [kpc EXCEPT ![k] = "push"]
  /\ DelVisibility(ktask[k])
  /\ UNCHANGED <<ready, status, userProcessing, processing, completed, failed,
                 enq, workerVars, cancelVars, ktask, kexp, history>>

CleanPush(k) ==
  /\ kpc[k] = "push"
  /\ kpc' = [kpc EXCEPT ![k] = "write"]
  /\ LPush(ktask[k])
  /\ UNCHANGED <<status, userProcessing, processing, completed, failed,
                 visibility, enq, workerVars, cancelVars, ktask, kexp, history>>

CleanWrite(k) ==
  /\ kpc[k] = "write"
  /\ kpc' = [kpc EXCEPT ![k] = IF kexp[k] = {} THEN "idle" ELSE "next"]
  /\ ktask' = [ktask EXCEPT ![k] = NoTask]
  /\ status' = [status EXCEPT ![ktask[k]] = "queued"]
  /\ UNCHANGED <<ready, userProcessing, processing, completed, failed,
                 visibility, enq, workerVars, cancelVars, kexp, history>>

-----------------------------------------------------------------------------
(* The passing of time, and coroutines that die: a process that is killed,  *)
(* or a Redis command that raises, which dequeue_task, ack_task and         *)
(* cancel_task turn into an early return and enqueue_task into an exception.*)
(* cleanup_expired_tasks goes on with the other tasks it found overdue,     *)
(* unless its process is killed.                                            *)

TimeoutPasses(t) ==
  /\ t \in visible \ overdue
  /\ overdue' = overdue \cup {t}
  /\ UNCHANGED <<ready, status, userProcessing, processing, completed, failed,
                 visible, ttl, enq, workerVars, cancelVars, cleanVars, history>>

KeyExpires(t) ==
  /\ t \in ttl
  /\ DelVisibility(t)
  /\ UNCHANGED <<ready, status, userProcessing, processing, completed, failed,
                 enq, workerVars, cancelVars, cleanVars, history>>

Abandon(tasks) ==
  /\ crashes < MaxCrashes
  /\ crashes' = crashes + 1
  /\ abandoned' = abandoned \cup tasks
  /\ UNCHANGED <<cancels, expiries>>

EnqueueDies(t) ==
  /\ enq[t] = "stored"
  /\ enq' = [enq EXCEPT ![t] = "died"]
  /\ Abandon({t})
  /\ UNCHANGED <<store, workerVars, cancelVars, cleanVars>>

WorkerDies(w) ==
  /\ wpc[w] # "idle"
  /\ wpc' = [wpc EXCEPT ![w] = "idle"]
  /\ wtask' = [wtask EXCEPT ![w] = NoTask]
  /\ Abandon({wtask[w]})
  /\ UNCHANGED <<store, enq, cancelVars, cleanVars>>

CancelDies(c) ==
  /\ cpc[c] # "idle"
  /\ cpc' = [cpc EXCEPT ![c] = "idle"]
  /\ ctask' = [ctask EXCEPT ![c] = NoTask]
  /\ Abandon({ctask[c]})
  /\ UNCHANGED <<store, enq, workerVars, cleanVars>>

CleanupDies(k) ==
  /\ kpc[k] \notin {"idle", "next"}
  /\ \E rest \in {{}, kexp[k]} :
       /\ kexp' = [kexp EXCEPT ![k] = rest]
       /\ kpc' = [kpc EXCEPT ![k] = IF rest = {} THEN "idle" ELSE "next"]
  /\ ktask' = [ktask EXCEPT ![k] = NoTask]
  /\ Abandon({ktask[k]})
  /\ UNCHANGED <<store, enq, workerVars, cancelVars>>

-----------------------------------------------------------------------------
Enqueue(t) == EnqCheckUser(t) \/ EnqCheckGlobal(t) \/ EnqStore(t) \/ EnqPush(t)

Dequeue(w) ==
  \/ DeqPop(w) \/ DeqCheck(w) \/ DeqBounce(w) \/ DeqMarkUser(w)
  \/ DeqMarkProcessing(w) \/ DeqStamp(w) \/ DeqExpire(w) \/ DeqSetStatus(w)

Ack(w) ==
  \/ AckUnmarkUser(w) \/ AckUnmarkProcessing(w) \/ AckClear(w)
  \/ \E outcome \in Outcomes : AckSetStatus(w, outcome)
  \/ AckRecord(w)

CancelProceeds(c) ==
  \/ CancelUnmarkUser(c) \/ CancelUnmarkProcessing(c) \/ CancelClear(c)
  \/ CancelRemove(c) \/ CancelWrite(c)

Cancel(c) == (\E t \in Tasks : CancelLoad(c, t)) \/ CancelProceeds(c)

Cleanup(k) ==
  \/ CleanScan(k) \/ \E t \in Tasks : CleanUnmarkUser(k, t)
  \/ CleanUnmarkProcessing(k) \/ CleanClear(k) \/ CleanPush(k) \/ CleanWrite(k)

Dies ==
  \/ \E t \in Tasks : EnqueueDies(t)
  \/ \E w \in Workers : WorkerDies(w)
  \/ \E c \in Cancellers : CancelDies(c)
  \/ \E k \in Cleaners : CleanupDies(k)

Next ==
  \/ \E t \in Tasks : Enqueue(t) \/ TimeoutPasses(t) \/ KeyExpires(t)
  \/ \E w \in Workers : Dequeue(w) \/ Ack(w)
  \/ \E c \in Cancellers : Cancel(c)
  \/ \E k \in Cleaners : Cleanup(k)
  \/ Dies

Spec == Init /\ [][Next]_vars

-----------------------------------------------------------------------------
TypeOK ==
  /\ ready \in Seq(Tasks)
  /\ status \in [Tasks -> Statuses]
  /\ userProcessing \in [Users -> SUBSET Tasks]
  /\ processing \in SUBSET Tasks
  /\ completed \in SUBSET Tasks /\ failed \in SUBSET Tasks
  /\ visible \in SUBSET Tasks /\ overdue \in SUBSET visible /\ ttl \in SUBSET visible
  /\ enq \in [Tasks -> EnqPCs]
  /\ wpc \in [Workers -> WorkerPCs]
  /\ wtask \in [Workers -> Tasks \cup {NoTask}]
  /\ \A w \in Workers : wpc[w] = "idle" <=> wtask[w] = NoTask
  /\ cpc \in [Cancellers -> CancelPCs]
  /\ ctask \in [Cancellers -> Tasks \cup {NoTask}]
  /\ \A c \in Cancellers : cpc[c] = "idle" <=> ctask[c] = NoTask
  /\ kpc \in [Cleaners -> CleanPCs]
  /\ ktask \in [Cleaners -> Tasks \cup {NoTask}]
  /\ kexp \in [Cleaners -> SUBSET Tasks]
  /\ \A k \in Cleaners : kpc[k] \in {"idle", "next"} <=> ktask[k] = NoTask
  /\ cancels \in SUBSET Tasks /\ expiries \in SUBSET Tasks
  /\ abandoned \in SUBSET Tasks
  /\ crashes \in 0..MaxCrashes

InReady(t) == \E i \in 1..Len(ready) : ready[i] = t

(* A worker between SADD of its task and the matching SREM of ack_task.     *)
UserSlotOwner(w) ==
  wpc[w] \in {"mark_processing", "stamp", "expire", "set_status", "running"}
GlobalSlotOwner(w) ==
  wpc[w] \in {"stamp", "expire", "set_status", "running", "ack_processing"}
AboutToMark(u) == {w \in Workers : wpc[w] = "mark_user" /\ Owner[wtask[w]] = u}

(* Whatever is on the ready list, or in anybody's hands, has its hash, so   *)
(* no worker ever drops an id because "the task data does not exist".       *)
RecordBeforeReady ==
  /\ \A i \in 1..Len(ready) : status[ready[i]] # "none"
  /\ \A w \in Workers : wpc[w] # "idle" => status[wtask[w]] # "none"
  /\ \A c \in Cancellers : cpc[c] # "idle" => status[ctask[c]] # "none"

(* A slot of a user, or of the system, is held by a task only while some    *)
(* worker is between taking and returning it, unless a coroutine died on    *)
(* the task: cancellations and cleanups never leave one behind.             *)
NoLeakedSlot ==
  \A t \in Tasks \ abandoned :
    /\ t \in userProcessing[Owner[t]] =>
         \E w \in Workers : wtask[w] = t /\ UserSlotOwner(w)
    /\ t \in processing =>
         \E w \in Workers : wtask[w] = t /\ GlobalSlotOwner(w)

(* The second check does not stop a user's limit from being passed, but it  *)
(* bounds the excess: every worker can slip in at most one task, whatever   *)
(* is cancelled, re-queued or left behind by dead workers.                  *)
BoundedOvershoot ==
  \A u \in Users : Cardinality(userProcessing[u]) < UserLimit + Cardinality(Workers)

(* What the comment of dequeue_task says of its second check ("prevents the *)
(* race"): a user's set never holds more than the limit.                    *)
UserLimitHolds ==
  \A u \in Users : Cardinality(userProcessing[u]) <= UserLimit

(* A task no cleanup has found overdue is in one place only: once on the    *)
(* ready list or in the hands of one worker.                                *)
SingleDelivery ==
  \A t \in Tasks \ expiries :
    /\ \A i, j \in 1..Len(ready) : ready[i] = t /\ ready[j] = t => i = j
    /\ \A v, w \in Workers : wtask[v] = t /\ wtask[w] = t => v = w
    /\ \A w \in Workers : wtask[w] = t => ~InReady(t)

(* What runs is counted: an analysis under way, that nobody cancelled or    *)
(* timed out, holds a slot of its user and one of the system.               *)
RunningIsCounted ==
  \A w \in Workers :
    wpc[w] = "running" /\ wtask[w] \notin cancels \cup expiries =>
      wtask[w] \in userProcessing[Owner[wtask[w]]] \cap processing

(* A task whose hash says "queued" after enqueue_task returned can still be *)
(* run: it is on the list, or a worker has it, or its cancellation is about *)
(* to be written.  (Only a cleanup, or a dead coroutine, can break this.)   *)
QueuedIsReachable ==
  \A t \in Tasks \ (expiries \cup abandoned) :
    status[t] = "queued" /\ enq[t] = "done" =>
      \/ InReady(t)
      \/ \E w \in Workers : wtask[w] = t /\ wpc[w] \in Dequeuing
      \/ \E c \in Cancellers : ctask[c] = t /\ cpc[c] = "write"

(* An analysis that ended is not run again: the record of a finished task   *)
(* that never timed out may only be relabelled by a cancellation.           *)
FinishedStays ==
  [][\A t \in Tasks \ expiries :
       status[t] \in {"completed", "failed"} =>
         status'[t] \in {status[t], "cancelled"}]_vars
=============================================================================
