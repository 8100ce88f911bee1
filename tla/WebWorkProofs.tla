--------------------------- MODULE WebWorkProofs ---------------------------
(***************************************************************************)
(* Proofs about the parts of the web application that are short enough to  *)
(* stand together: the basics sync, for every set of requests, imports, for*)
(* every table and file, the session of a page, for every set of calls, and*)
(* the daily jobs, for every set of strategies; and, at the end, that each *)
(* part behaves in the web process as it does by itself, so that all of its*)
(* promises hold.                                                          *)
(*                                                                         *)
(* A request that leaves resets the flag for everybody, so all that is     *)
(* needed beside the property is that a request is in one place at a time. *)
(* While an import goes on, the transaction sees what was to be kept and   *)
(* what was counted as inserted; this is what a commit that succeeds makes *)
(* of the table.  As long as nothing excuses the end of a session, no      *)
(* refresh token is dead and nobody logs out.  The jobs of strategies are  *)
(* there only while no look is under way, so a look never changes what     *)
(* they were added from.                                                   *)
(***************************************************************************)
EXTENDS WebProcess, PatternScreeningProofs, UnifiedSyncProofs, ProxyPoolProofs, TLAPS

FlagInv == askPc \in [Askers -> AskPCs] /\ FlagMeansServing

LEMMA FlagKept ==
  ASSUME FlagInv, [AskNext]_askVars
  PROVE  FlagInv'
<1> DEFINE Typed == askPc \in [Askers -> AskPCs]
<1>1. Typed /\ FlagMeansServing
  BY DEF FlagInv
<1>2. ASSUME NEW a \in Askers, NEW p \in AskPCs, NEW q \in AskPCs, Turns(a, p, q),
             q \in Serving \/ p \notin Serving, UNCHANGED syncing
      PROVE  FlagInv'
  <2>1. Typed'
    BY <1>1, <1>2 DEF Turns
  <2>2. \A b \in Askers : askPc[b] \in Serving => askPc'[b] \in Serving
    BY <1>1, <1>2 DEF Turns
  <2> QED
    BY <1>1, <1>2, <2>1, <2>2 DEF FlagInv, FlagMeansServing
<1>3. ASSUME NEW a \in Askers, Ask(a) \/ Skip(a) PROVE FlagInv'
  <2>1. Turns(a, "idle", "enter") \/ Turns(a, "skip", "idle")
    BY <1>3 DEF Ask, Skip
  <2>2. UNCHANGED syncing
    BY <1>3 DEF Ask, Skip
  <2> QED
    BY <1>2, <2>1, <2>2 DEF AskPCs, Serving
<1>4. ASSUME NEW a \in Askers, Guard(a) PROVE FlagInv'
  <2>1. CASE Turns(a, "enter", "skip") /\ UNCHANGED syncing
    BY <1>2, <2>1 DEF AskPCs, Serving
  <2>2. CASE Turns(a, "enter", "started")
    <3>1. Typed' /\ askPc'[a] = "started"
      BY <1>1, <2>2 DEF Turns, AskPCs
    <3> QED
      BY <3>1 DEF FlagInv, FlagMeansServing, Serving
  <2> QED
    BY <1>4, <2>1, <2>2 DEF Guard
<1>5. ASSUME NEW a \in Askers, PersistRunning(a) \/ PersistSuccess(a) PROVE FlagInv'
  <2>1. Turns(a, "started", "finished") \/ Turns(a, "finished", "leave")
    BY <1>5 DEF PersistRunning, PersistSuccess
  <2>2. UNCHANGED syncing
    BY <1>5 DEF PersistRunning, PersistSuccess
  <2> QED
    BY <1>2, <2>1, <2>2 DEF AskPCs, Serving
<1>6. ASSUME NEW a \in Askers, Reset(a) PROVE FlagInv'
  BY <1>1, <1>6 DEF Reset, Turns, FlagInv, FlagMeansServing, AskPCs
<1>7. CASE UNCHANGED askVars
  BY <1>1, <1>7 DEF askVars, FlagInv, FlagMeansServing
<1> QED
  BY <1>3, <1>4, <1>5, <1>6, <1>7 DEF AskNext, Serve

(* However many requests overtake one another, the flag is set only while   *)
(* one of them is being served: no later request is turned away for ever.   *)
THEOREM TheFlagIsNeverLeftBehind == AskSpec => []FlagMeansServing
<1>1. AskInit => FlagInv
  BY DEF AskInit, FlagInv, FlagMeansServing, AskPCs
<1>2. FlagInv /\ [AskNext]_askVars => FlagInv'
  BY FlagKept
<1>3. FlagInv => FlagMeansServing
  BY DEF FlagInv
<1> QED
  BY <1>1, <1>2, <1>3, PTL DEF AskSpec

\* The lock is held from one step to another only to read the status.
LockInv ==
  /\ askPc \in [Askers -> AskPCs]
  /\ lock \in Askers \cup {NoAsker}
  /\ \A a \in Askers : askPc[a] = "skip" <=> lock = a

\* A request can go on, as far as the lock is concerned.
CanGoOn(a) ==
  askPc[a] # "idle" /\ (askPc[a] \in {"enter", "leave"} => lock = NoAsker)

(* Whenever a request waits, some request is not waiting: the one that      *)
(* reads the status with the lock in its hands asks for it no second time.  *)
SomebodyGoesOn ==
  (\E a \in Askers : askPc[a] # "idle") => \E b \in Askers : CanGoOn(b)

LEMMA LockKept ==
  ASSUME LockInv, [AskNext]_askVars
  PROVE  LockInv'
<1> USE AskersAssumption DEF LockInv, Turns, AskPCs
<1>1. ASSUME NEW a \in Askers, Ask(a) PROVE LockInv'
  BY <1>1 DEF Ask
<1>2. ASSUME NEW a \in Askers, Guard(a) PROVE LockInv'
  BY <1>2 DEF Guard
<1>3. ASSUME NEW a \in Askers, Skip(a) PROVE LockInv'
  BY <1>3 DEF Skip
<1>4. ASSUME NEW a \in Askers, PersistRunning(a) \/ PersistSuccess(a) PROVE LockInv'
  BY <1>4 DEF PersistRunning, PersistSuccess
<1>5. ASSUME NEW a \in Askers, Reset(a) PROVE LockInv'
  BY <1>5 DEF Reset
<1>6. CASE UNCHANGED askVars
  BY <1>6 DEF askVars
<1> QED
  BY <1>1, <1>2, <1>3, <1>4, <1>5, <1>6 DEF AskNext, Serve

(* Requests of the basics sync never all wait for one another, for every    *)
(* set of them, forced or not.                                              *)
THEOREM RequestsNeverBlockEachOther == AskSpec => []SomebodyGoesOn
<1>1. AskInit => LockInv
  BY AskersAssumption DEF AskInit, LockInv, AskPCs
<1>2. LockInv /\ [AskNext]_askVars => LockInv'
  BY LockKept
<1>3. LockInv => SomebodyGoesOn
  <2> SUFFICES ASSUME LockInv, NEW a \in Askers, askPc[a] # "idle"
               PROVE  \E b \in Askers : CanGoOn(b)
    BY DEF SomebodyGoesOn
  <2>1. CASE lock = NoAsker
    BY <2>1 DEF CanGoOn
  <2>2. CASE lock \in Askers
    BY <2>2 DEF CanGoOn, LockInv
  <2> QED
    BY <2>1, <2>2 DEF LockInv
<1> QED
  BY <1>1, <1>2, <1>3, PTL DEF AskSpec

-----------------------------------------------------------------------------
Kept == IF overwrite = "yes" THEN {} ELSE table

ImportInv == importPc = "rows" => working = inserted \cup Kept

LEMMA ImportKept ==
  ASSUME ImportInv, [ImportNext]_importVars
  PROVE  ImportInv'
<1> USE DEF ImportInv, Kept
<1>1. CASE StartImport
  BY <1>1 DEF StartImport
<1>2. CASE Commit \/ ImportDies \/ NextImport
  BY <1>2 DEF Commit, ImportDies, NextImport
<1>3. ASSUME NEW d \in Documents, InsertRow(d) PROVE ImportInv'
  BY <1>3 DEF InsertRow
<1>4. ASSUME NEW d \in Documents, RowFails(d) PROVE ImportInv'
  BY <1>4 DEF RowFails
<1>5. CASE UNCHANGED importVars
  BY <1>5 DEF importVars
<1> QED
  BY <1>1, <1>2, <1>3, <1>4, <1>5 DEF ImportNext

(* Whatever rows a file holds and whichever of them are refused, the table  *)
(* changes only at the end, into what was kept and what was reported.       *)
THEOREM ImportsAreAtomic == ImportSpec => ImportIsAtomic
<1> DEFINE Whole == table' # table =>
                      /\ importPc' = "answered"
                      /\ table' = inserted \cup (IF overwrite = "yes" THEN {} ELSE table)
<1>1. ImportInit => ImportInv
  BY DEF ImportInit, ImportInv
<1>2. ImportInv /\ [ImportNext]_importVars => ImportInv'
  BY ImportKept
<1>3. ImportInv /\ [ImportNext]_importVars => [Whole]_importVars
  <2> SUFFICES ASSUME ImportInv, ImportNext PROVE Whole
    OBVIOUS
  <2>1. CASE Commit
    BY <2>1 DEF Commit, ImportInv, Kept
  <2>2. CASE ~Commit
    <3>1. UNCHANGED table
      BY <2>2 DEF ImportNext, StartImport, ImportDies, NextImport, InsertRow, RowFails
    <3> QED BY <3>1
  <2> QED BY <2>1, <2>2
<1> QED
  BY <1>1, <1>2, <1>3, PTL DEF ImportSpec, ImportIsAtomic

-----------------------------------------------------------------------------
SessionInv ==
  /\ SessionTypeOK
  /\ access # "none" => refresh # "none"
  /\ excuse = "no" => /\ refresh # "dead"
                      /\ \A c \in PageTasks : carried[c] # "dead" /\ kind[c] # "logout"

LEMMA SessionKept ==
  ASSUME SessionInv, [SessionNext]_sessionVars
  PROVE  SessionInv'
<1> USE SessionConstants DEF SessionInv, SessionTypeOK, Kinds, TaskPCs
<1>1. CASE Login \/ ThreeSecondsPass
  BY <1>1 DEF Login, ThreeSecondsPass
<1>2. CASE TimerFires
  <2>1. Timer \in PageTasks
    BY DEF PageTasks
  <2> QED
    BY <1>2, <2>1 DEF TimerFires, Refreshes
<1>3. CASE Expires
  BY <1>3 DEF Expires, Aged
<1>4. CASE SessionEnds
  BY <1>4 DEF SessionEnds, Aged, Killed
<1>5. CASE Reload
  BY <1>5 DEF Reload
<1>6. ASSUME NEW c \in Calls, Call(c) \/ Check(c) PROVE SessionInv'
  <2>1. c \in PageTasks
    BY DEF PageTasks
  <2>2. CASE Check(c)
    BY <2>1, <2>2 DEF Check, Sends
  <2>3. CASE Call(c)
    <3>1. PICK k \in {"view", "logout"} : kind' = [kind EXCEPT ![c] = k]
      BY <2>3 DEF Call
    <3>2. /\ carried' = [carried EXCEPT ![c] = "none"]
          /\ UNCHANGED <<access, refresh, tries, handling, mishaps, page>>
      BY <2>3 DEF Call, Sends
    <3>3. excuse' = IF k = "logout" THEN "yes" ELSE excuse
      BY <2>1, <2>3, <3>1 DEF Call
    <3>4. /\ taskPc' = [taskPc EXCEPT ![c] = "sent"]
          /\ header' = [header EXCEPT ![c] = access]
          /\ refreshTries' = [refreshTries EXCEPT ![c] = 0]
      BY <2>3 DEF Call, Sends
    <3> QED
      BY <2>1, <3>1, <3>2, <3>3, <3>4
  <2> QED
    BY <1>6, <2>2, <2>3
<1>7. ASSUME NEW c \in PageTasks, DatabaseFails(c) PROVE SessionInv'
  BY <1>7 DEF DatabaseFails
<1>8. ASSUME NEW c \in PageTasks, TaskProceeds(c) PROVE SessionInv'
  <2>1. CASE Answered(c) \/ Broken(c)
    BY <2>1 DEF Answered, Broken, Succeeds, Fails, EndsCall, Finishes, Clears, ExcusesUnlessView
  <2>2. CASE Unauthorized(c) \/ RefreshBroken(c)
    BY <2>2 DEF Unauthorized, RefreshBroken, Handle401, Finishes, Clears
  <2>3. CASE StartRefresh(c)
    BY <2>3 DEF StartRefresh, Refreshes
  <2>4. CASE Lost(c)
    BY <2>4 DEF Lost, Fails, TimesOut, EndsCall, Finishes, Clears,
                ExcusesUnlessView
  <2>5. CASE Repeat(c) \/ RepeatRefresh(c)
    BY <2>5 DEF Repeat, RepeatRefresh, Sends
  <2>6. CASE Refreshed(c)
    BY <2>6 DEF Refreshed, GoesOn, Finishes
  <2>7. CASE RefreshRefused(c) \/ RefreshLost(c)
    BY <2>7 DEF RefreshRefused, RefreshLost, Finishes, Clears
  <2>8. CASE RefusedByCode(c) \/ RefusedByMessage(c)
    BY <2>8 DEF RefusedByCode, RefusedByMessage, Handle401, Finishes, Clears
  <2> QED
    BY <1>8, <2>1, <2>2, <2>3, <2>4, <2>5, <2>6, <2>7, <2>8 DEF TaskProceeds
<1>9. CASE UNCHANGED sessionVars
  BY <1>9 DEF sessionVars
<1> QED
  BY <1>1, <1>2, <1>3, <1>4, <1>5, <1>6, <1>7, <1>8, <1>9 DEF SessionNext

(* The session has one of the forms the runs see, for every number of calls *)
(* and repetitions: none is made beyond MaxRetries.                         *)
THEOREM SessionsAreWellTyped == SessionSpec => []SessionTypeOK
<1>1. SessionInit => SessionInv
  BY SessionConstants DEF SessionInit, SessionInv, SessionTypeOK, Kinds, TaskPCs
<1>2. SessionInv /\ [SessionNext]_sessionVars => SessionInv'
  BY SessionKept
<1>3. SessionInv => SessionTypeOK
  BY DEF SessionInv
<1> QED
  BY <1>1, <1>2, <1>3, PTL DEF SessionSpec

(* However many calls, reloads and checks of the timer race for new tokens, *)
(* and however often views are answered with errors or not at all, a page   *)
(* loses its session only when it was logged out, the server ended it, a    *)
(* refresh or a new page's check of it failed, or an answer said by its     *)
(* code or its message that it is about authentication.                     *)
THEOREM SessionsEndForAReason == SessionSpec => NoNeedlessLogout
<1> DEFINE Excused == access # "none" /\ access' = "none" => excuse' = "yes"
<1>1. SessionInit => SessionInv
  BY SessionConstants DEF SessionInit, SessionInv, SessionTypeOK, Kinds, TaskPCs
<1>2. SessionInv /\ [SessionNext]_sessionVars => SessionInv'
  BY SessionKept
<1>3. SessionInv /\ [SessionNext]_sessionVars => [Excused]_sessionVars
  <2> SUFFICES ASSUME SessionInv, SessionNext, access # "none", access' = "none"
               PROVE  excuse' = "yes"
    OBVIOUS
  <2>1. CASE Login \/ TimerFires \/ Expires \/ SessionEnds \/ ThreeSecondsPass \/ Reload
    BY <2>1 DEF Login, TimerFires, Expires, SessionEnds, ThreeSecondsPass, Reload, Aged, SessionInv
  <2>2. ASSUME NEW c \in Calls, Call(c) \/ Check(c) PROVE excuse' = "yes"
    BY <2>2 DEF Call, Check
  <2>3. ASSUME NEW c \in PageTasks, DatabaseFails(c) PROVE excuse' = "yes"
    BY <2>3 DEF DatabaseFails
  <2>4. ASSUME NEW c \in PageTasks, TaskProceeds(c) PROVE excuse' = "yes"
    <3>1. CASE Broken(c) \/ Lost(c)
      BY <3>1 DEF Broken, Lost, Fails, TimesOut, EndsCall, ExcusesUnlessView
    <3>2. CASE RefreshBroken(c) \/ RefreshLost(c) \/ RefusedByCode(c) \/ RefusedByMessage(c)
      BY <3>2 DEF RefreshBroken, RefreshLost, RefusedByCode, RefusedByMessage
    <3>3. CASE Answered(c)
      BY <3>3 DEF Answered, Succeeds, EndsCall, SessionInv, SessionTypeOK
    <3>4. CASE Unauthorized(c)
      BY <3>4 DEF Unauthorized, SessionInv
    <3>5. CASE RefreshRefused(c)
      BY <3>5 DEF RefreshRefused, SessionInv, SessionTypeOK
    <3>6. CASE StartRefresh(c) \/ Repeat(c) \/ Refreshed(c) \/ RepeatRefresh(c)
      BY <3>6 DEF StartRefresh, Repeat, Refreshed, RepeatRefresh
    <3> QED
      BY <2>4, <3>1, <3>2, <3>3, <3>4, <3>5, <3>6 DEF TaskProceeds
  <2> QED
    BY <2>1, <2>2, <2>3, <2>4 DEF SessionNext
<1> QED
  BY <1>1, <1>2, <1>3, PTL DEF SessionSpec, NoNeedlessLogout

\* How much of a transmission is left, when the call was repeated no more often.
Phase(c) ==
  CASE taskPc[c] = "idle" -> 0
    [] taskPc[c] = "sent" -> IF header[c] = "fresh" THEN 1 ELSE 2 * MaxRetries + 4
    [] taskPc[c] = "refreshing" -> 2 * (MaxRetries - refreshTries[c]) + 2
    [] taskPc[c] = "refreshWaiting" -> 2 * (MaxRetries - refreshTries[c]) + 3
    [] taskPc[c] = "waiting" -> 2 * MaxRetries + 5

Lower(c) ==
  \/ taskPc'[c] = "idle"
  \/ tries'[c] > tries[c]
  \/ tries'[c] = tries[c] /\ Phase(c)' < Phase(c)

(* What a task of the page does brings it nearer to its end, and what other *)
(* tasks, logins and the clock do takes it no further from it, unless a     *)
(* token expires or is refused once more.                                   *)
CallsDescend ==
  [][\A c \in PageTasks : taskPc[c] # "idle" =>
       \/ Lower(c)
       \/ mishaps' > mishaps
       \/ ~TaskProceeds(c) /\ tries'[c] = tries[c] /\ Phase(c)' = Phase(c)]_sessionVars

TriesAreBounded ==
  \A c \in PageTasks : tries[c] \in 0..MaxRetries /\ Phase(c) \in 0..(2 * MaxRetries + 5)

LEMMA PhaseBounded ==
  ASSUME SessionTypeOK PROVE TriesAreBounded
<1> USE SessionConstants DEF SessionTypeOK, TaskPCs
<1> SUFFICES ASSUME NEW c \in PageTasks
             PROVE  tries[c] \in 0..MaxRetries /\ Phase(c) \in 0..(2 * MaxRetries + 5)
  BY DEF TriesAreBounded
<1>1. /\ tries[c] \in 0..MaxRetries /\ refreshTries[c] \in 0..MaxRetries
      /\ taskPc[c] \in TaskPCs
  OBVIOUS
<1> QED
  BY <1>1 DEF Phase

LEMMA TaskDescends ==
  ASSUME SessionTypeOK, NEW c \in PageTasks, TaskProceeds(c)
  PROVE  Lower(c)
<1> USE SessionConstants DEF SessionTypeOK, TaskPCs, Lower
<1>1. /\ tries[c] \in 0..MaxRetries /\ refreshTries[c] \in 0..MaxRetries
      /\ taskPc[c] \in TaskPCs
  OBVIOUS
<1>2. CASE Finishes(c)
  BY <1>2 DEF Finishes
<1>3. CASE \/ Answered(c) \/ Broken(c) \/ RefusedByCode(c) \/ RefusedByMessage(c)
           \/ Unauthorized(c) \/ RefreshRefused(c) \/ RefreshBroken(c)
  BY <1>2, <1>3 DEF Answered, Broken, RefusedByCode, RefusedByMessage, Unauthorized, RefreshRefused, RefreshBroken,
                    Succeeds, Fails, EndsCall
<1>4. CASE StartRefresh(c)
  BY <1>1, <1>4 DEF StartRefresh, Refreshes, Phase
<1>5. CASE Lost(c)
  BY <1>1, <1>2, <1>5 DEF Lost, Fails, TimesOut, EndsCall
<1>6. CASE Repeat(c)
  BY <1>1, <1>6 DEF Repeat, Sends, Phase
<1>7. CASE Refreshed(c)
  <2>1. CASE ~Finishes(c)
    <3>1. /\ taskPc[c] = "refreshing" /\ taskPc'[c] = "sent" /\ header'[c] = "fresh"
          /\ tries'[c] = tries[c]
      BY <1>7, <2>1 DEF Refreshed, GoesOn
    <3>2. Phase(c) \in Int /\ Phase(c) >= 2 /\ Phase(c)' = 1
      BY <1>1, <3>1 DEF Phase
    <3> QED BY <3>1, <3>2
  <2> QED BY <1>2, <2>1
<1>8. CASE RefreshLost(c)
  <2>1. CASE ~Finishes(c)
    <3>1. /\ taskPc[c] = "refreshing" /\ taskPc'[c] = "refreshWaiting"
          /\ refreshTries'[c] = refreshTries[c] + 1 /\ tries'[c] = tries[c]
      BY <1>8, <2>1 DEF RefreshLost
    <3>2. Phase(c)' = Phase(c) - 1
      BY <1>1, <3>1 DEF Phase
    <3>3. Phase(c) \in Int
      BY <1>1, <3>1 DEF Phase
    <3> QED BY <3>1, <3>2, <3>3
  <2> QED BY <1>2, <2>1
<1>9. CASE RepeatRefresh(c)
  BY <1>1, <1>9 DEF RepeatRefresh, Phase
<1> QED
  BY <1>3, <1>4, <1>5, <1>6, <1>7, <1>8, <1>9 DEF TaskProceeds

\* What is not a step of the task, nor a mishap, leaves it where it is.
LEMMA OthersLeaveIt ==
  ASSUME SessionTypeOK, NEW c \in PageTasks, taskPc[c] # "idle", SessionNext, ~TaskProceeds(c)
  PROVE  \/ taskPc'[c] = "idle"
         \/ mishaps' > mishaps
         \/ tries'[c] = tries[c] /\ Phase(c)' = Phase(c)
<1> USE SessionConstants DEF SessionTypeOK
<1> DEFINE Left == /\ taskPc'[c] = taskPc[c] /\ header'[c] = header[c]
                   /\ refreshTries'[c] = refreshTries[c] /\ tries'[c] = tries[c]
<1>1. Left => tries'[c] = tries[c] /\ Phase(c)' = Phase(c)
  BY DEF Phase
<1>2. CASE Expires \/ SessionEnds \/ \E b \in PageTasks : DatabaseFails(b)
  BY <1>2 DEF Expires, SessionEnds, DatabaseFails
<1>3. CASE Reload
  BY <1>3 DEF Reload
<1>4. CASE Login \/ ThreeSecondsPass
  BY <1>1, <1>4 DEF Login, ThreeSecondsPass
<1>5. CASE TimerFires
  BY <1>1, <1>5 DEF TimerFires, Refreshes
<1>6. ASSUME NEW b \in Calls, Call(b) \/ Check(b) PROVE Left
  BY <1>6 DEF Call, Check, Sends
<1>7. ASSUME NEW b \in PageTasks, TaskProceeds(b) PROVE Left
  <2>1. b # c
    BY <1>7
  <2>2. CASE Finishes(b)
    BY <2>1, <2>2 DEF Finishes
  <2>3. CASE \/ Answered(b) \/ Broken(b) \/ RefusedByCode(b) \/ RefusedByMessage(b)
             \/ Unauthorized(b) \/ RefreshRefused(b) \/ RefreshBroken(b)
    BY <2>2, <2>3 DEF Answered, Broken, RefusedByCode, RefusedByMessage, Unauthorized, RefreshRefused, RefreshBroken,
                      Succeeds, Fails, EndsCall
  <2>4. CASE StartRefresh(b)
    BY <2>1, <2>4 DEF StartRefresh, Refreshes
  <2>5. CASE Lost(b)
    BY <2>1, <2>2, <2>5 DEF Lost, Fails, TimesOut, EndsCall
  <2>6. CASE Repeat(b)
    BY <2>1, <2>6 DEF Repeat, Sends
  <2>7. CASE Refreshed(b)
    BY <2>1, <2>2, <2>7 DEF Refreshed, GoesOn
  <2>8. CASE RefreshLost(b) \/ RepeatRefresh(b)
    BY <2>1, <2>2, <2>8 DEF RefreshLost, RepeatRefresh
  <2> QED
    BY <1>7, <2>3, <2>4, <2>5, <2>6, <2>7, <2>8 DEF TaskProceeds
<1> QED
  BY <1>1, <1>2, <1>3, <1>4, <1>5, <1>6, <1>7 DEF SessionNext

(* No call of the page and no refresh goes round for ever: as long as no    *)
(* token expires or is refused, each of its steps repeats it once more, at  *)
(* most MaxRetries times, or lowers a number that begins at 2*MaxRetries+5  *)
(* at most.  So what other calls do in between, however many refresh the    *)
(* session at once, never sends it back to the start.                       *)
THEOREM NoCallGoesRound == SessionSpec => []TriesAreBounded /\ CallsDescend
<1> DEFINE Descends ==
      \A c \in PageTasks : taskPc[c] # "idle" =>
        \/ Lower(c)
        \/ mishaps' > mishaps
        \/ ~TaskProceeds(c) /\ tries'[c] = tries[c] /\ Phase(c)' = Phase(c)
<1>1. SessionTypeOK => TriesAreBounded
  BY PhaseBounded
<1>2. SessionTypeOK /\ [SessionNext]_sessionVars => [Descends]_sessionVars
  <2> SUFFICES ASSUME SessionTypeOK, SessionNext, NEW c \in PageTasks, taskPc[c] # "idle"
               PROVE  \/ Lower(c)
                      \/ mishaps' > mishaps
                      \/ ~TaskProceeds(c) /\ tries'[c] = tries[c] /\ Phase(c)' = Phase(c)
    OBVIOUS
  <2>1. CASE TaskProceeds(c)
    BY <2>1, TaskDescends
  <2>2. CASE ~TaskProceeds(c)
    <3>1. \/ taskPc'[c] = "idle"
          \/ mishaps' > mishaps
          \/ tries'[c] = tries[c] /\ Phase(c)' = Phase(c)
      BY <2>2, OthersLeaveIt
    <3> QED
      BY <2>2, <3>1 DEF Lower
  <2> QED
    BY <2>1, <2>2
<1> QED
  BY <1>1, <1>2, SessionsAreWellTyped, PTL DEF SessionSpec, CallsDescend

-----------------------------------------------------------------------------
ScheduleInv == ScheduleTypeOK /\ JobsWereFound

LEMMA ScheduleInvKept ==
  ASSUME ScheduleInv, [ScheduleNext]_scheduleVars
  PROVE  ScheduleInv'
<1>1. ScheduleTypeOK /\ JobsWereFound
  BY DEF ScheduleInv
<1>2. CASE StartUp
  BY <1>1, <1>2 DEF StartUp, ScheduleInv, ScheduleTypeOK, JobsWereFound
<1>3. ASSUME GoesDown, UNCHANGED <<strategyStatus, plan, found>> PROVE ScheduleInv'
  BY <1>1, <1>3 DEF GoesDown, ScheduleInv, ScheduleTypeOK, JobsWereFound
<1>4. CASE RemoveJobs
  BY <1>1, <1>4 DEF RemoveJobs, ScheduleInv, ScheduleTypeOK, JobsWereFound
<1>5. CASE FindEnabled
  <2>1. \A s \in Strategies : cronJob'[s] = "none"
    BY <1>1, <1>5 DEF FindEnabled, ScheduleTypeOK, JobsWereFound
  <2>2. ScheduleTypeOK'
    BY <1>1, <1>5 DEF FindEnabled, ScheduleTypeOK, Plans
  <2> QED
    BY <2>1, <2>2 DEF ScheduleInv, JobsWereFound
<1>6. ASSUME NEW adding \in SUBSET Daily, Raises(adding), planner # "idle" PROVE ScheduleInv'
  <2>1. ScheduleTypeOK'
    BY <1>1, <1>6 DEF Raises, ScheduleTypeOK
  <2>2. \A s \in Strategies : cronJob[s] = "none"
    BY <1>1, <1>6 DEF JobsWereFound, ScheduleTypeOK
  <2> QED
    BY <2>1, <2>2, <1>6 DEF Raises, Daily, ScheduleInv, JobsWereFound
<1>7. CASE AddJobs
  <2>1. ScheduleTypeOK'
    BY <1>1, <1>7 DEF AddJobs, ScheduleTypeOK
  <2>2. \A s \in Strategies : cronJob[s] = "none"
    BY <1>1, <1>7 DEF AddJobs, JobsWereFound, ScheduleTypeOK
  <2> QED
    BY <2>1, <2>2, <1>7 DEF AddJobs, Daily, ScheduleInv, JobsWereFound
<1>8. CASE \E s \in Strategies : CreateStrategy(s) \/ UpdateStrategy(s)
  <2>1. PICK s \in Strategies : CreateStrategy(s) \/ UpdateStrategy(s)
    BY <1>8
  <2> QED
    BY <1>1, <2>1 DEF CreateStrategy, UpdateStrategy, ScheduleInv, ScheduleTypeOK, JobsWereFound
<1>9. CASE \E s \in Strategies : PauseJob(s) \/ ResumeJob(s)
  <2>1. PICK s \in Strategies : PauseJob(s) \/ ResumeJob(s)
    BY <1>9
  <2> QED
    BY <1>1, <2>1 DEF PauseJob, ResumeJob, ScheduleInv, ScheduleTypeOK, JobsWereFound
<1>10. CASE UNCHANGED scheduleVars
  BY <1>1, <1>10 DEF scheduleVars, ScheduleInv, ScheduleTypeOK, JobsWereFound
<1>11. CASE FindFails
  <2>1. {} \in SUBSET Daily /\ planner # "idle" /\ Raises({})
    BY <1>11 DEF FindFails
  <2> QED
    BY <1>6, <2>1
<1>12. CASE AddFails
  BY <1>6, <1>12 DEF AddFails
<1>13. CASE ProcessStops
  BY <1>3, <1>13 DEF ProcessStops
<1> QED
  BY <1>2, <1>4, <1>5, <1>7, <1>8, <1>9, <1>10, <1>11, <1>12, <1>13
     DEF ScheduleNext, PlannerProceeds

(* Whatever the edits and however the process came up, a daily job belongs  *)
(* to a strategy that the last look of register_enabled_strategy_jobs found *)
(* enabled, and between its removals and its additions there are none.      *)
THEOREM JobsComeFromTheLastLook == ScheduleSpec => []JobsWereFound
<1>1. ScheduleInit => ScheduleInv
  BY DEF ScheduleInit, ScheduleInv, ScheduleTypeOK, JobsWereFound, Plans
<1>2. ScheduleInv => JobsWereFound
  BY DEF ScheduleInv
<1> QED
  BY <1>1, <1>2, ScheduleInvKept, PTL DEF ScheduleSpec
-----------------------------------------------------------------------------
\* A step of the process is a step of each part, or none of it.
LEMMA EachPartKeepsItsSpec ==
  ASSUME [WebNext]_webVars
  PROVE  /\ [Next]_vars /\ [SyncNext]_syncVars /\ [AskNext]_askVars
         /\ [ImportNext]_importVars /\ [PoolNext]_poolVars
         /\ [SessionNext]_sessionVars /\ [ScheduleNext]_scheduleVars
BY DEF WebNext, webVars, elsewhere, Screening, Syncing, Asking, Importing,
       Fetching, Elsewhere, Browsing, Scheduling

(* In the process each part behaves as it does by itself.                   *)
THEOREM PartsAreThemselves ==
  WebFairSpec =>
    /\ Spec /\ SyncSpec /\ AskSpec /\ ImportSpec /\ PoolSpec /\ SessionSpec /\ ScheduleSpec
<1>1. WebInit => /\ Init /\ SyncInit /\ AskInit /\ ImportInit /\ PoolInit
                 /\ SessionInit /\ ScheduleInit
  BY DEF WebInit
<1> QED
  BY <1>1, EachPartKeepsItsSpec, PTL
     DEF WebFairSpec, Spec, SyncSpec, AskSpec, ImportSpec, PoolSpec, SessionSpec, ScheduleSpec

(* What is proved of each part by itself holds in the process that runs     *)
(* them all: what run WebProcess checks for its instance.                   *)
THEOREM TheProcessIsSafe ==
  WebFairSpec =>
    /\ [](TypeOK /\ CompletedIsWhole /\ EarlyCancelSticks /\ ReturnedIsReported)
    /\ [](SyncTypeOK /\ TableIsTrue /\ ConnectionFailsOnce)
    /\ [](FlagMeansServing /\ DeadProxiesAreLeftAlone /\ SessionTypeOK /\ JobsWereFound)
    /\ [](OutcomesAreBounded /\ SomebodyGoesOn /\ TriesAreBounded)
    /\ CompletedStays /\ ImportIsAtomic /\ NoNeedlessLogout
    /\ RunDescends /\ JobsDescend /\ CallsDescend
<1>1. Spec => [](TypeOK /\ CompletedIsWhole /\ EarlyCancelSticks /\ ReturnedIsReported)
  BY ScreeningTypeCorrect, CompletedMeansWhole, EarlyCancelIsFinal, ReturnIsReported, PTL
<1>2. SyncSpec => [](SyncTypeOK /\ TableIsTrue /\ ConnectionFailsOnce)
  BY SyncTypeCorrect, TableTellsTheTruth, TheConnectionFailsOnce, PTL
<1>3. AskSpec /\ PoolSpec /\ SessionSpec /\ ScheduleSpec =>
        [](FlagMeansServing /\ DeadProxiesAreLeftAlone /\ SessionTypeOK /\ JobsWereFound)
  BY TheFlagIsNeverLeftBehind, DeadProxiesAreSkipped, SessionsAreWellTyped,
     JobsComeFromTheLastLook, PTL
<1>4. SyncSpec /\ AskSpec /\ SessionSpec =>
        [](OutcomesAreBounded /\ SomebodyGoesOn /\ TriesAreBounded)
  BY NoJobRunsForEver, RequestsNeverBlockEachOther, NoCallGoesRound, PTL
<1>5. Spec /\ SyncSpec /\ SessionSpec => RunDescends /\ JobsDescend /\ CallsDescend
  BY TheRunGoesNowhereTwice, NoJobRunsForEver, NoCallGoesRound
<1> QED
  BY <1>1, <1>2, <1>3, <1>4, <1>5, PartsAreThemselves, CompletedIsFinal, ImportsAreAtomic,
     SessionsEndForAReason, PTL
=============================================================================
