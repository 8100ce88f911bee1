------------------------------ MODULE WebProcess ------------------------------
(***************************************************************************)
(* Background work of one web process: the screening of PatternScreening,  *)
(* the sync jobs of UnifiedSync, the requests of SingleSourceSync, the     *)
(* imports of DataImport, the downloads of ProxyPool and the daily jobs    *)
(* of StrategySchedule; and the session of a page it serves,               *)
(* BrowserSession.                                                         *)
(* No action of one of them reads or writes what another one keeps, so a   *)
(* behaviour of the process is an interleaving of independent ones, and it *)
(* is enough that each behaviour here follows one.                         *)
(***************************************************************************)
EXTENDS PatternScreening, UnifiedSync, SingleSourceSync, DataImport, ProxyPool,
        BrowserSession, StrategySchedule

VARIABLE focus  \* the work this behaviour follows

elsewhere == <<sessionVars, scheduleVars, focus>>
webVars == <<vars, syncVars, askVars, importVars, poolVars, elsewhere>>

WebInit ==
  /\ Init /\ SyncInit /\ AskInit /\ ImportInit /\ PoolInit /\ SessionInit /\ ScheduleInit
  /\ focus \in {"screening", "sync", "basics", "import", "pool", "session", "schedule"}
  /\ focus # "pool" => works = Proxies  \* of no interest to the others,
  /\ focus # "session" => access = "none"  \* and neither is this

Screening == focus = "screening" /\ UNCHANGED <<syncVars, askVars, importVars, poolVars, elsewhere>>
Syncing == focus = "sync" /\ UNCHANGED <<vars, askVars, importVars, poolVars, elsewhere>>
Asking == focus = "basics" /\ UNCHANGED <<vars, syncVars, importVars, poolVars, elsewhere>>
Importing == focus = "import" /\ UNCHANGED <<vars, syncVars, askVars, poolVars, elsewhere>>
Fetching == focus = "pool" /\ UNCHANGED <<vars, syncVars, askVars, importVars, elsewhere>>
Elsewhere == UNCHANGED <<vars, syncVars, askVars, importVars, poolVars, focus>>
Browsing == focus = "session" /\ Elsewhere /\ UNCHANGED scheduleVars
Scheduling == focus = "schedule" /\ Elsewhere /\ UNCHANGED sessionVars

WebNext ==
  \/ Screening /\ Next
  \/ Syncing /\ SyncNext
  \/ Asking /\ AskNext
  \/ Importing /\ ImportNext
  \/ Fetching /\ PoolNext
  \/ Browsing /\ SessionNext
  \/ Scheduling /\ ScheduleNext

(* Every coroutine that can go on does, in the end: providers answer, raise *)
(* or time out.  The lock of the basics sync is handed on in the order of   *)
(* the requests, so who waits for it gets it although it is taken again and *)
(* again.  axios gives up on an answer after a while, and a delay ends.     *)
(* APScheduler runs the job that adds the others every ten minutes.  Nobody *)
(* has to cancel anything or to ask for anything.                           *)
WebFairSpec ==
  /\ WebInit /\ [][WebNext]_webVars
  /\ WF_webVars(Screening /\ RunProceeds)
  /\ \A j \in Jobs : WF_webVars(Syncing /\ RunSync(j))
  /\ \A a \in Askers : SF_webVars(Asking /\ Serve(a))
  /\ \A c \in PageTasks : WF_webVars(Browsing /\ TaskProceeds(c))
  /\ WF_webVars(Scheduling /\ PlannerProceeds)

-----------------------------------------------------------------------------
(* TaskSettles of PatternScreening, in the behaviours that follow it.       *)
ScreeningSettles == focus = "screening" => TaskSettles

(* A job whose run has begun ends, however its steps fail and although its  *)
(* cancellation changes what the table says of it on the way.               *)
EveryJobReturns == \A j \in Jobs : jobPc[j] = "loop" ~> jobPc[j] = "returned"

(* Every request of a basics sync is answered: what turns it away keeps the *)
(* lock while it reads the status, and gives it back.                       *)
EveryAskIsAnswered == \A a \in Askers : askPc[a] = "enter" ~> askPc[a] = "idle"

(* Every call of a page ends, answered or not: the repetitions after a      *)
(* network error are counted, and a call that is refused again after a      *)
(* refresh, which nobody counts, needs a token that runs out each time.     *)
EveryCallSettles == \A c \in Calls : taskPc[c] # "idle" ~> taskPc[c] = "idle"
=============================================================================
