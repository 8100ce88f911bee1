---------------------------- MODULE BrowserSession ----------------------------
(***************************************************************************)
(* The session of one page of the web frontend: the two tokens in the auth *)
(* store (frontend/src/stores/auth.ts), the calls whose failures axios'    *)
(* interceptors handle (frontend/src/api/request.ts), the timer that       *)
(* refreshes the access token before it expires (frontend/src/utils/auth.ts)*)
(* and the server's side of it (app/routers/auth_db.py).  Local storage    *)
(* always holds what the store holds and is not kept apart.  A call is a   *)
(* task of the browser: it goes on when the network has an answer or a     *)
(* delay is over, and other tasks run in between.  The server keeps no     *)
(* state of a session, so its answer is one step with what the page makes  *)
(* of it.  A view may catch the error its call ends with or not: what it    *)
(* lets through reaches the error handler of the page (frontend/src/main.ts)*)
(* which takes a 401, or a message that speaks of a Token or of a login,    *)
(* for the end of the session.                                              *)
(***************************************************************************)
EXTENDS Integers

CONSTANTS Calls,       \* API calls that may be under way at the same time
          Timer,       \* the check that setupTokenRefreshTimer repeats
          MaxRetries,  \* retryCount: repetitions after a network error
          MaxMishaps   \* bound: tokens that expire or are refused

ASSUME SessionConstants ==
  Timer \notin Calls /\ MaxRetries \in Nat /\ MaxMishaps \in Nat

PageTasks == Calls \cup {Timer}

VARIABLES
  access,      \* the access token of the store: none, fresh or stale
  refresh,     \* its refresh token: none, good or dead
  taskPc,      \* progress of each task
  kind,        \* what a call is for: a view, the check of a new page, a logout
  header,      \* the access token a request has been sent with
  carried,     \* the refresh token a refresh has been sent with
  tries,       \* __retryCount of the request ...
  refreshTries,\* ... and of the refresh made for it
  handling,    \* isHandling401
  page,        \* "new" until it has looked at the session it found
  excuse,      \* history: "yes" once a session may end
  mishaps

sessionVars == <<access, refresh, taskPc, kind, header, carried, tries,
                 refreshTries, handling, page, excuse, mishaps>>

Kinds == {"view", "check", "logout"}
TaskPCs == {"idle", "sent", "waiting", "refreshing", "refreshWaiting"}

SessionTypeOK ==
  /\ access \in {"none", "fresh", "stale"} /\ refresh \in {"none", "good", "dead"}
  /\ taskPc \in [PageTasks -> TaskPCs] /\ kind \in [PageTasks -> Kinds]
  /\ header \in [PageTasks -> {"none", "fresh", "stale"}]
  /\ carried \in [PageTasks -> {"none", "good", "dead"}]
  /\ tries \in [PageTasks -> 0..MaxRetries]
  /\ refreshTries \in [PageTasks -> 0..MaxRetries]
  /\ handling \in {"yes", "no"} /\ page \in {"new", "shown"} /\ excuse \in {"yes", "no"}
  /\ mishaps \in 0..MaxMishaps

\* A page is loaded with the tokens of an earlier visit, or with none.
SessionInit ==
  /\ access \in {"none", "fresh", "stale"}
  /\ refresh = IF access = "none" THEN "none" ELSE "good"
  /\ taskPc = [c \in PageTasks |-> "idle"] /\ kind = [c \in PageTasks |-> "view"]
  /\ header = [c \in PageTasks |-> "none"] /\ carried = [c \in PageTasks |-> "none"]
  /\ tries = [c \in PageTasks |-> 0] /\ refreshTries = [c \in PageTasks |-> 0]
  /\ handling = "no" /\ page = "new" /\ excuse = "no" /\ mishaps = 0

-----------------------------------------------------------------------------
(* What a task does next, and what it forgets on the way.                   *)

\* The request interceptor puts the newest token into every (re)transmission.
Sends(c) ==
  /\ taskPc' = [taskPc EXCEPT ![c] = "sent"]
  /\ header' = [header EXCEPT ![c] = access]
  /\ carried' = [carried EXCEPT ![c] = "none"]
  /\ refreshTries' = [refreshTries EXCEPT ![c] = 0]

Refreshes(c) ==
  /\ taskPc' = [taskPc EXCEPT ![c] = "refreshing"]
  /\ header' = [header EXCEPT ![c] = "none"]
  /\ carried' = [carried EXCEPT ![c] = refresh]
  /\ refreshTries' = [refreshTries EXCEPT ![c] = 0]

Finishes(c) ==
  /\ taskPc' = [taskPc EXCEPT ![c] = "idle"]
  /\ header' = [header EXCEPT ![c] = "none"]
  /\ carried' = [carried EXCEPT ![c] = "none"]
  /\ tries' = [tries EXCEPT ![c] = 0]
  /\ refreshTries' = [refreshTries EXCEPT ![c] = 0]

Clears == access' = "none" /\ refresh' = "none"

\* handle401Error does its work once in three seconds: a view that comes second
\* leaves the session alone.  A logout and a check clear it on their own.
Handle401(c) ==
  /\ handling' = "yes"
  /\ IF handling = "no" \/ kind[c] # "view" THEN Clears ELSE UNCHANGED <<access, refresh>>

-----------------------------------------------------------------------------
Login ==
  /\ access = "none" /\ access' = "fresh" /\ refresh' = "good"
  /\ UNCHANGED <<taskPc, kind, header, carried, tries, refreshTries, handling,
                 excuse, mishaps, page>>

Call(c) ==
  /\ taskPc[c] = "idle" /\ Sends(c)
  /\ kind' \in {[kind EXCEPT ![c] = k] : k \in {"view", "logout"}}
  /\ kind'[c] = "logout" => access # "none"
  /\ excuse' = IF kind'[c] = "logout" THEN "yes" ELSE excuse
  /\ UNCHANGED <<access, refresh, tries, handling, mishaps, page>>

\* F5, or window.location.href of redirectToLogin: the tasks of the old page
\* are gone, and a new one starts with what was stored.
Reload ==
  /\ page' = "new"
  /\ taskPc' = [c \in PageTasks |-> "idle"] /\ kind' = [c \in PageTasks |-> "view"]
  /\ header' = [c \in PageTasks |-> "none"] /\ carried' = [c \in PageTasks |-> "none"]
  /\ tries' = [c \in PageTasks |-> 0] /\ refreshTries' = [c \in PageTasks |-> 0]
  /\ handling' = "no"
  /\ UNCHANGED <<access, refresh, excuse, mishaps>>

\* A new page asks for the user, if there is a token and the server is up.
Check(c) ==
  /\ page = "new" /\ page' = "shown" /\ access # "none"
  /\ taskPc[c] = "idle" /\ Sends(c) /\ kind' = [kind EXCEPT ![c] = "check"]
  /\ UNCHANGED <<access, refresh, tries, handling, excuse, mishaps>>

-----------------------------------------------------------------------------
(* The end of a call.  A logout clears the session however its call ended,  *)
(* the check of a new page when it failed, except for a timeout.            *)
EndsCall(c, clearing) ==
  /\ Finishes(c)
  /\ IF kind[c] \in clearing THEN Clears ELSE UNCHANGED <<access, refresh>>

Succeeds(c) == EndsCall(c, {"logout"})
Fails(c) == EndsCall(c, {"logout", "check"})
TimesOut(c) == EndsCall(c, {"logout"})

\* What fails for another reason than authentication ends no session, if it is
\* a view that fails.
ExcusesUnlessView(c) == excuse' = IF kind[c] = "view" THEN excuse ELSE "yes"

Answered(c) ==
  /\ taskPc[c] = "sent" /\ header[c] = "fresh" /\ Succeeds(c)
  /\ UNCHANGED <<kind, handling, excuse, mishaps, page>>

\* Any other error status than 401, or a refusal that says nothing of
\* authentication: the error handler of the page has no use for it.
Broken(c) ==
  /\ taskPc[c] = "sent" /\ Fails(c) /\ ExcusesUnlessView(c)
  /\ UNCHANGED <<kind, handling, mishaps, page>>

\* Status 200, but no success and a code of authentication.  The interceptor
\* handles it like a 401 that cannot be refreshed, whatever the page still has,
\* and rejects with a message that the error handler of the page knows.
RefusedByCode(c) ==
  /\ taskPc[c] = "sent" /\ header[c] = "fresh" /\ Finishes(c)
  /\ Handle401(c) \/ (handling' = "yes" /\ Clears)
  /\ excuse' = "yes"
  /\ UNCHANGED <<kind, mishaps, page>>

\* Status 200, no success, and a message that speaks of a Token or a login, be
\* it the Token of a data source: the session is there unless the view lets the
\* error through.
RefusedByMessage(c) ==
  /\ taskPc[c] = "sent" /\ header[c] = "fresh"
  /\ Finishes(c)
  /\ \/ Clears /\ excuse' = "yes"
     \/ kind[c] = "view" /\ UNCHANGED <<access, refresh, excuse>>
  /\ UNCHANGED <<kind, handling, mishaps, page>>

\* A 401 to a page without a session.
Unauthorized(c) ==
  /\ taskPc[c] = "sent" /\ header[c] # "fresh" /\ refresh = "none"
  /\ Finishes(c) /\ Handle401(c)
  /\ UNCHANGED <<kind, excuse, mishaps, page>>

StartRefresh(c) ==
  /\ taskPc[c] = "sent" /\ header[c] # "fresh" /\ refresh # "none" /\ Refreshes(c)
  /\ UNCHANGED <<access, refresh, kind, tries, handling, excuse, mishaps, page>>

MutLost(c) ==  \* the repetitions are not counted
  /\ taskPc[c] = "sent" /\ ExcusesUnlessView(c)
  /\ \/ /\ tries[c] < MaxRetries
        /\ taskPc' = [taskPc EXCEPT ![c] = "waiting"]
        /\ UNCHANGED <<access, refresh, header, carried, tries, refreshTries>>
     \/ tries[c] = MaxRetries /\ (Fails(c) \/ TimesOut(c))
  /\ UNCHANGED <<kind, handling, mishaps, page>>

MutLostOnce(c) ==  \* one repetition too many
  /\ taskPc[c] = "sent" /\ ExcusesUnlessView(c)
  /\ \/ /\ tries[c] <= MaxRetries
        /\ taskPc' = [taskPc EXCEPT ![c] = "waiting"]
        /\ tries' = [tries EXCEPT ![c] = @ + 1]
        /\ UNCHANGED <<access, refresh, header, carried, refreshTries>>
     \/ tries[c] > MaxRetries /\ (Fails(c) \/ TimesOut(c))
  /\ UNCHANGED <<kind, handling, mishaps, page>>

\* No answer: a timeout or a network error.
Lost(c) ==
  /\ taskPc[c] = "sent" /\ ExcusesUnlessView(c)
  /\ \/ /\ tries[c] < MaxRetries
        /\ taskPc' = [taskPc EXCEPT ![c] = "waiting"]
        /\ tries' = [tries EXCEPT ![c] = @ + 1]
        /\ UNCHANGED <<access, refresh, header, carried, refreshTries>>
     \/ tries[c] = MaxRetries /\ (Fails(c) \/ TimesOut(c))
  /\ UNCHANGED <<kind, handling, mishaps, page>>

Repeat(c) ==
  /\ taskPc[c] = "waiting" /\ Sends(c)
  /\ UNCHANGED <<access, refresh, kind, tries, handling, excuse, mishaps, page>>

-----------------------------------------------------------------------------
(* refreshAccessToken, called by the response interceptor or by the timer.  *)

\* The timer finds the token valid for less than five minutes.
TimerFires ==
  /\ taskPc[Timer] = "idle" /\ access = "fresh" /\ refresh # "none" /\ Refreshes(Timer)
  /\ UNCHANGED <<access, refresh, kind, tries, handling, excuse, mishaps, page>>

\* The call that was refused is sent again with the new token.
GoesOn(c) ==
  IF c = Timer
    THEN Finishes(c)
    ELSE /\ taskPc' = [taskPc EXCEPT ![c] = "sent"]
         /\ header' = [header EXCEPT ![c] = "fresh"]
         /\ carried' = [carried EXCEPT ![c] = "none"]
         /\ refreshTries' = [refreshTries EXCEPT ![c] = 0]
         /\ UNCHANGED tries

MutRefreshed(c) ==  \* a refresh token serves once
  /\ taskPc[c] = "refreshing" /\ carried[c] = "good"
  /\ access' = "fresh" /\ refresh' = "good"
  /\ taskPc' = [taskPc EXCEPT ![c] = IF c = Timer THEN "idle" ELSE "sent"]
  /\ header' = [header EXCEPT ![c] = "fresh"]
  /\ carried' = [b \in PageTasks |-> IF b # c /\ carried[b] = "good" THEN "dead" ELSE "none"]
  /\ refreshTries' = [refreshTries EXCEPT ![c] = 0]
  /\ UNCHANGED <<kind, tries, handling, excuse, mishaps, page>>

Refreshed(c) ==
  /\ taskPc[c] = "refreshing" /\ carried[c] = "good"
  /\ access' = "fresh" /\ refresh' = "good" /\ GoesOn(c)
  /\ UNCHANGED <<kind, handling, excuse, mishaps, page>>

\* 401: the interceptor of the refresh itself and then refreshAccessToken end
\* the session, whatever became of it meanwhile.
RefreshRefused(c) ==
  /\ taskPc[c] = "refreshing" /\ carried[c] = "dead"
  /\ Finishes(c) /\ Clears /\ handling' = "yes"
  /\ UNCHANGED <<kind, excuse, mishaps, page>>

\* An error of the server (5xx): refreshAccessToken keeps the session, but a call
\* that was refused is still treated as one without a session.  Any other error
\* ends it, and so does a view that lets its 401 through.
RefreshBroken(c) ==
  /\ taskPc[c] = "refreshing" /\ excuse' = "yes" /\ Finishes(c)
  /\ \/ c = Timer /\ UNCHANGED <<access, refresh, handling>>
     \/ c # Timer /\ Handle401(c)
     \/ Clears /\ handling' = IF c = Timer THEN handling ELSE "yes"
  /\ UNCHANGED <<kind, mishaps, page>>

RefreshLost(c) ==
  /\ taskPc[c] = "refreshing" /\ excuse' = "yes"
  /\ \/ /\ refreshTries[c] < MaxRetries
        /\ taskPc' = [taskPc EXCEPT ![c] = "refreshWaiting"]
        /\ refreshTries' = [refreshTries EXCEPT ![c] = @ + 1]
        /\ UNCHANGED <<access, refresh, header, carried, tries, handling>>
     \/ /\ refreshTries[c] = MaxRetries /\ Finishes(c) /\ Clears
        /\ handling' = IF c = Timer THEN handling ELSE "yes"
  /\ UNCHANGED <<kind, mishaps, page>>

RepeatRefresh(c) ==
  /\ taskPc[c] = "refreshWaiting"
  /\ taskPc' = [taskPc EXCEPT ![c] = "refreshing"]
  /\ UNCHANGED <<access, refresh, kind, header, carried, tries, refreshTries,
                 handling, excuse, mishaps, page>>

-----------------------------------------------------------------------------
(* What happens to the tokens, and to the flag of handle401Error.           *)
Aged(token) == IF token = "fresh" THEN "stale" ELSE token
Killed(token) == IF token = "good" THEN "dead" ELSE token

\* An hour has passed.
Expires ==
  /\ access = "fresh" /\ mishaps < MaxMishaps /\ mishaps' = mishaps + 1
  /\ access' = "stale" /\ header' = [c \in PageTasks |-> Aged(header[c])]
  /\ UNCHANGED <<refresh, taskPc, kind, carried, tries, refreshTries, handling, excuse, page>>

\* The account is closed, or the page was left alone for a week.
SessionEnds ==
  /\ refresh = "good" /\ excuse' = "yes" /\ mishaps < MaxMishaps /\ mishaps' = mishaps + 1
  /\ access' = Aged(access) /\ refresh' = "dead"
  /\ header' = [c \in PageTasks |-> Aged(header[c])]
  /\ carried' = [c \in PageTasks |-> Killed(carried[c])]
  /\ UNCHANGED <<taskPc, kind, tries, refreshTries, handling, page>>

\* get_user_by_username answers "no such user" when the database fails, and
\* the token is refused.
DatabaseFails(c) ==
  /\ excuse' = "yes" /\ mishaps < MaxMishaps /\ mishaps' = mishaps + 1
  /\ \/ /\ taskPc[c] = "sent" /\ header[c] = "fresh"
        /\ header' = [header EXCEPT ![c] = "stale"] /\ UNCHANGED carried
     \/ /\ taskPc[c] = "refreshing" /\ carried[c] = "good"
        /\ carried' = [carried EXCEPT ![c] = "dead"] /\ UNCHANGED header
  /\ UNCHANGED <<access, refresh, taskPc, kind, tries, refreshTries, handling, page>>

ThreeSecondsPass ==
  /\ handling = "yes" /\ handling' = "no"
  /\ UNCHANGED <<access, refresh, taskPc, kind, header, carried, tries,
                 refreshTries, excuse, mishaps, page>>

TaskProceeds(c) ==
  \/ Answered(c) \/ RefusedByCode(c) \/ RefusedByMessage(c) \/ Broken(c) \/ Unauthorized(c) 
  \/ StartRefresh(c) \/ Lost(c) \/ Repeat(c)
  \/ Refreshed(c) \/ RefreshRefused(c) \/ RefreshBroken(c) \/ RefreshLost(c)
  \/ RepeatRefresh(c)

SessionNext ==
  \/ Login \/ TimerFires \/ Expires \/ SessionEnds \/ ThreeSecondsPass \/ Reload
  \/ \E c \in Calls : Call(c) \/ Check(c)
  \/ \E c \in PageTasks : TaskProceeds(c) \/ DatabaseFails(c)

SessionSpec == SessionInit /\ [][SessionNext]_sessionVars

-----------------------------------------------------------------------------
(* Nobody is logged out because an access token ran out: however calls, the *)
(* timer and reloads race for a new one, and although views are answered    *)
(* with errors or not at all, the session is there until the user logs out, *)
(* the server ends it, a refresh or the check of a new page fails, or an    *)
(* answer to a call says of itself, by its code or its message, that it is  *)
(* about authentication.                                                    *)
NoNeedlessLogout == [][access # "none" /\ access' = "none" => excuse' = "yes"]_sessionVars
=============================================================================
