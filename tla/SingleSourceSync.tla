--------------------------- MODULE SingleSourceSync ---------------------------
(***************************************************************************)
(* run_full_sync of app/services/basics_sync_service.py: the guard under   *)
(* the service's lock, two writes of a status, the flag reset under the    *)
(* lock again.  The sync it stands for was moved to another service; what  *)
(* is left between guard and reset are the awaits of the status writes,    *)
(* whose exceptions _persist_status swallows.                              *)
(***************************************************************************)
CONSTANTS Askers,  \* requests that may be served at the same time
          NoAsker

ASSUME AskersAssumption == NoAsker \notin Askers

VARIABLES syncing,  \* the flag _running
          lock,     \* who holds _lock, or NoAsker
          askPc,    \* progress of each request
          forced    \* "yes" if that request passed force

askVars == <<syncing, lock, askPc, forced>>

AskPCs == {"idle", "enter", "skip", "started", "finished", "leave"}
Serving == {"started", "finished", "leave"}

AskInit ==
  /\ syncing = "no" /\ lock = NoAsker
  /\ askPc = [a \in Askers |-> "idle"]
  /\ forced = [a \in Askers |-> "no"]

Turns(a, from, to) == askPc[a] = from /\ askPc' = [askPc EXCEPT ![a] = to]

Ask(a) ==
  /\ Turns(a, "idle", "enter")
  /\ forced' \in {[forced EXCEPT ![a] = f] : f \in {"yes", "no"}}
  /\ UNCHANGED <<syncing, lock>>

\* A request that is turned away keeps the lock while it reads the status.
Guard(a) ==
  /\ lock = NoAsker
  /\ IF syncing = "yes" /\ forced[a] = "no"
       THEN Turns(a, "enter", "skip") /\ lock' = a /\ UNCHANGED syncing
       ELSE Turns(a, "enter", "started") /\ syncing' = "yes" /\ UNCHANGED lock
  /\ UNCHANGED forced

MutSkip(a) ==  \* the lock is not released on this way out
  /\ Turns(a, "skip", "idle")
  /\ UNCHANGED <<syncing, lock, forced>>

Skip(a) ==
  /\ Turns(a, "skip", "idle") /\ lock' = NoAsker
  /\ UNCHANGED <<syncing, forced>>

PersistRunning(a) == Turns(a, "started", "finished") /\ UNCHANGED <<syncing, lock, forced>>
PersistSuccess(a) == Turns(a, "finished", "leave") /\ UNCHANGED <<syncing, lock, forced>>

MutReset(a) ==  \* the flag survives the request
  /\ lock = NoAsker /\ Turns(a, "leave", "idle")
  /\ syncing' = IF forced[a] = "yes" THEN syncing ELSE "no"
  /\ UNCHANGED <<lock, forced>>

\* The finally clause: whoever ends resets the flag, also of a run it was
\* forced to overtake.
Reset(a) ==
  /\ lock = NoAsker /\ Turns(a, "leave", "idle")
  /\ syncing' = "no"
  /\ UNCHANGED <<lock, forced>>

Serve(a) == Guard(a) \/ Skip(a) \/ PersistRunning(a) \/ PersistSuccess(a) \/ Reset(a)

AskNext == \E a \in Askers : Ask(a) \/ Serve(a)

AskSpec == AskInit /\ [][AskNext]_askVars

-----------------------------------------------------------------------------
(* The flag is set only while some request is between its guard and its     *)
(* reset, whichever requests were forced past another: nobody is turned     *)
(* away, and nobody will be, by a run that is over.                         *)
FlagMeansServing == syncing = "yes" => \E a \in Askers : askPc[a] \in Serving
=============================================================================
