------------------------------ MODULE ProxyPool ------------------------------
(***************************************************************************)
(* The proxies through which AKShare's requests to eastmoney.com go, in    *)
(* tradingagents/dataflows/providers/china/akshare_network.py.  Requests   *)
(* run in threads of their own.  Each critical section of the pool's lock  *)
(* is one step; what the code reads outside of it is a step of its own.    *)
(* A request that curl_cffi serves never gets here; the scores the pool    *)
(* keeps decide nothing and are left out, and so is the pause between two  *)
(* requests.                                                               *)
(***************************************************************************)
EXTENDS Integers, Sequences, FiniteSets

CONSTANTS Fetchers,       \* threads
          NumStatic,      \* proxies of AKSHARE_PROXIES ...
          NumDynamic,     \* ... and of the proxy API, when it answers
          IncludeDirect,  \* AKSHARE_PROXY_INCLUDE_DIRECT
          Rounds,         \* AKSHARE_PROXY_ROUNDS
          MaxFailures     \* _max_consecutive_failures

ASSUME PoolConstants ==
  /\ IsFiniteSet(Fetchers)
  /\ NumStatic \in Nat /\ NumDynamic \in Nat /\ IncludeDirect \in BOOLEAN
  /\ Rounds \in Nat /\ MaxFailures \in Nat \ {0}

Direct == 0  \* no proxy at all
Proxies == 0..(NumStatic + NumDynamic)

VARIABLES
  pool,      \* _pool
  index,     \* _index, into the pool, from 0
  failures,  \* _failures: how often in a row a proxy has failed
  due,       \* "yes" when the pool is older than the cache time
  fetchPc,   \* progress of each thread's request
  rounds,    \* rounds it has begun
  turns,      \* proxies it may still ask for in this round
  hand,      \* the proxy it was given
  works      \* proxies that serve every request; the others refuse it

poolVars == <<pool, index, failures, due, fetchPc, rounds, turns, hand, works>>

FetchPCs == {"idle", "round", "check", "refresh", "pick", "send"}

PoolTypeOK ==
  /\ pool \in Seq(Proxies) /\ Len(pool) > 0
  /\ index \in 0..(Len(pool) - 1)
  /\ failures \in [Proxies -> Nat] /\ due \in {"yes", "no"}
  /\ fetchPc \in [Fetchers -> FetchPCs]
  /\ rounds \in [Fetchers -> Nat] /\ turns \in [Fetchers -> Int]
  /\ hand \in [Fetchers -> Proxies] /\ works \subseteq Proxies

\* The list a refresh makes of what the API has said: nothing when it failed.
Listed(answer) ==
  LET static == [i \in 1..NumStatic |-> i] \o answer
  IN IF IncludeDirect \/ static = <<>> THEN Append(static, Direct) ELSE static

Lists == {Listed(a) : a \in {<<>>, [i \in 1..NumDynamic |-> NumStatic + i]}}

PoolInit ==
  /\ pool \in Lists /\ index = 0 /\ due = "no"
  /\ failures = [p \in Proxies |-> 0]
  /\ fetchPc = [f \in Fetchers |-> "idle"]
  /\ rounds = [f \in Fetchers |-> 0] /\ turns = [f \in Fetchers |-> 0]
  /\ hand = [f \in Fetchers |-> Direct] /\ works \in SUBSET Proxies

Advances(f, from, to) == fetchPc[f] = from /\ fetchPc' = [fetchPc EXCEPT ![f] = to]

\* A request is over, and what it knew with it.
Ends(f) ==
  /\ fetchPc' = [fetchPc EXCEPT ![f] = "idle"]
  /\ rounds' = [rounds EXCEPT ![f] = 0] /\ turns' = [turns EXCEPT ![f] = 0]
  /\ hand' = [hand EXCEPT ![f] = Direct]

Download(f) ==
  /\ Advances(f, "idle", "round")
  /\ UNCHANGED <<pool, index, failures, due, rounds, turns, hand, works>>

\* pool_size is read without the lock, once a round.
NextRound(f) ==
  /\ rounds[f] < Rounds /\ Advances(f, "round", "check")
  /\ rounds' = [rounds EXCEPT ![f] = @ + 1]
  /\ turns' = [turns EXCEPT ![f] = Len(pool)]
  /\ UNCHANGED <<pool, index, failures, due, hand, works>>

\* The last error is raised to the caller.
GiveUp(f) ==
  /\ fetchPc[f] = "round" /\ rounds[f] >= Rounds /\ Ends(f)
  /\ UNCHANGED <<pool, index, failures, due, works>>

\* next_proxy looks at the age of the list before it has the lock: several
\* threads may refresh it one after the other.
CheckAge(f) ==
  /\ Advances(f, "check", IF due = "yes" THEN "refresh" ELSE "pick")
  /\ turns' = [turns EXCEPT ![f] = @ - 1]
  /\ UNCHANGED <<pool, index, failures, due, rounds, hand, works>>

MutRefresh(f) ==  \* the counts are forgotten with the old list
  /\ Advances(f, "refresh", "pick")
  /\ pool' \in Lists /\ index' = 0 /\ due' = "no"
  /\ failures' = [p \in Proxies |-> 0]
  /\ UNCHANGED <<rounds, turns, hand, works>>

Refresh(f) ==
  /\ Advances(f, "refresh", "pick")
  /\ pool' \in Lists /\ index' = 0 /\ due' = "no"
  /\ UNCHANGED <<failures, rounds, turns, hand, works>>

At(k) == pool[1 + ((index + k) % Len(pool))]
Healthy(k) == failures[At(k)] < MaxFailures

MutPick(f) ==  \* with nobody healthy the counts are kept
  /\ Advances(f, "pick", "send")
  /\ \E k \in 0..(Len(pool) - 1) :
       /\ \/ Healthy(k) /\ \A j \in 0..(k - 1) : ~Healthy(j)
          \/ k = 0 /\ \A j \in 0..(Len(pool) - 1) : ~Healthy(j)
       /\ hand' = [hand EXCEPT ![f] = At(k)]
       /\ index' = (index + k + 1) % Len(pool)
  /\ UNCHANGED <<pool, failures, due, rounds, turns, works>>

\* The next proxy of the rotation that has not failed too often, or, with all
\* counts forgotten, the next one if there is none.
Pick(f) ==
  /\ Advances(f, "pick", "send")
  /\ \E k \in 0..(Len(pool) - 1) :
       /\ \/ /\ Healthy(k) /\ \A j \in 0..(k - 1) : ~Healthy(j)
             /\ UNCHANGED failures
          \/ /\ k = 0 /\ \A j \in 0..(Len(pool) - 1) : ~Healthy(j)
             /\ failures' = [p \in Proxies |-> 0]
       /\ hand' = [hand EXCEPT ![f] = At(k)]
       /\ index' = (index + k + 1) % Len(pool)
  /\ UNCHANGED <<pool, due, rounds, turns, works>>

Served(f) ==
  /\ fetchPc[f] = "send" /\ hand[f] \in works /\ Ends(f)
  /\ failures' = [failures EXCEPT ![hand[f]] = 0]
  /\ UNCHANGED <<pool, index, due, works>>

Refused(f) ==
  /\ hand[f] \notin works
  /\ Advances(f, "send", IF turns[f] = 0 THEN "round" ELSE "check")
  /\ failures' = [failures EXCEPT ![hand[f]] = @ + 1]
  /\ UNCHANGED <<pool, index, due, rounds, turns, hand, works>>

CacheTimePasses ==
  /\ due' = "yes"
  /\ UNCHANGED <<pool, index, failures, fetchPc, rounds, turns, hand, works>>

Fetch(f) ==
  \/ Download(f) \/ NextRound(f) \/ GiveUp(f) \/ CheckAge(f)
  \/ Refresh(f) \/ Pick(f) \/ Served(f) \/ Refused(f)

PoolNext == CacheTimePasses \/ \E f \in Fetchers : Fetch(f)

PoolSpec == PoolInit /\ [][PoolNext]_poolVars

-----------------------------------------------------------------------------
(* A proxy that does not work is left alone: however threads are given it   *)
(* together and report late, no more failures in a row are counted than the *)
(* limit allows, and one for each further thread.                           *)
DeadProxiesAreLeftAlone ==
  \A p \in Proxies : failures[p] <= MaxFailures - 1 + Cardinality(Fetchers)

(* Nobody gives up while the pool holds a proxy that works, although every  *)
(* refresh starts the rotation at its first proxy again and other threads   *)
(* take their turns in between.  With two rounds this takes a list that     *)
(* does not change and holds no more than one dead proxy.                   *)
NoNeedlessFailure ==
  [][\A f \in Fetchers, i \in 1..Len(pool) : GiveUp(f) => pool[i] \notin works]_poolVars
=============================================================================
