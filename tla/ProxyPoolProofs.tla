---------------------------- MODULE ProxyPoolProofs ----------------------------
(***************************************************************************)
(* The two promises of the proxy pool, for every number of threads and     *)
(* proxies.  Dead proxies are left alone: the bound by itself is not       *)
(* inductive, a thread that was given a proxy may still report its failure,*)
(* and the invariant counts those threads as well.  Requests do not give up*)
(* while a proxy works, in the second part: an argument about how often    *)
(* dead proxies can refuse one request.                                    *)
(***************************************************************************)
EXTENDS ProxyPool, FiniteSetTheorems, TLAPS

Holding(p) == {f \in Fetchers : fetchPc[f] = "send" /\ hand[f] = p}

Counted ==
  \A p \in Proxies :
    failures[p] + Cardinality(Holding(p)) <= MaxFailures - 1 + Cardinality(Fetchers)

PoolInv == PoolTypeOK /\ Counted

\* A refresh makes a list of proxies with something in it.
LEMMA ListsAreLists ==
  ASSUME NEW l \in Lists
  PROVE  l \in Seq(Proxies) /\ Len(l) > 0
<1> USE PoolConstants DEF Proxies, Direct
<1> DEFINE dynamic == [i \in 1..NumDynamic |-> NumStatic + i]
           static == [i \in 1..NumStatic |-> i]
<1>1. static \in Seq(Proxies)
  <2>1. static \in [1..NumStatic -> Proxies]
    OBVIOUS
  <2> QED BY <2>1 
<1>2. dynamic \in Seq(Proxies)
  <2>1. dynamic \in [1..NumDynamic -> Proxies]
    OBVIOUS
  <2> QED BY <2>1
<1>3. PICK a \in {<<>>, dynamic} : l = Listed(a)
  BY DEF Lists
<1> HIDE DEF dynamic
<1>4. a \in Seq(Proxies)
  <2>1. <<>> \in Seq(Proxies)
    OBVIOUS
  <2> QED BY <1>2, <1>3, <2>1
<1> HIDE DEF static
<1>5. static \o a \in Seq(Proxies)
  BY <1>1, <1>4
<1>6. l = IF IncludeDirect \/ static \o a = <<>>
            THEN Append(static \o a, Direct) ELSE static \o a
  BY <1>3 DEF Listed, static
<1>7. Append(static \o a, Direct) \in Seq(Proxies) /\ Len(Append(static \o a, Direct)) > 0
  BY <1>5
<1>8. static \o a # <<>> => Len(static \o a) > 0
  BY <1>5
<1> QED
  BY <1>5, <1>6, <1>7, <1>8

\* A place of the rotation is a place of the list.
LEMMA InTheList ==
  ASSUME NEW n \in Nat, n > 0, NEW i \in Nat
  PROVE  i % n \in 0..(n - 1)
OBVIOUS

\* Who may report a failure is one of the threads.
LEMMA HoldersAreFew ==
  ASSUME NEW p
  PROVE  /\ IsFiniteSet(Holding(p)) /\ Cardinality(Holding(p)) \in Nat
         /\ Cardinality(Fetchers) \in Nat
         /\ Cardinality(Holding(p)) <= Cardinality(Fetchers)
<1>1. Holding(p) \subseteq Fetchers
  BY DEF Holding
<1> QED
  BY <1>1, PoolConstants, FS_Subset, FS_CardinalityType

\* Going around the rotation once ends where it began.
LEMMA Around ==
  ASSUME NEW n \in Nat, n > 0, NEW r \in 0..(n - 1)
  PROVE  r % n = r /\ (r + n) % n = r
<1>1. r % n = r
  OBVIOUS
<1>2. (r + n) % n = r
  <2>1. r + n = 1 * n + r
    OBVIOUS
  <2> QED BY <2>1
<1> QED BY <1>1, <1>2

\* Typed steps; the pick apart.
LEMMA PickTyped ==
  ASSUME PoolTypeOK, NEW f \in Fetchers, Pick(f)
  PROVE  PoolTypeOK' /\ \E k \in 0..(Len(pool) - 1) :
           /\ At(k) \in Proxies /\ hand' = [hand EXCEPT ![f] = At(k)]
           /\ failures'[At(k)] < MaxFailures
           /\ failures' = failures \/ failures' = [p \in Proxies |-> 0]
<1>1. PICK k \in 0..(Len(pool) - 1) :
        /\ \/ Healthy(k) /\ UNCHANGED failures
           \/ failures' = [p \in Proxies |-> 0]
        /\ hand' = [hand EXCEPT ![f] = At(k)]
        /\ index' = (index + k + 1) % Len(pool)
  BY DEF Pick
<1>2. Len(pool) \in Nat /\ index + k \in Nat /\ index + k + 1 \in Nat
  BY DEF PoolTypeOK
<1>3. (index + k) % Len(pool) \in 0..(Len(pool) - 1) /\ index' \in 0..(Len(pool) - 1)
  BY <1>1, <1>2, InTheList DEF PoolTypeOK
<1>4. At(k) \in Proxies
  BY <1>2, <1>3 DEF At, PoolTypeOK
<1>5. failures'[At(k)] < MaxFailures
  BY <1>1, <1>4, PoolConstants DEF Healthy
<1>6. PoolTypeOK'
  <2>1. failures' \in [Proxies -> Nat] /\ hand' \in [Fetchers -> Proxies]
    BY <1>1, <1>4 DEF PoolTypeOK
  <2>2. fetchPc' \in [Fetchers -> FetchPCs]
    BY DEF Pick, Advances, PoolTypeOK, FetchPCs
  <2>3. UNCHANGED <<pool, due, rounds, turns, works>>
    BY DEF Pick
  <2> QED
    BY <1>3, <2>1, <2>2, <2>3 DEF PoolTypeOK
<1> QED
  BY <1>1, <1>4, <1>5, <1>6

LEMMA TypedKept ==
  ASSUME PoolTypeOK, [PoolNext]_poolVars
  PROVE  PoolTypeOK'
<1>1. CASE CacheTimePasses
  BY <1>1 DEF CacheTimePasses, PoolTypeOK
<1>2. ASSUME NEW f \in Fetchers, Fetch(f) PROVE PoolTypeOK'
  <2> Direct \in Proxies
    BY PoolConstants DEF Proxies, Direct
  <2>1. CASE Pick(f)
    BY <2>1, PickTyped
  <2>2. CASE Refresh(f)
    <3>1. pool' \in Seq(Proxies) /\ Len(pool') > 0 /\ index' = 0
      BY <2>2, ListsAreLists DEF Refresh
    <3> QED
      BY <2>2, <3>1 DEF Refresh, Advances, PoolTypeOK, FetchPCs
  <2>3. CASE Download(f)
    BY <2>3 DEF Download, Advances, PoolTypeOK, FetchPCs
  <2>8. CASE GiveUp(f)
    BY <2>8 DEF GiveUp, Ends, PoolTypeOK, FetchPCs
  <2>4. CASE NextRound(f)
    BY <2>4 DEF NextRound, Advances, PoolTypeOK, FetchPCs
  <2>5. CASE CheckAge(f)
    BY <2>5 DEF CheckAge, Advances, PoolTypeOK, FetchPCs
  <2>6. CASE Served(f)
    BY <2>6 DEF Served, Ends, PoolTypeOK, FetchPCs
  <2>7. CASE Refused(f)
    BY <2>7 DEF Refused, Advances, PoolTypeOK, FetchPCs
  <2> QED
    BY <1>2, <2>1, <2>2, <2>3, <2>4, <2>5, <2>6, <2>7, <2>8 DEF Fetch
<1>3. CASE UNCHANGED poolVars
  BY <1>3 DEF poolVars, PoolTypeOK
<1> QED
  BY <1>1, <1>2, <1>3 DEF PoolNext

\* What a thread holds by a step that hands it nothing: no more than before.
LEMMA FewerHolders ==
  ASSUME NEW p, NEW g \in Fetchers, fetchPc'[g] # "send",
         \A f \in Fetchers \ {g} : fetchPc'[f] = fetchPc[f] /\ hand'[f] = hand[f]
  PROVE  Holding(p)' = Holding(p) \ {g}
BY DEF Holding

LEMMA CountedKept ==
  ASSUME PoolInv, PoolTypeOK', [PoolNext]_poolVars
  PROVE  Counted'
<1> USE PoolConstants
<1> SUFFICES ASSUME NEW p \in Proxies
             PROVE  failures'[p] + Cardinality(Holding(p)') <= MaxFailures - 1 + Cardinality(Fetchers)
  BY DEF Counted
<1>1. failures[p] + Cardinality(Holding(p)) <= MaxFailures - 1 + Cardinality(Fetchers)
  BY DEF PoolInv, Counted
<1>2. /\ failures[p] \in Nat /\ failures'[p] \in Nat
      /\ Cardinality(Fetchers) \in Nat /\ Cardinality(Holding(p)) \in Nat
      /\ IsFiniteSet(Holding(p))
  BY HoldersAreFew DEF PoolInv, PoolTypeOK
<1>3. CASE /\ failures'[p] = failures[p] \/ failures'[p] = 0
           /\ Holding(p)' \subseteq Holding(p)
  <2>1. Cardinality(Holding(p)') \in Nat /\ Cardinality(Holding(p)') <= Cardinality(Holding(p))
    BY <1>2, <1>3, FS_Subset, FS_CardinalityType
  <2> QED BY <1>1, <1>2, <1>3, <2>1
<1>4. CASE CacheTimePasses \/ UNCHANGED poolVars
  BY <1>2, <1>3, <1>4 DEF CacheTimePasses, poolVars, Holding
<1>5. ASSUME NEW f \in Fetchers, Fetch(f)
      PROVE  failures'[p] + Cardinality(Holding(p)') <= MaxFailures - 1 + Cardinality(Fetchers)
  <2> USE DEF PoolInv, PoolTypeOK
  <2>1. CASE Pick(f)
    <3>1. PICK k \in 0..(Len(pool) - 1) :
            /\ At(k) \in Proxies /\ hand' = [hand EXCEPT ![f] = At(k)]
            /\ failures'[At(k)] < MaxFailures
            /\ failures' = failures \/ failures' = [q \in Proxies |-> 0]
      BY <2>1, PickTyped
    <3>2. CASE p = At(k)
      <4>1. /\ Cardinality(Holding(p)') \in Nat
            /\ Cardinality(Holding(p)') <= Cardinality(Fetchers)
        <5>1. Holding(p)' \subseteq Fetchers
          BY DEF Holding
        <5> QED BY <5>1, FS_Subset, FS_CardinalityType
      <4> QED BY <1>2, <3>1, <3>2, <4>1
    <3>3. CASE p # At(k)
      <4>1. Holding(p)' \subseteq Holding(p)
        BY <2>1, <3>1, <3>3 DEF Pick, Advances, Holding
      <4>2. failures'[p] = failures[p] \/ failures'[p] = 0
        BY <3>1
      <4> QED BY <1>3, <4>1, <4>2
    <3> QED BY <3>2, <3>3
  <2>2. CASE Refused(f)
    <3>1. Holding(p)' = Holding(p) \ {f}
      BY <2>2, FewerHolders DEF Refused, Advances
    <3>2. CASE hand[f] = p
      <4>1. f \in Holding(p) /\ failures'[p] = failures[p] + 1
        BY <2>2, <3>2 DEF Refused, Advances, Holding
      <4>2. Cardinality(Holding(p)') = Cardinality(Holding(p)) - 1
        BY <1>2, <3>1, <4>1, FS_RemoveElement
      <4> QED BY <1>1, <1>2, <4>1, <4>2
    <3>3. CASE hand[f] # p
      BY <1>2, <1>3, <2>2, <3>1, <3>3 DEF Refused
    <3> QED BY <3>2, <3>3
  <2>3. CASE Served(f) \/ GiveUp(f)
    <3>1. Holding(p)' = Holding(p) \ {f}
      BY <2>3, FewerHolders DEF Served, GiveUp, Ends
    <3>2. failures'[p] = failures[p] \/ failures'[p] = 0
      BY <2>3 DEF Served, GiveUp
    <3> QED BY <1>3, <3>1, <3>2
  <2>4. CASE Download(f) \/ NextRound(f) \/ CheckAge(f) \/ Refresh(f)
    <3>1. UNCHANGED <<failures, hand>> /\ fetchPc'[f] # "send"
      BY <2>4 DEF Download, NextRound, CheckAge, Refresh, Advances
    <3>2. Holding(p)' = Holding(p) \ {f}
      BY <2>4, <3>1, FewerHolders DEF Download, NextRound, CheckAge, Refresh, Advances
    <3> QED BY <1>2, <1>3, <3>1, <3>2
  <2> QED
    BY <1>5, <2>1, <2>2, <2>3, <2>4 DEF Fetch
<1> QED
  BY <1>4, <1>5 DEF PoolNext

(* However many threads are given the same proxy before the first of them   *)
(* reports, a proxy collects no more failures in a row than the limit and   *)
(* one for each further thread.                                             *)
THEOREM DeadProxiesAreSkipped == PoolSpec => []DeadProxiesAreLeftAlone
<1>1. PoolInit => PoolInv
  <2> SUFFICES ASSUME PoolInit PROVE PoolInv
    OBVIOUS
  <2> USE PoolConstants
  <2>1. PoolTypeOK
    BY ListsAreLists DEF PoolInit, PoolTypeOK, FetchPCs, Proxies, Direct
  <2>2. ASSUME NEW p \in Proxies
        PROVE  failures[p] = 0 /\ Holding(p) = {}
    BY <2>2 DEF PoolInit, Holding
  <2>3. Cardinality({}) = 0 /\ Cardinality(Fetchers) \in Nat
    BY FS_EmptySet, FS_CardinalityType
  <2>4. Counted
    BY <2>2, <2>3 DEF Counted
  <2> QED BY <2>1, <2>4 DEF PoolInv
<1>2. PoolInv /\ [PoolNext]_poolVars => PoolInv'
  BY TypedKept, CountedKept DEF PoolInv
<1>3. PoolInv => DeadProxiesAreLeftAlone
  <2> SUFFICES ASSUME PoolInv, NEW p \in Proxies
               PROVE  failures[p] <= MaxFailures - 1 + Cardinality(Fetchers)
    BY DEF DeadProxiesAreLeftAlone
  <2>1. failures[p] \in Nat /\ MaxFailures \in Nat
    BY PoolConstants DEF PoolInv, PoolTypeOK
  <2>2. Cardinality(Holding(p)) \in Nat /\ Cardinality(Fetchers) \in Nat
    BY HoldersAreFew
  <2>3. failures[p] + Cardinality(Holding(p)) <= MaxFailures - 1 + Cardinality(Fetchers)
    BY DEF PoolInv, Counted
  <2> QED BY <2>1, <2>2, <2>3
<1> QED
  BY <1>1, <1>2, <1>3, PTL DEF PoolSpec
-----------------------------------------------------------------------------
(* Nobody gives up while enough proxies work.  Each refusal a request meets *)
(* is told apart from its others by the proxy and by the failures that had  *)
(* been counted of it when it was picked: the next time the request is given*)
(* this proxy, its own refusal has been counted as well.  A picked proxy had*)
(* failed less than MaxFailures times, so a request meets no more refusals  *)
(* than there are such pairs; its rounds make it ask more often.            *)

ListedProxies == {p \in Proxies : \E l \in Lists : \E i \in 1..Len(l) : l[i] = p}
Dead == ListedProxies \ works
Counts == 0..(MaxFailures - 1)

\* The list without an answer of the API.
ShortestList == NumStatic + (IF IncludeDirect \/ NumStatic = 0 THEN 1 ELSE 0)

\* Whatever the API answers, a proxy that works is on the list ...
OneAlwaysWorks == \A l \in Lists : \E i \in 1..Len(l) : l[i] \in works
\* ... and a request asks more often than dead proxies can refuse it.
RoundsSuffice == Rounds * ShortestList > Cardinality(Dead) * MaxFailures

Open(f) == IF fetchPc[f] \in {"refresh", "pick", "send"} THEN 1 ELSE 0

\* T: the refusals of the request of f so far.
Explains(T, f) ==
  /\ rounds[f] * ShortestList <= Cardinality(T) + turns[f] + Open(f)
  /\ \A p \in Dead, i \in Counts : <<p, i>> \in T => i < failures[p]
  /\ fetchPc[f] = "send" /\ hand[f] \in Dead =>
       \E i \in Counts : i <= failures[hand[f]] /\ <<hand[f], i>> \notin T

Refusals == SUBSET (Dead \X Counts)
Explained(f) == \E T \in Refusals : Explains(T, f)

OnTheWay ==
  \A f \in Fetchers :
    /\ fetchPc[f] \in {"idle", "round"} => turns[f] = 0
    /\ fetchPc[f] = "idle" => rounds[f] = 0
    /\ fetchPc[f] = "send" => hand[f] \in ListedProxies

ListInv ==
  /\ PoolTypeOK /\ pool \in Lists /\ OnTheWay
  /\ OneAlwaysWorks => \A p \in works : failures[p] = 0

TriesInv == ListInv /\ (OneAlwaysWorks => \A f \in Fetchers : Explained(f))

LEMMA DeadAreFew ==
  /\ IsFiniteSet(Dead) /\ Cardinality(Dead) \in Nat
  /\ IsFiniteSet(Dead \X Counts)
  /\ Cardinality(Dead \X Counts) = Cardinality(Dead) * MaxFailures
<1> USE PoolConstants
<1>1. IsFiniteSet(Proxies)
  BY FS_Interval DEF Proxies
<1>2. IsFiniteSet(Dead) /\ Cardinality(Dead) \in Nat
  <2>1. Dead \in SUBSET Proxies
    BY DEF Dead, ListedProxies
  <2> QED
    BY <1>1, <2>1, FS_Subset, FS_CardinalityType
<1>3. IsFiniteSet(Counts) /\ Cardinality(Counts) = MaxFailures
  BY FS_Interval DEF Counts
<1> QED
  BY <1>2, <1>3, FS_Product

LEMMA RefusalsAreFew ==
  ASSUME NEW T \in Refusals
  PROVE  /\ IsFiniteSet(T) /\ Cardinality(T) \in Nat
         /\ Cardinality(T) <= Cardinality(Dead) * MaxFailures
BY DeadAreFew, FS_Subset, FS_CardinalityType DEF Refusals

LEMMA ShortestIsNat == ShortestList \in Nat /\ ShortestList > 0
BY PoolConstants DEF ShortestList

LEMMA ListsAreLongEnough ==
  ASSUME NEW l \in Lists
  PROVE  Len(l) >= ShortestList
<1> USE PoolConstants
<1> DEFINE dynamic == [i \in 1..NumDynamic |-> NumStatic + i]
           static == [i \in 1..NumStatic |-> i]
<1>1. static \in Seq(Nat) /\ Len(static) = NumStatic
  <2>1. static \in [1..NumStatic -> Nat]
    OBVIOUS
  <2> QED BY <2>1
<1>2. dynamic \in Seq(Nat)
  <2>1. dynamic \in [1..NumDynamic -> Nat]
    OBVIOUS
  <2> QED BY <2>1
<1>3. PICK a \in {<<>>, dynamic} : l = Listed(a)
  BY DEF Lists
<1> HIDE DEF dynamic
<1>4. a \in Seq(Nat)
  <2>1. <<>> \in Seq(Nat)
    OBVIOUS
  <2> QED BY <1>2, <1>3, <2>1
<1> HIDE DEF static
<1>5. /\ static \o a \in Seq(Nat) /\ Len(static \o a) = NumStatic + Len(a)
      /\ Len(a) \in Nat
  BY <1>1, <1>4
<1>6. l = IF IncludeDirect \/ static \o a = <<>>
            THEN Append(static \o a, Direct) ELSE static \o a
  BY <1>3 DEF Listed, static
<1>7. Len(Append(static \o a, Direct)) = Len(static \o a) + 1
  BY <1>5 DEF Direct
<1>8. static \o a # <<>> => Len(static \o a) > 0
  BY <1>5
<1> QED
  BY <1>5, <1>6, <1>7, <1>8 DEF ShortestList
\* Who works is not decided by a step.
LEMMA WorksKept ==
  ASSUME [PoolNext]_poolVars
  PROVE  works' = works /\ Dead' = Dead /\ OneAlwaysWorks' = OneAlwaysWorks
<1>1. works' = works
  BY DEF PoolNext, Fetch, CacheTimePasses, Download, NextRound, GiveUp, CheckAge,
         Refresh, Pick, Served, Refused, poolVars
<1> QED
  BY <1>1 DEF Dead, ListedProxies, OneAlwaysWorks

\* What a thread is given is on a list, and with one proxy that works there is
\* always one to give: the counts are not forgotten.
LEMMA PickListed ==
  ASSUME ListInv, NEW f \in Fetchers, Pick(f)
  PROVE  \E k \in 0..(Len(pool) - 1) :
           /\ At(k) \in ListedProxies /\ hand' = [hand EXCEPT ![f] = At(k)]
           /\ OneAlwaysWorks => UNCHANGED failures /\ failures[At(k)] < MaxFailures
           /\ failures' = failures \/ failures' = [p \in Proxies |-> 0]
<1>1. PICK k \in 0..(Len(pool) - 1) :
        /\ \/ Healthy(k) /\ UNCHANGED failures
           \/ /\ \A j \in 0..(Len(pool) - 1) : ~Healthy(j)
              /\ failures' = [p \in Proxies |-> 0]
        /\ hand' = [hand EXCEPT ![f] = At(k)]
  BY DEF Pick
<1>2. /\ Len(pool) \in Nat /\ Len(pool) > 0 /\ index \in 0..(Len(pool) - 1)
      /\ pool \in Lists /\ \A i \in 1..Len(pool) : pool[i] \in Proxies
  BY DEF ListInv, PoolTypeOK
<1>3. At(k) \in ListedProxies
  <2>1. (index + k) % Len(pool) \in 0..(Len(pool) - 1)
    BY <1>2, InTheList
  <2>2. 1 + ((index + k) % Len(pool)) \in 1..Len(pool)
    BY <1>2, <2>1
  <2> QED BY <1>2, <2>2 DEF At, ListedProxies
<1>4. ASSUME OneAlwaysWorks PROVE \E j \in 0..(Len(pool) - 1) : Healthy(j)
  <2>1. PICK i \in 1..Len(pool) : pool[i] \in works
    BY <1>2, <1>4 DEF OneAlwaysWorks
  <2>2. failures[pool[i]] = 0
    BY <1>4, <2>1 DEF ListInv
  <2> DEFINE n == Len(pool)
  <2> HIDE DEF n
  <2>3. n \in Nat /\ n > 0 /\ i - 1 \in 0..(n - 1) /\ index \in 0..(n - 1)
    BY <1>2 DEF n
  <2>4. (i - 1) % n = i - 1 /\ ((i - 1) + n) % n = i - 1
    BY <2>3, Around
  <2>5. PICK j \in 0..(n - 1) : (index + j) % n = i - 1
    <3>1. CASE i - 1 >= index
      <4>1. i - 1 - index \in 0..(n - 1) /\ index + (i - 1 - index) = i - 1
        BY <2>3, <3>1
      <4> QED BY <2>4, <4>1
    <3>2. CASE i - 1 < index
      <4>1. /\ i - 1 + n - index \in 0..(n - 1)
            /\ index + (i - 1 + n - index) = (i - 1) + n
        BY <2>3, <3>2
      <4> QED BY <2>4, <4>1
    <3> QED BY <2>3, <3>1, <3>2
  <2>6. j \in 0..(Len(pool) - 1) /\ At(j) = pool[i]
    BY <2>5 DEF At, n
  <2>7. Healthy(j)
    BY <2>2, <2>6, PoolConstants DEF Healthy
  <2> QED BY <2>6, <2>7
<1>5. OneAlwaysWorks => UNCHANGED failures /\ failures[At(k)] < MaxFailures
  <2>1. CASE Healthy(k) /\ UNCHANGED failures
    BY <2>1 DEF Healthy
  <2>2. CASE \A j \in 0..(Len(pool) - 1) : ~Healthy(j)
    BY <1>4, <2>2
  <2> QED BY <1>1, <2>1, <2>2
<1> QED
  BY <1>1, <1>3, <1>5
LEMMA ListInvInit == PoolInit => ListInv
<1> SUFFICES ASSUME PoolInit PROVE ListInv
  OBVIOUS
<1>1. PoolTypeOK
  BY PoolConstants, ListsAreLists DEF PoolInit, PoolTypeOK, FetchPCs, Proxies, Direct
<1>2. OnTheWay
  BY DEF PoolInit, OnTheWay
<1>3. \A p \in works : failures[p] = 0
  BY DEF PoolInit
<1> QED
  BY <1>1, <1>2, <1>3 DEF PoolInit, ListInv

LEMMA OnTheWayKept ==
  ASSUME ListInv, [PoolNext]_poolVars
  PROVE  OnTheWay'
<1> USE DEF OnTheWay, ListInv, PoolTypeOK
<1>1. CASE CacheTimePasses \/ UNCHANGED poolVars
  BY <1>1 DEF CacheTimePasses, poolVars
<1>2. ASSUME NEW f \in Fetchers, Fetch(f) PROVE OnTheWay'
  <2>1. CASE Pick(f)
    <3>1. PICK p \in ListedProxies : hand' = [hand EXCEPT ![f] = p]
      BY <2>1, PickListed
    <3> QED BY <2>1, <3>1 DEF Pick, Advances
  <2>2. CASE Download(f) \/ NextRound(f) \/ CheckAge(f) \/ Refresh(f)
    BY <2>2 DEF Download, NextRound, CheckAge, Refresh, Advances
  <2>3. CASE GiveUp(f) \/ Served(f)
    BY <2>3 DEF GiveUp, Served, Ends
  <2>4. CASE Refused(f)
    BY <2>4 DEF Refused, Advances
  <2> QED BY <1>2, <2>1, <2>2, <2>3, <2>4 DEF Fetch
<1> QED BY <1>1, <1>2 DEF PoolNext

LEMMA WorkingAreUnblamed ==
  ASSUME ListInv, OneAlwaysWorks, [PoolNext]_poolVars
  PROVE  \A p \in works : failures'[p] = 0
<1> USE DEF ListInv, PoolTypeOK
<1>1. CASE UNCHANGED failures
  BY <1>1
<1>2. ASSUME NEW f \in Fetchers, Pick(f) PROVE UNCHANGED failures
  BY <1>2, PickListed
<1>3. ASSUME NEW f \in Fetchers, Served(f) \/ Refused(f)
      PROVE  \A p \in works : failures'[p] = 0
  BY <1>3 DEF Served, Refused
<1> QED
  BY <1>1, <1>2, <1>3 DEF PoolNext, Fetch, CacheTimePasses, Download, NextRound,
     GiveUp, CheckAge, Refresh, poolVars

LEMMA ListInvKept == ListInv /\ [PoolNext]_poolVars => ListInv'
<1> SUFFICES ASSUME ListInv, [PoolNext]_poolVars PROVE ListInv'
  OBVIOUS
<1>1. pool' \in Lists
  BY DEF ListInv, PoolNext, Fetch, CacheTimePasses, Download, NextRound, GiveUp,
         CheckAge, Refresh, Pick, Served, Refused, poolVars
<1>2. OneAlwaysWorks' => \A p \in works' : failures'[p] = 0
  BY WorksKept, WorkingAreUnblamed
<1> QED
  BY <1>1, <1>2, TypedKept, OnTheWayKept DEF ListInv

\* The refusals of the others do not disturb what is known of a request: the
\* counts of dead proxies only grow while one works.
LEMMA CountsGrow ==
  ASSUME ListInv, OneAlwaysWorks, [PoolNext]_poolVars
  PROVE  \A p \in Dead : failures'[p] >= failures[p]
<1> USE DEF ListInv, PoolTypeOK
<1>1. Dead \subseteq Proxies /\ Dead \cap works = {}
  BY DEF Dead, ListedProxies
<1>2. CASE UNCHANGED failures
  BY <1>1, <1>2
<1>3. ASSUME NEW f \in Fetchers, Pick(f) PROVE UNCHANGED failures
  BY <1>3, PickListed
<1>4. ASSUME NEW f \in Fetchers, Served(f) \/ Refused(f)
      PROVE  \A p \in Dead : failures'[p] >= failures[p]
  <2>1. CASE Served(f)
    BY <1>1, <2>1 DEF Served
  <2>2. CASE Refused(f)
    BY <1>1, <2>2 DEF Refused
  <2> QED BY <1>4, <2>1, <2>2
<1> QED
  BY <1>2, <1>3, <1>4 DEF PoolNext, Fetch, CacheTimePasses, Download, NextRound,
     GiveUp, CheckAge, Refresh, poolVars
LEMMA ExplainedKept ==
  ASSUME TriesInv, OneAlwaysWorks, [PoolNext]_poolVars, NEW g \in Fetchers
  PROVE  Explained(g)'
<1> USE DEF TriesInv, ListInv, PoolTypeOK
<1> DEFINE Told(S) ==
      /\ rounds'[g] * ShortestList <= Cardinality(S) + turns'[g] + Open(g)'
      /\ \A p \in Dead, i \in Counts : <<p, i>> \in S => i < failures'[p]
      /\ fetchPc'[g] = "send" /\ hand'[g] \in Dead =>
           \E i \in Counts : i <= failures'[hand'[g]] /\ <<hand'[g], i>> \notin S
<1>1. PICK T \in Refusals : Explains(T, g)
  BY DEF Explained
<1>2. /\ \A p \in Dead : failures'[p] \in Int /\ failures[p] \in Int /\ failures'[p] >= failures[p]
      /\ \A i \in Counts : i \in Int
  <2>1. Dead \subseteq Proxies
    BY DEF Dead, ListedProxies
  <2>2. failures \in [Proxies -> Nat] /\ failures' \in [Proxies -> Nat]
    BY TypedKept
  <2>3. \A p \in Dead : failures'[p] >= failures[p]
    BY CountsGrow
  <2> QED BY <2>1, <2>2, <2>3 DEF Counts
<1>3. \A p \in Dead, i \in Counts : <<p, i>> \in T => i < failures'[p]
  <2> SUFFICES ASSUME NEW p \in Dead, NEW i \in Counts, <<p, i>> \in T
               PROVE  i < failures'[p]
    OBVIOUS
  <2>1. i < failures[p]
    BY <1>1 DEF Explains
  <2> QED BY <1>2, <2>1
<1>4. /\ Cardinality(T) \in Nat /\ IsFiniteSet(T) /\ ShortestList \in Nat
      /\ rounds[g] \in Nat /\ turns[g] \in Int /\ rounds[g] * ShortestList \in Int
      /\ rounds[g] * ShortestList <= Cardinality(T) + turns[g] + Open(g)
  BY <1>1, RefusalsAreFew, ShortestIsNat DEF Explains
<1>5. SUFFICES \E S \in Refusals : Told(S)
  BY WorksKept DEF Explained, Explains, Refusals, ShortestList, Counts
<1>6. CASE /\ rounds'[g] = rounds[g] /\ turns'[g] = turns[g]
           /\ fetchPc'[g] = fetchPc[g] /\ hand'[g] = hand[g]
  <2>1. Open(g)' = Open(g)
    BY <1>6 DEF Open
  <2>2. fetchPc[g] = "send" /\ hand[g] \in Dead =>
          \E i \in Counts : i <= failures'[hand[g]] /\ <<hand[g], i>> \notin T
    <3> SUFFICES ASSUME fetchPc[g] = "send", hand[g] \in Dead
                 PROVE  \E i \in Counts : i <= failures'[hand[g]] /\ <<hand[g], i>> \notin T
      OBVIOUS
    <3>1. PICK i \in Counts : i <= failures[hand[g]] /\ <<hand[g], i>> \notin T
      BY <1>1 DEF Explains
    <3>2. i <= failures'[hand[g]]
      BY <1>2, <3>1
    <3> QED BY <3>1, <3>2
  <2>3. Told(T)
    BY <1>3, <1>4, <1>6, <2>1, <2>2
  <2> QED BY <2>3
<1>7. CASE Pick(g)
  <2>1. PICK p \in ListedProxies :
          /\ hand' = [hand EXCEPT ![g] = p]
          /\ failures' = failures /\ failures[p] < MaxFailures
    BY <1>7, PickListed
  <2>2. hand'[g] = p /\ p \in Proxies /\ Open(g) = 1 /\ Open(g)' = 1
    BY <1>7, <2>1 DEF Pick, Advances, Open, ListedProxies
  <2>3. /\ failures[p] \in Counts /\ failures[p] <= failures'[p]
        /\ p \in Dead => <<p, failures[p]>> \notin T
    <3>1. failures[p] \in Nat /\ failures[p] \in Counts
      BY <2>1, <2>2, PoolConstants DEF Counts
    <3>2. p \in Dead /\ <<p, failures[p]>> \in T => failures[p] < failures[p]
      BY <1>1, <3>1 DEF Explains
    <3> QED BY <2>1, <3>1, <3>2
  <2>4. rounds'[g] = rounds[g] /\ turns'[g] = turns[g]
    BY <1>7 DEF Pick
  <2>5. Told(T)
    BY <1>3, <1>4, <2>2, <2>3, <2>4
  <2> QED BY <2>5
<1>8. CASE NextRound(g)
  <2>1. /\ rounds'[g] = rounds[g] + 1 /\ turns'[g] = Len(pool) /\ turns[g] = 0
        /\ Open(g) = 0 /\ Open(g)' = 0 /\ fetchPc'[g] = "check"
    BY <1>8 DEF NextRound, Advances, Open, OnTheWay
  <2>2. Len(pool) \in Nat /\ Len(pool) >= ShortestList
    BY ListsAreLongEnough
  <2>3. (rounds[g] + 1) * ShortestList = rounds[g] * ShortestList + ShortestList
    BY <1>4
  <2>4. Told(T)
    BY <1>3, <1>4, <2>1, <2>2, <2>3
  <2> QED BY <2>4
<1>9. CASE CheckAge(g)
  <2>1. /\ rounds'[g] = rounds[g] /\ turns'[g] = turns[g] - 1
        /\ fetchPc'[g] # "send"
    BY <1>9 DEF CheckAge, Advances
  <2>2. Open(g) = 0 /\ Open(g)' = 1
    BY <1>9 DEF CheckAge, Advances, Open
  <2>3. Told(T)
    BY <1>3, <1>4, <2>1, <2>2
  <2> QED BY <2>3
<1>10. CASE Download(g) \/ Refresh(g)
  <2>1. /\ rounds'[g] = rounds[g] /\ turns'[g] = turns[g]
        /\ fetchPc'[g] # "send"
    BY <1>10 DEF Download, Refresh, Advances
  <2>2. Open(g)' = Open(g)
    BY <1>10 DEF Download, Refresh, Advances, Open
  <2>3. Told(T)
    BY <1>3, <1>4, <2>1, <2>2
  <2> QED BY <2>3
<1>11. CASE Served(g) \/ GiveUp(g)
  <2>1. /\ rounds'[g] = 0 /\ turns'[g] = 0 /\ fetchPc'[g] = "idle" /\ Open(g)' = 0
    BY <1>11 DEF Served, GiveUp, Ends, Open
  <2>2. {} \in Refusals /\ Cardinality({}) = 0
    BY FS_EmptySet DEF Refusals
  <2>3. Told({})
    BY <1>4, <2>1, <2>2
  <2> QED BY <2>2, <2>3
<1>12. CASE Refused(g)
  <2>1. hand[g] \in Dead /\ fetchPc[g] = "send" /\ hand[g] \in Proxies
    BY <1>12 DEF Refused, Advances, OnTheWay, Dead, ListedProxies
  <2>2. PICK i \in Counts : i <= failures[hand[g]] /\ <<hand[g], i>> \notin T
    BY <1>1, <2>1 DEF Explains
  <2> DEFINE S == T \cup {<<hand[g], i>>}
  <2>3. S \in Refusals
    BY <2>1, <2>2 DEF Refusals
  <2>4. Cardinality(S) = Cardinality(T) + 1
    BY <1>4, <2>2, FS_AddElement
  <2>5. /\ rounds'[g] = rounds[g] /\ turns'[g] = turns[g] /\ fetchPc'[g] # "send"
        /\ Open(g) = 1 /\ Open(g)' = 0
    BY <1>12 DEF Refused, Advances, Open
  <2>6. failures'[hand[g]] = failures[hand[g]] + 1 /\ i < failures'[hand[g]]
    BY <1>2, <1>12, <2>1, <2>2 DEF Refused
  <2>7. \A p \in Dead, j \in Counts : <<p, j>> \in S => j < failures'[p]
    BY <1>3, <2>6
  <2> HIDE DEF S
  <2>8. Told(S)
    BY <1>4, <2>4, <2>5, <2>7
  <2> QED BY <2>3, <2>8
<1>13. ASSUME NEW f \in Fetchers, Fetch(f), f # g
       PROVE  /\ rounds'[g] = rounds[g] /\ turns'[g] = turns[g]
              /\ fetchPc'[g] = fetchPc[g] /\ hand'[g] = hand[g]
  <2>1. CASE Pick(f)
    BY <1>13, <2>1, PickListed DEF Pick, Advances
  <2> QED
    BY <1>13, <2>1 DEF Fetch, Download, NextRound, GiveUp, CheckAge, Refresh,
       Served, Refused, Advances, Ends
<1>14. CASE CacheTimePasses \/ UNCHANGED poolVars
  BY <1>6, <1>14 DEF CacheTimePasses, poolVars
<1> QED
  BY <1>6, <1>7, <1>8, <1>9, <1>11, <1>12, <1>13, <1>14, <1>10 DEF PoolNext, Fetch
LEMMA TriesInvInit == PoolInit => TriesInv
<1> SUFFICES ASSUME PoolInit PROVE TriesInv
  OBVIOUS
<1>1. ListInv
  BY ListInvInit
<1>2. ASSUME NEW f \in Fetchers PROVE Explained(f)
  <2>1. /\ rounds[f] = 0 /\ turns[f] = 0 /\ fetchPc[f] = "idle" /\ Open(f) = 0
    BY DEF PoolInit, Open
  <2>2. {} \in Refusals /\ Cardinality({}) = 0 /\ 0 * ShortestList = 0
    BY FS_EmptySet, ShortestIsNat DEF Refusals
  <2>3. Explains({}, f)
    BY <2>1, <2>2 DEF Explains
  <2> QED BY <2>2, <2>3 DEF Explained
<1> QED BY <1>1, <1>2 DEF TriesInv

LEMMA TriesInvKept == TriesInv /\ [PoolNext]_poolVars => TriesInv'
<1> SUFFICES ASSUME TriesInv, [PoolNext]_poolVars PROVE TriesInv'
  OBVIOUS
<1>1. ListInv'
  BY ListInvKept DEF TriesInv
<1>2. OneAlwaysWorks' => \A f \in Fetchers : Explained(f)'
  BY WorksKept, ExplainedKept
<1> QED BY <1>1, <1>2 DEF TriesInv

\* Who would give up has been refused more often than dead proxies can.
LEMMA NobodyIsThere ==
  ASSUME TriesInv, OneAlwaysWorks, RoundsSuffice, NEW f \in Fetchers
  PROVE  ~GiveUp(f)
<1> SUFFICES ASSUME GiveUp(f) PROVE FALSE
  OBVIOUS
<1>1. PICK T \in Refusals : Explains(T, f)
  BY DEF TriesInv, Explained
<1>2. fetchPc[f] = "round" /\ rounds[f] >= Rounds /\ turns[f] = 0 /\ Open(f) = 0
  BY DEF GiveUp, Open, TriesInv, ListInv, OnTheWay
<1>3. /\ rounds[f] \in Nat /\ Rounds \in Nat /\ MaxFailures \in Nat
      /\ ShortestList \in Nat /\ Cardinality(T) \in Nat /\ Cardinality(Dead) \in Nat
  BY PoolConstants, ShortestIsNat, RefusalsAreFew, DeadAreFew
     DEF TriesInv, ListInv, PoolTypeOK
<1>4. rounds[f] * ShortestList <= Cardinality(T)
  BY <1>1, <1>2, <1>3 DEF Explains
<1>5. rounds[f] * ShortestList >= Rounds * ShortestList
  <2>1. ASSUME NEW a \in Nat, NEW b \in Nat, NEW c \in Nat, a >= b
        PROVE  a * c >= b * c
    <3>1. PICK d \in Nat : a = b + d
      BY <2>1, a - b \in Nat, a = b + (a - b)
    <3>2. a * c = b * c + d * c /\ d * c \in Nat /\ b * c \in Nat
      BY <3>1
    <3> QED BY <3>2
  <2> QED BY <1>2, <1>3, <2>1
<1>6. /\ Rounds * ShortestList \in Nat /\ rounds[f] * ShortestList \in Nat
      /\ Cardinality(Dead) * MaxFailures \in Nat
  BY <1>3
<1>7. Cardinality(T) <= Cardinality(Dead) * MaxFailures
  BY RefusalsAreFew
<1> QED
  BY <1>3, <1>4, <1>5, <1>6, <1>7 DEF RoundsSuffice

(* No request fails for lack of tries while a proxy that works is on every   *)
(* list the API can lead to and the rounds are more than the dead proxies    *)
(* can refuse: whatever other threads do, and however often the list is      *)
(* refreshed and its rotation begun again.                                   *)
THEOREM NobodyGivesUp ==
  PoolSpec => [][OneAlwaysWorks /\ RoundsSuffice => \A f \in Fetchers : ~GiveUp(f)]_poolVars
<1>1. TriesInv => (OneAlwaysWorks /\ RoundsSuffice => \A f \in Fetchers : ~GiveUp(f))
  BY NobodyIsThere
<1> QED
  BY <1>1, TriesInvInit, TriesInvKept, PTL DEF PoolSpec

\* Without the proxy API there is one list, and all but one of it may be dead.
LEMMA OneList ==
  ASSUME NumDynamic = 0, pool \in Lists, NEW i \in 1..Len(pool), pool[i] \in works
  PROVE  OneAlwaysWorks /\ Cardinality(Dead) <= ShortestList - 1
<1> USE PoolConstants
<1> DEFINE static == [k \in 1..NumStatic |-> k]
<1>1. static \in Seq(Nat) /\ Len(static) = NumStatic /\ static \o <<>> = static
  <2>1. static \in [1..NumStatic -> Nat]
    OBVIOUS
  <2>2. static \in Seq(Nat)
    BY <2>1
  <2>3. Len(static) = NumStatic
    BY <2>1
  <2> QED BY <2>2, <2>3
<1>2. Lists = {Listed(<<>>)}
  <2>1. [k \in 1..NumDynamic |-> NumStatic + k] = <<>>
    OBVIOUS
  <2> QED BY <2>1 DEF Lists
<1>3. pool = IF IncludeDirect \/ static = <<>> THEN Append(static, Direct) ELSE static
  BY <1>1, <1>2 DEF Listed
<1>4. OneAlwaysWorks
  BY <1>2 DEF OneAlwaysWorks
<1> DEFINE places == 1..ShortestList
<1>5. Len(pool) = ShortestList
  <2>1. static = <<>> <=> NumStatic = 0
    BY <1>1
  <2>2. Len(Append(static, Direct)) = NumStatic + 1
    BY <1>1 DEF Direct
  <2> QED BY <1>1, <1>3, <2>1, <2>2 DEF ShortestList
<1>6. ListedProxies \subseteq {pool[k] : k \in places}
  BY <1>2, <1>5 DEF ListedProxies
<1>7. IsFiniteSet(places) /\ Cardinality(places) = ShortestList
  <2>1. 1 \in Int /\ ShortestList \in Int /\ ShortestList - 1 + 1 = ShortestList
    BY ShortestIsNat
  <2>2. /\ IsFiniteSet(1..ShortestList)
        /\ Cardinality(1..ShortestList) = IF 1 > ShortestList THEN 0 ELSE ShortestList - 1 + 1
    BY <2>1, FS_Interval
  <2> QED BY <2>1, <2>2, ShortestIsNat
<1>8. IsFiniteSet(places \ {i}) /\ Cardinality(places \ {i}) = ShortestList - 1
  BY <1>5, <1>7, FS_RemoveElement
<1>9. Dead \subseteq {pool[k] : k \in places \ {i}}
  BY <1>6 DEF Dead
<1>10. /\ IsFiniteSet({pool[k] : k \in places \ {i}})
       /\ Cardinality({pool[k] : k \in places \ {i}}) <= ShortestList - 1
  <2> DEFINE rest == places \ {i}
             others == {pool[k] : k \in rest}
  <2>1. [k \in rest |-> pool[k]] \in Surjection(rest, others)
    BY DEF Surjection
  <2> QED BY <1>8, <2>1, FS_Surjection
<1>11. Cardinality(Dead) \in Nat /\ Cardinality(Dead) <= Cardinality({pool[k] : k \in places \ {i}})
  BY <1>9, <1>10, FS_Subset, DeadAreFew
<1>12. Cardinality({pool[k] : k \in places \ {i}}) \in Nat
  BY <1>10, FS_CardinalityType
<1> QED
  BY <1>4, <1>10, <1>11, <1>12, ShortestIsNat

(* With the configured proxies alone, the requests of every thread are      *)
(* served as long as one proxy works, when the rounds ask more often than   *)
(* all the other proxies may fail in a row: nobody raises the last error    *)
(* while the pool holds a proxy that would have answered.                   *)
THEOREM NobodyFailsNeedlessly ==
  ASSUME NumDynamic = 0,
         Rounds * ShortestList > (ShortestList - 1) * MaxFailures
  PROVE  PoolSpec => NoNeedlessFailure
<1>1. ASSUME TriesInv, NEW f \in Fetchers, NEW i \in 1..Len(pool), GiveUp(f),
             pool[i] \in works
      PROVE  FALSE
  <2>1. OneAlwaysWorks /\ Cardinality(Dead) <= ShortestList - 1
    BY <1>1, OneList DEF TriesInv, ListInv
  <2>2. /\ Cardinality(Dead) \in Nat /\ ShortestList - 1 \in Nat
        /\ MaxFailures \in Nat /\ Rounds \in Nat
    BY DeadAreFew, ShortestIsNat, PoolConstants
  <2>3. Cardinality(Dead) * MaxFailures <= (ShortestList - 1) * MaxFailures
    <3>1. PICK d \in Nat : ShortestList - 1 = Cardinality(Dead) + d
      BY <2>1, <2>2, (ShortestList - 1) - Cardinality(Dead) \in Nat
    <3>2. /\ (ShortestList - 1) * MaxFailures = Cardinality(Dead) * MaxFailures + d * MaxFailures
          /\ d * MaxFailures \in Nat /\ Cardinality(Dead) * MaxFailures \in Nat
      BY <2>2, <3>1
    <3> QED BY <3>2
  <2>4. RoundsSuffice
    <3>1. /\ Rounds * ShortestList \in Int /\ Cardinality(Dead) * MaxFailures \in Int
          /\ (ShortestList - 1) * MaxFailures \in Int
      BY <2>2, ShortestIsNat
    <3> QED BY <2>3, <3>1 DEF RoundsSuffice
  <2> QED BY <1>1, <2>1, <2>4, NobodyIsThere
<1>2. TriesInv => \A f \in Fetchers, i \in 1..Len(pool) : GiveUp(f) => pool[i] \notin works
  BY <1>1
<1> QED
  BY <1>2, TriesInvInit, TriesInvKept, PTL DEF PoolSpec, NoNeedlessFailure
=============================================================================
