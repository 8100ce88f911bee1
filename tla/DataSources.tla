----------------------------- MODULE DataSources -----------------------------
(***************************************************************************)
(* One request for the prices of a Chinese stock: the tool                 *)
(* get_china_stock_data_unified of tradingagents/dataflows/interface.py,   *)
(* the function of that name in data_source_manager.py, and the manager's  *)
(* get_stock_data with its rounds of backup sources.  What a source is     *)
(* asked for is left out; what it answers is decided when it is asked.  A  *)
(* result is a text with prices, a text that says an error, or, where      *)
(* _try_fallback_sources is returned as it is, a pair.                     *)
(***************************************************************************)
EXTENDS Naturals, Sequences, SequencesExt

Backups == {"tushare", "akshare", "baostock"}
DefaultOrder == <<"akshare", "tushare", "baostock">>

VARIABLES
  current,    \* current_source: "mongodb" (the database) or one of Backups
  available,  \* available_sources, without the database
  order,      \* what _get_data_source_priority_order answers
  pc,         \* "current", "inner" or "outer" round of backups, "unified", "returned"
  next,       \* the position in order the round has reached
  gave,       \* history: the sources that answered with prices
  result      \* what get_stock_data, and in the end the tool, returns

vars == <<current, available, order, pc, next, gave, result>>

(* The active configuration's order of the sources it enables, or, when     *)
(* none of those is available, the default order.                           *)
PriorityOrders(S) ==
  (SetToAllKPermutations(S) \ {<<>>}) \cup {SelectSeq(DefaultOrder, LAMBDA s : s \in S)}

\* The default source is not checked against the available ones.
Init ==
  /\ current \in {"mongodb"} \cup Backups
  /\ available \in SUBSET Backups
  /\ order \in PriorityOrders(available)
  /\ pc = "current" /\ next = 1
  /\ gave = {} /\ result = "none"

(* _get_akshare_data turns its exceptions into texts; the others raise.     *)
Answers(s) == {"prices", "error"} \cup (IF s = "akshare" THEN {} ELSE {"raises"})

\* The database has its backups asked by _get_pg_cache_data itself.
AskDatabase ==
  /\ pc = "current" /\ current = "mongodb"
  /\ \/ pc' = "unified" /\ result' = "prices" /\ gave' = {"mongodb"}
     \/ pc' = "inner" /\ UNCHANGED <<result, gave>>
  /\ UNCHANGED <<current, available, order, next>>

AskCurrent ==
  /\ pc = "current" /\ current # "mongodb"
  /\ \E a \in Answers(current) :
       /\ pc' = IF a = "prices" THEN "unified" ELSE "outer"
       /\ result' = IF a = "prices" THEN "prices" ELSE "error"
       /\ gave' = IF a = "prices" THEN {current} ELSE {}
  /\ UNCHANGED <<current, available, order, next>>

InRound == pc \in {"inner", "outer"} /\ next <= Len(order)

Skip ==
  /\ InRound
  /\ order[next] = current \/ order[next] \notin available
  /\ next' = next + 1
  /\ UNCHANGED <<current, available, order, pc, gave, result>>

(* The inner round's pair is unpacked by get_stock_data, the outer one's is *)
(* returned: the tests for an error text compare it with members of a pair. *)
AskBackup ==
  /\ InRound
  /\ order[next] # current /\ order[next] \in available
  /\ \E a \in Answers(order[next]) :
       IF a = "prices"
         THEN /\ pc' = "unified" /\ next' = next
              /\ gave' = gave \cup {order[next]}
              /\ result' = IF pc = "inner" THEN "prices" ELSE "pair"
         ELSE next' = next + 1 /\ UNCHANGED <<pc, gave, result>>
  /\ UNCHANGED <<current, available, order>>

\* Every backup failed; after the inner round they are all asked once more.
RoundEnds ==
  /\ pc \in {"inner", "outer"} /\ next > Len(order)
  /\ IF pc = "inner" THEN pc' = "outer" /\ next' = 1 /\ result' = "error"
                     ELSE pc' = "unified" /\ next' = next /\ result' = "pair"
  /\ UNCHANGED <<current, available, order, gave>>

(* The module's function splits the result into lines, which a pair has no  *)
(* method for; the tool answers the exception as an error text.             *)
Unified ==
  /\ pc = "unified" /\ pc' = "returned"
  /\ result' = IF result = "pair" THEN "error" ELSE result
  /\ UNCHANGED <<current, available, order, next, gave>>

Next == AskDatabase \/ AskCurrent \/ Skip \/ AskBackup \/ RoundEnds \/ Unified

Spec == Init /\ [][Next]_vars

(* What the docstrings of both functions promise, "with backup sources": if *)
(* a source that was asked had the prices, the caller gets them.            *)
FallbackReachesCaller == pc = "returned" /\ gave # {} => result = "prices"
=============================================================================
