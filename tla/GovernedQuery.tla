---------------------------- MODULE GovernedQuery ----------------------------
(***************************************************************************)
(* What a runtime promises its analyst about requests and the queries that *)
(* run for them on Snowflake: the request lifecycle, and beside it         *)
(*   - at most one query at a time, and only for a pending request;        *)
(*   - a request that ends while its query runs has that query stopped:    *)
(*     in the same step the query is no longer just running;               *)
(*   - a result is complete only after its query is over.                  *)
(* QueryRuntime implements it.                                             *)
(***************************************************************************)
EXTENDS Integers, FiniteSets

CONSTANTS Ids, MaxPending, MaxRequests

VARIABLES
  status,  \* as in RequestLifecycle
  query    \* "none", "running", "stopping" (asked to end), "over"

Lifecycle == INSTANCE RequestLifecycle

Init == Lifecycle!Init /\ query = [i \in Ids |-> "none"]

Start(i) ==
  /\ status[i] = "pending"
  /\ query[i] = "none"
  /\ \A j \in Ids : query[j] \notin {"running", "stopping"}
  /\ query' = [query EXCEPT ![i] = "running"]
  /\ UNCHANGED status

Finish(i) ==
  /\ query[i] \in {"running", "stopping"}
  /\ query' = [query EXCEPT ![i] = "over"]
  /\ UNCHANGED status

\* The query never runs: the connection failed, or the request ended before.
Skip(i) ==
  /\ query[i] = "none"
  /\ query' = [query EXCEPT ![i] = "over"]
  /\ status' = status \/ (status[i] \in Lifecycle!Live /\ status' = Lifecycle!Lapsed({i}))

StatusChange ==
  /\ Lifecycle!Next
  /\ \A i \in Ids : status'[i] = "complete" => query[i] = "over"
  /\ query' = [i \in Ids |-> IF query[i] = "running" /\ status'[i] # "pending"
                             THEN "stopping" ELSE query[i]]

Next == StatusChange \/ \E i \in Ids : Start(i) \/ Finish(i) \/ Skip(i)

Spec == Init /\ [][Next]_<<status, query>>
=============================================================================
