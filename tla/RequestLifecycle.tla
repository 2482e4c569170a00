-------------------------- MODULE RequestLifecycle --------------------------
(***************************************************************************)
(* What the broker promises about the status of a request, without its    *)
(* records, handles, clock or lock: the diagram of                         *)
(* docs/developer-guide.md section 10, with the two capacities of          *)
(* docs/decisions/0018-minimal-boundary-cleanup.md.  Broker implements it. *)
(***************************************************************************)
EXTENDS Integers, FiniteSets

CONSTANTS
  Ids,          \* the request ids, in the order they can be submitted
  MaxPending,   \* how many requests may be pending at once
  MaxRequests   \* how many requests are remembered at once

VARIABLE status

Live  == {"pending", "complete"}
Ended == {"failed", "cancelled", "expired"}
Known == Live \cup Ended

WithStatus(st, S) == {i \in Ids : st[i] \in S}

TypeOK == status \in [Ids -> Known \cup {"unsubmitted", "forgotten"}]

Init == status = [i \in Ids |-> "unsubmitted"]

(***************************************************************************)
(* Time passes unseen between two steps: any live requests may lapse first.*)
(***************************************************************************)
Lapsed(S) == [i \in Ids |-> IF i \in S THEN "expired" ELSE status[i]]

\* A new request is admitted below both capacities; to make room the oldest
\* ended request may be forgotten, never a live one.
Admit(before) ==
  /\ Cardinality(WithStatus(before, {"pending"})) < MaxPending
  /\ \E i \in WithStatus(before, {"unsubmitted"}) :
       \/ /\ Cardinality(WithStatus(before, Known)) < MaxRequests
          /\ status' = [before EXCEPT ![i] = "pending"]
       \/ \E old \in WithStatus(before, Ended) :
            /\ \A j \in WithStatus(before, Ended) : old <= j
            /\ status' = [before EXCEPT ![i] = "pending", ![old] = "forgotten"]

Settle(before, i) ==
  /\ before[i] = "pending"
  /\ \E outcome \in {"complete", "failed", "cancelled"} :
       status' = [before EXCEPT ![i] = outcome]

Withdraw(before, i) ==
  /\ before[i] = "complete"
  /\ status' = [before EXCEPT ![i] = "cancelled"]

Next ==
  \E S \in SUBSET WithStatus(status, Live) :
    \/ status' = Lapsed(S)
    \/ Admit(Lapsed(S))
    \/ \E i \in Ids : Settle(Lapsed(S), i) \/ Withdraw(Lapsed(S), i)

Spec == Init /\ [][Next]_status
=============================================================================
