----------------------------- MODULE RequestList -----------------------------
(***************************************************************************)
(* The request list of the viewer: what App.svelte shows of the broker's   *)
(* requests, by a refresh every two seconds and by lookups of one request, *)
(* through result-api.ts and result_api.py.                                *)
(*                                                                         *)
(* A refresh and a lookup may be on their way together.  Each answer is a  *)
(* snapshot of the broker, and they may arrive in either order.            *)
(* RequestLifecycle stands for the broker.  The page stays mounted: of an  *)
(* unmount see ViewerSession.                                              *)
(***************************************************************************)
EXTENDS Integers, FiniteSets, Sequences, SequencesExt

CONSTANTS
  MaxRequestIds, MaxPending, MaxRequests,  \* those of the broker
  MaxFetches                               \* bound: the calls under way together

ASSUME RequestListAssumption ==
  {MaxRequestIds, MaxPending, MaxRequests, MaxFetches} \subseteq Nat \ {0}

Ids == 1 .. MaxRequestIds

VARIABLES
  status,         \* the broker's requests
  heard,          \* requests is not null
  requests,       \* the rows shown
  listLoading, lookupPending, listFailed, lookupFailed,
  fetches         \* the calls under way, in no order that matters

page == <<heard, requests, listLoading, lookupPending, listFailed, lookupFailed>>
vars == <<status, page, fetches>>

Broker == INSTANCE RequestLifecycle

Row == [id : Ids, status : Broker!Known]

\* A call.  crossed: the kinds of answers shown since its own was taken, a history
\* for the properties.
Fetch == [kind : {"list", "lookup"}, id : Ids \cup {0},
          answer : {"none", "given", "failed"}, rows : Seq(Row),
          crossed : SUBSET {"list", "lookup"}]

Call(kind, i) == [kind |-> kind, id |-> i, answer |-> "none", rows |-> <<>>, crossed |-> {}]

\* The members of s that are in T, in their order
Where(s, T) ==
  LET chosen[n \in 0 .. Len(s)] ==
        IF n = 0 THEN <<>>
        ELSE IF s[n] \in T THEN Append(chosen[n - 1], s[n]) ELSE chosen[n - 1]
  IN chosen[Len(s)]

InFlight(kind) == {n \in DOMAIN fetches : fetches[n].kind = kind}

\* The rows are keyed by their ids; the page has one call of a kind, and says so.
RequestListTypeOK ==
  /\ Broker!TypeOK
  /\ {heard, listFailed, lookupFailed} \subseteq BOOLEAN
  /\ requests \in Seq(Row) /\ (requests # <<>> => heard)
  /\ \A m, n \in DOMAIN requests : requests[m].id = requests[n].id => m = n
  /\ fetches \in Seq(Fetch)
  /\ Cardinality(InFlight("list")) = (IF listLoading THEN 1 ELSE 0)
  /\ Cardinality(InFlight("lookup")) = (IF lookupPending THEN 1 ELSE 0)
  /\ lookupPending => ~ lookupFailed

\* onMount asks for the list at once.
Init ==
  /\ Broker!Init
  /\ heard = FALSE /\ requests = <<>>
  /\ listLoading = TRUE /\ lookupPending = FALSE
  /\ listFailed = FALSE /\ lookupFailed = FALSE
  /\ fetches = <<Call("list", 0)>>

-----------------------------------------------------------------------------
(* The broker and its answers *)

\* Everybody else; ids are numbered in the order of submission.  Nothing is cancelled
\* but by the shutdown of the service (executor.py), which ends the page's answers too.
BrokerMoves ==
  /\ Broker!Next
  /\ Broker!WithStatus(status', {"cancelled"}) = {}
  /\ \A i, j \in Ids : i < j /\ status'[i] = "unsubmitted" => status'[j] = "unsubmitted"
  /\ UNCHANGED <<page, fetches>>

\* _serialize_view, parseRequest
RowOf(i) == [id |-> i, status |-> status[i]]

\* list_requests: the newest first
Listed ==
  LET ids == Where([n \in Ids |-> MaxRequestIds + 1 - n], Broker!WithStatus(status, Broker!Known))
  IN [n \in DOMAIN ids |-> RowOf(ids[n])]

\* The response to call n is given; of a request that is not known it is an error.
Serve(n) ==
  LET f == fetches[n]
      found == f.kind = "list" \/ status[f.id] \in Broker!Known
  IN /\ f.answer = "none"
     /\ fetches' = [fetches EXCEPT
          ![n].id = 0,
          ![n].answer = IF found THEN "given" ELSE "failed",
          ![n].rows = IF ~ found THEN <<>>
                      ELSE IF f.kind = "list" THEN Listed ELSE <<RowOf(f.id)>>]
     /\ UNCHANGED <<status, page>>

\* The connection, the backend or the response is not what it should be.
Break(n) ==
  /\ fetches[n].answer = "none"
  /\ fetches' = [fetches EXCEPT ![n].id = 0, ![n].answer = "failed"]
  /\ UNCHANGED <<status, page>>

-----------------------------------------------------------------------------
(* The page *)

\* Mutant: the timer asks again whatever is on its way.
RefreshAgain ==
  /\ listLoading' = TRUE
  /\ fetches' = Append(fetches, Call("list", 0))
  /\ UNCHANGED <<status, heard, requests, lookupPending, listFailed, lookupFailed>>

\* refreshRequests, by the timer or the button
Refresh ==
  /\ ~ listLoading
  /\ listLoading' = TRUE
  /\ fetches' = Append(fetches, Call("list", 0))
  /\ UNCHANGED <<status, heard, requests, lookupPending, listFailed, lookupFailed>>

\* findRequest
Find(i) ==
  /\ ~ lookupPending
  /\ lookupFailed' = FALSE
  /\ lookupPending' = TRUE
  /\ fetches' = Append(fetches, Call("lookup", i))
  /\ UNCHANGED <<status, heard, requests, listLoading, listFailed>>

\* Call n is over.
Settled(n) ==
  LET marked == [m \in DOMAIN fetches |->
        IF fetches[m].answer = "given" /\ fetches[n].answer = "given"
        THEN [fetches[m] EXCEPT !.crossed = @ \cup {fetches[n].kind}] ELSE fetches[m]]
  IN RemoveAt(marked, n)

\* Mutant: a refresh that fails leaves the page loading.
ListSettlesKeepingBusy(n) ==
  LET given == fetches[n].answer = "given" IN
  /\ requests' = IF given THEN fetches[n].rows ELSE requests
  /\ heard' = (heard \/ given)
  /\ listFailed' = ~ given
  /\ listLoading' = ~ given
  /\ UNCHANGED <<lookupPending, lookupFailed>>

\* The rest of refreshRequests
ListSettles(n) ==
  LET given == fetches[n].answer = "given" IN
  /\ requests' = IF given THEN fetches[n].rows ELSE requests
  /\ heard' = (heard \/ given)
  /\ listFailed' = ~ given
  /\ listLoading' = FALSE
  /\ UNCHANGED <<lookupPending, lookupFailed>>

\* Mutant: the request found is put before its old row.
WithFirstUnfiltered(row) == <<row>> \o requests

\* The request found comes first, and once.
WithFirst(row) == <<row>> \o Where(requests, {r \in Row : r.id # row.id})

\* The rest of findRequest
LookupSettles(n) ==
  LET given == fetches[n].answer = "given" IN
  /\ requests' = IF given THEN WithFirst(fetches[n].rows[1]) ELSE requests
  /\ heard' = (heard \/ given)
  /\ lookupFailed' = ~ given
  /\ lookupPending' = FALSE
  /\ UNCHANGED <<listLoading, listFailed>>

\* The answer arrives.
Arrive(n) ==
  /\ fetches[n].answer # "none"
  /\ IF fetches[n].kind = "list" THEN ListSettles(n) ELSE LookupSettles(n)
  /\ fetches' = Settled(n)
  /\ UNCHANGED status

Next ==
  \/ BrokerMoves
  \/ \E n \in DOMAIN fetches : Serve(n) \/ Break(n) \/ Arrive(n)
  \/ Len(fetches) < MaxFetches /\ (Refresh \/ \E i \in Ids : Find(i))

\* The timer goes on firing, answers are taken, and not every refresh fails.
Fairness ==
  /\ WF_vars(Len(fetches) < MaxFetches /\ Refresh)
  /\ WF_vars(\E n \in InFlight("list") : Arrive(n))
  /\ WF_vars(\E n \in InFlight("lookup") : Arrive(n))
  /\ SF_vars(\E n \in InFlight("list") : Serve(n))

Spec == Init /\ [][Next]_vars /\ Fairness

-----------------------------------------------------------------------------
(* Properties *)

Shown == {requests[n].id : n \in DOMAIN requests}
ShownStatus(i) == (CHOOSE r \in ToSet(requests) : r.id = i).status

\* What may become of a request that was seen as a
Reaches(a, b) ==
  a = b \/ a = "pending" \/ (a = "complete" /\ b \in {"cancelled", "expired"})

\* Row i is replaced by an older one, or dropped though the broker still knows it.
GoesBack(i) ==
  /\ i \in Shown
  /\ IF i \in Shown' THEN ~ Reaches(ShownStatus(i), ShownStatus(i)')
     ELSE status[i] # "forgotten"

\* A row goes back, or goes, only where a refresh and a lookup have crossed: the answer
\* of one was taken before, and arrives after, the other's.  Refreshes do not overtake
\* refreshes, nor lookups lookups, however late they are.
OnlyCrossingGoesBack ==
  [][(\E i \in Ids : GoesBack(i)) =>
       \E n \in DOMAIN fetches :
         /\ fetches' = Settled(n)
         /\ {"list", "lookup"} \ {fetches[n].kind} \subseteq fetches[n].crossed]_vars

\* Whatever failed, crossed or was dropped, the page comes to show the requests
\* the broker has, as it has them, and no other.
ListCatchesUp ==
  <>[](heard /\ ToSet(requests) = ToSet(Listed))
=============================================================================
