------------------------------- MODULE Broker -------------------------------
(***************************************************************************)
(* InProcessBroker (src/snowglobe/broker.py): the request records of one   *)
(* runtime behind one re-entrant lock.                                     *)
(*                                                                         *)
(* Each action is one locked section of one method.  A cursor the section  *)
(* takes out of a record is cancelled by the calling thread AFTER the lock *)
(* is released, so the drivers' cancel() calls are steps of their own:     *)
(* toCancel[t] holds the cursors thread t has still to cancel, and t makes *)
(* no other call until it is empty.  Every other thread may run between.   *)
(*                                                                         *)
(* A request id is its position in the order of submission (the insertion  *)
(* order of the records dict); ids are random and never reused.            *)
(***************************************************************************)
EXTENDS Integers, FiniteSets

CONSTANTS
  MaxSubmissions,  \* bound: how many requests are ever admitted
  MaxTime,         \* bound: how far the clock runs
  MaxTTL,          \* maximum_ttl, in clock ticks
  MaxPending,      \* maximum_pending_requests
  MaxRequests,     \* maximum_requests
  Threads,         \* the threads that call the broker
  Cursors,         \* the driver cursors
  Sources          \* the admitted results

None == 0
Ids == 1 .. MaxSubmissions

\* __init__ refuses limits that are not positive; the runtime sets all three.
ASSUME BrokerAssumption ==
  /\ MaxSubmissions \in Nat
  /\ MaxTime \in Nat
  /\ MaxTTL \in Nat \ {0}
  /\ MaxPending \in Nat \ {0}
  /\ MaxRequests \in Nat \ {0}
  /\ Cursors \subseteq Nat \ {0}
  /\ Sources \subseteq Nat \ {0}

VARIABLES
  records,    \* _records: the record of each id, NoRecord when the dict has none
  submitted,  \* how many ids have been handed out
  now,        \* _clock
  toCancel,   \* per thread, the cursors taken under the lock and not yet cancelled
  cancelled   \* the cursors whose cancel() was called (state of the driver)

vars == <<records, submitted, now, toCancel, cancelled>>

Live     == {"pending", "complete"}
Ended    == {"failed", "cancelled", "expired"}
Statuses == Live \cup Ended

Record == [status  : Statuses \cup {"unknown"},
           expires : 0 .. MaxTime + MaxTTL,
           source  : Sources \cup {None},
           cursor  : Cursors \cup {None}]

NoRecord == [status |-> "unknown", expires |-> 0, source |-> None, cursor |-> None]

TypeOK ==
  /\ records \in [Ids -> Record]
  /\ submitted \in 0 .. MaxSubmissions
  /\ now \in 0 .. MaxTime
  /\ toCancel \in [Threads -> SUBSET Cursors]
  /\ cancelled \subseteq Cursors

Init ==
  /\ records = [i \in Ids |-> NoRecord]
  /\ submitted = 0
  /\ now = 0
  /\ toCancel = [t \in Threads |-> {}]
  /\ cancelled = {}

-----------------------------------------------------------------------------
(* Expiry, refreshed by every locked section *)

Due(r) == r.status \in Live /\ now >= r.expires

\* Mutant: a result that expires keeps its source.
ExpireKeepingSource(r) ==
  IF Due(r) THEN [r EXCEPT !.status = "expired", !.cursor = None] ELSE r

\* _expire
Expire(r) ==
  IF Due(r) THEN [r EXCEPT !.status = "expired", !.source = None, !.cursor = None]
            ELSE r

Overdue(S) == {i \in S : Due(records[i])}
CursorsOf(S) == {records[i].cursor : i \in S} \ {None}

\* Mutant: the cursors of records that expire in passing are forgotten.
ExpiredCursorsDropped(S) == {}

\* The cursors _expire returns for the records in S.
ExpiredCursors(S) == CursorsOf(Overdue(S))

\* The records a method sees inside _locked_record and _locked_records.
LookedUp(i) == [records EXCEPT ![i] = Expire(@)]
Refreshed == [i \in Ids |-> Expire(records[i])]

WithStatus(recs, S) == {i \in Ids : recs[i].status \in S}

Idle(t) == toCancel[t] = {}

\* One locked section of thread t that leaves recs and must then cancel drop.
Locked(t, recs, drop) ==
  /\ Idle(t)
  /\ records' = recs
  /\ toCancel' = [toCancel EXCEPT ![t] = drop]
  /\ UNCHANGED <<now, cancelled>>

-----------------------------------------------------------------------------
(* Submission *)

AtPendingCapacity(recs) == Cardinality(WithStatus(recs, {"pending"})) >= MaxPending

\* Mutant: room is made one record too late.
FullTooLate(recs) == Cardinality(WithStatus(recs, Statuses)) > MaxRequests

Full(recs) == Cardinality(WithStatus(recs, Statuses)) >= MaxRequests

\* Mutant: an unexpired result counts as evictable.
EvictableResults(recs) == WithStatus(recs, Ended \cup {"complete"})

Evictable(recs) == WithStatus(recs, Ended)

\* Mutant: the newest ended record makes room.
NewestEvicted(recs) ==
  IF ~ Full(recs) THEN recs
  ELSE [i \in Ids |-> IF /\ i \in Evictable(recs)
                         /\ \A j \in Evictable(recs) : j <= i
                      THEN NoRecord ELSE recs[i]]

\* _make_room, where it does not raise: the oldest ended record goes.
RoomMade(recs) ==
  IF ~ Full(recs) THEN recs
  ELSE [i \in Ids |-> IF /\ i \in Evictable(recs)
                         /\ \A j \in Evictable(recs) : i <= j
                      THEN NoRecord ELSE recs[i]]

CanAdmit ==
  /\ ~ AtPendingCapacity(Refreshed)
  /\ Full(Refreshed) => Evictable(Refreshed) # {}

\* Mutant: the requested lifetime is not capped.
Uncapped(a, b) == a

Earlier(a, b) == IF a < b THEN a ELSE b

Admitted(ttl) ==
  [RoomMade(Refreshed) EXCEPT
     ![submitted + 1] = [status  |-> "pending",
                         expires |-> now + Earlier(ttl, MaxTTL),
                         source  |-> None,
                         cursor  |-> None]]

\* submit: the record is admitted ...
Submit(t, ttl) ==
  /\ submitted < MaxSubmissions
  /\ CanAdmit
  /\ Locked(t, Admitted(ttl), ExpiredCursors(Ids))
  /\ submitted' = submitted + 1

\* ... or submit raises, and what expired under its lock stays expired.
SubmitRefused(t) ==
  /\ ~ CanAdmit
  /\ Locked(t, Refreshed, ExpiredCursors(Ids))
  /\ UNCHANGED submitted

-----------------------------------------------------------------------------
(* The cursor of a pending request *)

\* register_cursor: a cursor that comes too late is cancelled, not attached.
RegisterCursor(t, i, c) ==
  LET r == Expire(records[i]) IN
  /\ IF r.status = "pending" /\ r.cursor = None
     THEN Locked(t, [records EXCEPT ![i] = [r EXCEPT !.cursor = c]], {})
     ELSE Locked(t, LookedUp(i), ExpiredCursors({i}) \cup {c})
  /\ UNCHANGED submitted

\* release_cursor: exactly that cursor, and only while the request is pending.
ReleaseCursor(t, i, c) ==
  LET r == Expire(records[i]) IN
  /\ IF r.status = "pending" /\ r.cursor = c
     THEN Locked(t, [records EXCEPT ![i] = [r EXCEPT !.cursor = None]], {})
     ELSE Locked(t, LookedUp(i), ExpiredCursors({i}))
  /\ UNCHANGED submitted

-----------------------------------------------------------------------------
(* The ends of a request *)

\* Mutant: publication does not look at the status.
PublishUnchecked(t, i, s) ==
  LET r == Expire(records[i]) IN
  /\ IF r.status # "unknown"
     THEN Locked(t, [records EXCEPT ![i] = [r EXCEPT !.status = "complete",
                                                     !.source = s, !.cursor = None]], {})
     ELSE Locked(t, LookedUp(i), ExpiredCursors({i}))
  /\ UNCHANGED submitted

\* publish: source and status change in one section; late results are refused.
Publish(t, i, s) ==
  LET r == Expire(records[i]) IN
  /\ IF r.status = "pending"
     THEN Locked(t, [records EXCEPT ![i] = [r EXCEPT !.status = "complete",
                                                     !.source = s, !.cursor = None]], {})
     ELSE Locked(t, LookedUp(i), ExpiredCursors({i}))
  /\ UNCHANGED submitted

\* fail
Fail(t, i) ==
  LET r == Expire(records[i]) IN
  /\ IF r.status = "pending"
     THEN Locked(t, [records EXCEPT ![i] = [r EXCEPT !.status = "failed", !.cursor = None]],
                 {r.cursor} \ {None})
     ELSE Locked(t, LookedUp(i), ExpiredCursors({i}))
  /\ UNCHANGED submitted

\* cancel: pending and complete requests alike; a no-op on the ended ones.
Cancel(t, i) ==
  LET r == Expire(records[i]) IN
  /\ IF r.status \in Live
     THEN Locked(t, [records EXCEPT ![i] = [r EXCEPT !.status = "cancelled",
                                                     !.source = None, !.cursor = None]],
                 {r.cursor} \ {None})
     ELSE Locked(t, LookedUp(i), ExpiredCursors({i}))
  /\ UNCHANGED submitted

-----------------------------------------------------------------------------
(* Lookups change state too: they expire what is due *)

\* get_request and open_source, which differ in what they return
GetRequest(t, i) ==
  /\ Locked(t, LookedUp(i), ExpiredCursors({i}))
  /\ UNCHANGED submitted

\* list_requests
ListRequests(t) ==
  /\ Locked(t, Refreshed, ExpiredCursors(Ids))
  /\ UNCHANGED submitted

\* _cancel_quietly, outside the lock; the driver's failure is suppressed
CancelQuietly(t) ==
  \E c \in toCancel[t] :
    /\ toCancel' = [toCancel EXCEPT ![t] = @ \ {c}]
    /\ cancelled' = cancelled \cup {c}
    /\ UNCHANGED <<records, submitted, now>>

Tick ==
  /\ now < MaxTime
  /\ now' = now + 1
  /\ UNCHANGED <<records, submitted, toCancel, cancelled>>

-----------------------------------------------------------------------------
(* The broker under callers that may call anything, in any order *)

Call(t) ==
  \/ \E ttl \in 1 .. MaxTTL + 1 : Submit(t, ttl)
  \/ SubmitRefused(t)
  \/ ListRequests(t)
  \/ \E i \in Ids : GetRequest(t, i) \/ Fail(t, i) \/ Cancel(t, i)
  \/ \E i \in Ids, c \in Cursors : RegisterCursor(t, i, c) \/ ReleaseCursor(t, i, c)
  \/ \E i \in Ids, s \in Sources : Publish(t, i, s)

Next == Tick \/ \E t \in Threads : Call(t) \/ CancelQuietly(t)

Spec == Init /\ [][Next]_vars

-----------------------------------------------------------------------------
(* Properties *)

\* A record holds a result exactly while it is complete, a cursor only while
\* it is pending: no ended request keeps private data or a driver handle alive.
HandlesFollowStatus ==
  \A i \in Ids :
    /\ records[i].source # None <=> records[i].status = "complete"
    /\ records[i].cursor # None => records[i].status = "pending"

\* The two capacities hold whatever is submitted, expired or evicted.
WithinCapacity ==
  /\ Cardinality(WithStatus(records, {"pending"})) <= MaxPending
  /\ Cardinality(WithStatus(records, Statuses)) <= MaxRequests

\* Whichever call ends a request that has a cursor (fail, cancel, or any lookup
\* that finds it due) leaves the calling thread with that cursor to cancel.
EndingCancelsTheCursor ==
  [][\A i \in Ids :
       /\ records[i].cursor # None
       /\ records'[i].status \notin Live
       => \E t \in Threads : records[i].cursor \in toCancel'[t]]_vars

\* Only a full broker forgets, only to admit, and only the oldest request that
\* is ended or due: never a pending request or an unexpired result.
EvictionSparesTheLive ==
  [][\A i \in Ids :
       /\ records[i].status # "unknown"
       /\ records'[i].status = "unknown"
       => /\ submitted' = submitted + 1
          /\ Cardinality(WithStatus(records, Statuses)) = MaxRequests
          /\ records[i].status \in Ended \/ Due(records[i])
          /\ \A j \in 1 .. i - 1 : records[j].status \in Live \cup {"unknown"}
                                   /\ ~ Due(records[j])]_vars

\* The broker's statuses are those of the lifecycle diagram.
LifecycleStatus ==
  [i \in Ids |-> IF records[i].status # "unknown" THEN records[i].status
                 ELSE IF i <= submitted THEN "forgotten" ELSE "unsubmitted"]

Lifecycle == INSTANCE RequestLifecycle WITH status <- LifecycleStatus

ImplementsLifecycle == Lifecycle!Spec
=============================================================================
