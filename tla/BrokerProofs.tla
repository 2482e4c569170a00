---------------------------- MODULE BrokerProofs ----------------------------
(***************************************************************************)
(* Proofs about the broker for every value of its constants and any        *)
(* pattern of calls: its types, the handles its records hold, its two      *)
(* capacities.                                                             *)
(***************************************************************************)
EXTENDS Broker, FiniteSetTheorems, TLAPS

-----------------------------------------------------------------------------
(* What the helpers return *)

\* Expiry yields a record, changes only live ones, and never makes one pending.
LEMMA ExpireFacts ==
  ASSUME NEW r \in Record, now \in Nat
  PROVE  /\ Expire(r) \in Record
         /\ Expire(r) = r \/ (Due(r) /\ Expire(r).status = "expired"
                              /\ Expire(r).source = None /\ Expire(r).cursor = None)
         /\ Expire(r).status \in Live => Expire(r) = r
         /\ Expire(r).status = "unknown" <=> r.status = "unknown"
BY DEF Expire, Due, Record, Statuses, Live, Ended, None

\* The records a locked section looks at, and the cursors it takes, are typed.
LEMMA LockedSectionTypes ==
  ASSUME TypeOK
  PROVE  /\ Refreshed \in [Ids -> Record]
         /\ \A i \in Ids : /\ Expire(records[i]) \in Record
                           /\ LookedUp(i) \in [Ids -> Record]
                           /\ LookedUp(i)[i] = Expire(records[i])
                           /\ \A j \in Ids \ {i} : LookedUp(i)[j] = records[j]
         /\ \A S \in SUBSET Ids : ExpiredCursors(S) \in SUBSET Cursors
<1>1. \A i \in Ids : Expire(records[i]) \in Record
  BY ExpireFacts DEF TypeOK
<1>2. Refreshed \in [Ids -> Record]
  BY <1>1 DEF Refreshed
<1>3. ASSUME NEW i \in Ids
      PROVE  /\ LookedUp(i) \in [Ids -> Record]
             /\ LookedUp(i)[i] = Expire(records[i])
             /\ \A j \in Ids \ {i} : LookedUp(i)[j] = records[j]
  BY <1>1 DEF LookedUp, TypeOK
<1>4. ASSUME NEW S \in SUBSET Ids PROVE ExpiredCursors(S) \in SUBSET Cursors
  <2>1. \A i \in S : records[i].cursor \in Cursors \cup {None}
    BY DEF TypeOK, Record
  <2> QED BY <2>1 DEF ExpiredCursors, CursorsOf, Overdue
<1> QED BY <1>1, <1>2, <1>3, <1>4

\* A locked section that leaves typed records and drops cursors is typed.
LEMMA LockedType ==
  ASSUME TypeOK, NEW t \in Threads, NEW recs \in [Ids -> Record],
         NEW drop \in SUBSET Cursors, Locked(t, recs, drop),
         submitted' \in 0 .. MaxSubmissions
  PROVE  TypeOK'
BY DEF Locked, TypeOK

\* Making room leaves typed records and touches no record that is not ended.
LEMMA RoomMadeFacts ==
  ASSUME TypeOK
  PROVE  /\ RoomMade(Refreshed) \in [Ids -> Record]
         /\ \A i \in Ids :
              \/ RoomMade(Refreshed)[i] = Refreshed[i]
              \/ Refreshed[i].status \in Ended /\ RoomMade(Refreshed)[i] = NoRecord
<1>1. Refreshed \in [Ids -> Record]
  BY LockedSectionTypes
<1>2. NoRecord \in Record
  BY BrokerAssumption DEF NoRecord, Record, None
<1>3. ASSUME NEW i \in Ids
      PROVE  \/ RoomMade(Refreshed)[i] = Refreshed[i]
             \/ Refreshed[i].status \in Ended /\ RoomMade(Refreshed)[i] = NoRecord
  BY <1>1 DEF RoomMade, Evictable, WithStatus
<1> QED BY <1>1, <1>2, <1>3 DEF RoomMade

\* The records after an admission: the new one is pending and has no handles.
LEMMA AdmittedFacts ==
  ASSUME TypeOK, NEW ttl \in Nat, submitted < MaxSubmissions
  PROVE  /\ submitted + 1 \in Ids
         /\ Admitted(ttl) \in [Ids -> Record]
         /\ Admitted(ttl)[submitted + 1].status = "pending"
         /\ Admitted(ttl)[submitted + 1].source = None
         /\ Admitted(ttl)[submitted + 1].cursor = None
         /\ \A i \in Ids \ {submitted + 1} : Admitted(ttl)[i] = RoomMade(Refreshed)[i]
<1>1. submitted + 1 \in Ids
  BY BrokerAssumption DEF TypeOK, Ids
<1>2. now + Earlier(ttl, MaxTTL) \in 0 .. MaxTime + MaxTTL
  BY BrokerAssumption DEF TypeOK, Earlier
<1> DEFINE new == [status |-> "pending", expires |-> now + Earlier(ttl, MaxTTL),
                   source |-> None, cursor |-> None]
<1>3. new \in Record
  BY <1>2 DEF Record, Statuses, Live
<1>4. RoomMade(Refreshed) \in [Ids -> Record]
  BY RoomMadeFacts
<1>5. Admitted(ttl) = [RoomMade(Refreshed) EXCEPT ![submitted + 1] = new]
  BY DEF Admitted
<1>6. new.status = "pending" /\ new.source = None /\ new.cursor = None
  OBVIOUS
<1> HIDE DEF new
<1> QED BY <1>1, <1>3, <1>4, <1>5, <1>6

-----------------------------------------------------------------------------
(* Types *)

THEOREM InitTypeOK == Init => TypeOK
<1>1. NoRecord \in Record
  BY BrokerAssumption DEF NoRecord, Record, None
<1> QED BY <1>1, BrokerAssumption DEF Init, TypeOK

\* Every call keeps the types.
LEMMA SubmitType ==
  ASSUME TypeOK, NEW t \in Threads, NEW ttl \in Nat, Submit(t, ttl)
  PROVE  TypeOK'
<1>1. Admitted(ttl) \in [Ids -> Record] /\ submitted + 1 \in Ids
  BY AdmittedFacts DEF Submit
<1>2. ExpiredCursors(Ids) \in SUBSET Cursors
  BY LockedSectionTypes
<1>3. submitted' \in 0 .. MaxSubmissions
  BY <1>1, BrokerAssumption DEF Submit, Ids
<1> QED BY <1>1, <1>2, <1>3, LockedType DEF Submit

LEMMA LookupType ==
  ASSUME TypeOK, NEW t \in Threads,
         SubmitRefused(t) \/ ListRequests(t) \/ \E i \in Ids : GetRequest(t, i)
  PROVE  TypeOK'
<1>1. submitted' = submitted /\ submitted \in 0 .. MaxSubmissions
  BY DEF SubmitRefused, ListRequests, GetRequest, TypeOK
<1>2. CASE SubmitRefused(t) \/ ListRequests(t)
  BY <1>1, <1>2, LockedSectionTypes, LockedType DEF SubmitRefused, ListRequests
<1>3. CASE \E i \in Ids : GetRequest(t, i)
  <2> PICK i \in Ids : GetRequest(t, i)
    BY <1>3
  <2>1. {i} \in SUBSET Ids
    OBVIOUS
  <2> QED BY <1>1, <2>1, LockedSectionTypes, LockedType DEF GetRequest
<1> QED BY <1>2, <1>3

\* The shape shared by the methods that change one record r of a request.
LEMMA OneRecordType ==
  ASSUME TypeOK, NEW t \in Threads, NEW i \in Ids, NEW r \in Record,
         NEW drop \in SUBSET Cursors, UNCHANGED submitted,
         \/ Locked(t, [records EXCEPT ![i] = r], drop)
         \/ Locked(t, LookedUp(i), ExpiredCursors({i}) \cup drop)
  PROVE  TypeOK'
<1>1. submitted' \in 0 .. MaxSubmissions
  BY DEF TypeOK
<1>2. [records EXCEPT ![i] = r] \in [Ids -> Record]
  BY DEF TypeOK
<1>3. LookedUp(i) \in [Ids -> Record] /\ ExpiredCursors({i}) \cup drop \in SUBSET Cursors
  BY LockedSectionTypes, {i} \in SUBSET Ids
<1> QED BY <1>1, <1>2, <1>3, LockedType

\* The record a lookup leaves, and the cursors it may hand to its thread.
LEMMA LookedUpRecord ==
  ASSUME TypeOK, NEW i \in Ids
  PROVE  /\ Expire(records[i]) \in Record
         /\ {Expire(records[i]).cursor} \ {None} \in SUBSET Cursors
<1>1. Expire(records[i]) \in Record
  BY LockedSectionTypes
<1> QED BY <1>1 DEF Record

\* A method that leaves the record as the lookup found it.
LEMMA NoChangeType ==
  ASSUME TypeOK, NEW t \in Threads, NEW i \in Ids, UNCHANGED submitted,
         Locked(t, LookedUp(i), ExpiredCursors({i}))
  PROVE  TypeOK'
<1>1. submitted' \in 0 .. MaxSubmissions
  BY DEF TypeOK
<1>2. LookedUp(i) \in [Ids -> Record] /\ ExpiredCursors({i}) \in SUBSET Cursors
  BY LockedSectionTypes, {i} \in SUBSET Ids
<1> QED BY <1>1, <1>2, LockedType

LEMMA RegisterType ==
  ASSUME TypeOK, NEW t \in Threads, NEW i \in Ids, NEW c \in Cursors,
         RegisterCursor(t, i, c)
  PROVE  TypeOK'
<1> DEFINE r == Expire(records[i])
           new == [r EXCEPT !.cursor = c]
<1>1. new \in Record
  BY LookedUpRecord DEF Record
<1>2. {c} \in SUBSET Cursors /\ {} \in SUBSET Cursors /\ UNCHANGED submitted
  BY DEF RegisterCursor
<1>3. \/ Locked(t, [records EXCEPT ![i] = new], {})
      \/ Locked(t, LookedUp(i), ExpiredCursors({i}) \cup {c})
  BY DEF RegisterCursor
<1> HIDE DEF new
<1> QED BY <1>1, <1>2, <1>3, OneRecordType

LEMMA ReleaseType ==
  ASSUME TypeOK, NEW t \in Threads, NEW i \in Ids, NEW c \in Cursors,
         ReleaseCursor(t, i, c)
  PROVE  TypeOK'
<1> DEFINE r == Expire(records[i])
           new == [r EXCEPT !.cursor = None]
<1>1. new \in Record
  BY LookedUpRecord DEF Record
<1>2. {} \in SUBSET Cursors /\ UNCHANGED submitted
  BY DEF ReleaseCursor
<1>3. \/ Locked(t, [records EXCEPT ![i] = new], {})
      \/ Locked(t, LookedUp(i), ExpiredCursors({i}))
  BY DEF ReleaseCursor
<1> HIDE DEF new
<1> QED BY <1>1, <1>2, <1>3, OneRecordType, NoChangeType

LEMMA PublishType ==
  ASSUME TypeOK, NEW t \in Threads, NEW i \in Ids, NEW s \in Sources,
         Publish(t, i, s)
  PROVE  TypeOK'
<1> DEFINE r == Expire(records[i])
           new == [r EXCEPT !.status = "complete", !.source = s, !.cursor = None]
<1>1. new \in Record
  BY LookedUpRecord DEF Record, Statuses, Live
<1>2. {} \in SUBSET Cursors /\ UNCHANGED submitted
  BY DEF Publish
<1>3. \/ Locked(t, [records EXCEPT ![i] = new], {})
      \/ Locked(t, LookedUp(i), ExpiredCursors({i}))
  BY DEF Publish
<1> HIDE DEF new
<1> QED BY <1>1, <1>2, <1>3, OneRecordType, NoChangeType

LEMMA FailType ==
  ASSUME TypeOK, NEW t \in Threads, NEW i \in Ids, Fail(t, i)
  PROVE  TypeOK'
<1> DEFINE r == Expire(records[i])
           new == [r EXCEPT !.status = "failed", !.cursor = None]
           drop == {r.cursor} \ {None}
<1>1. new \in Record
  BY LookedUpRecord DEF Record, Statuses, Ended
<1>2. drop \in SUBSET Cursors /\ UNCHANGED submitted
  BY LookedUpRecord DEF Fail
<1>3. \/ Locked(t, [records EXCEPT ![i] = new], drop)
      \/ Locked(t, LookedUp(i), ExpiredCursors({i}))
  BY DEF Fail
<1> HIDE DEF new, drop
<1> QED BY <1>1, <1>2, <1>3, OneRecordType, NoChangeType

LEMMA CancelType ==
  ASSUME TypeOK, NEW t \in Threads, NEW i \in Ids, Cancel(t, i)
  PROVE  TypeOK'
<1> DEFINE r == Expire(records[i])
           new == [r EXCEPT !.status = "cancelled", !.source = None, !.cursor = None]
           drop == {r.cursor} \ {None}
<1>1. new \in Record
  BY LookedUpRecord DEF Record, Statuses, Ended
<1>2. drop \in SUBSET Cursors /\ UNCHANGED submitted
  BY LookedUpRecord DEF Cancel
<1>3. \/ Locked(t, [records EXCEPT ![i] = new], drop)
      \/ Locked(t, LookedUp(i), ExpiredCursors({i}))
  BY DEF Cancel
<1> HIDE DEF new, drop
<1> QED BY <1>1, <1>2, <1>3, OneRecordType, NoChangeType

LEMMA OneRecordCallType ==
  ASSUME TypeOK, NEW t \in Threads, NEW i \in Ids,
         \/ \E c \in Cursors : RegisterCursor(t, i, c) \/ ReleaseCursor(t, i, c)
         \/ \E s \in Sources : Publish(t, i, s)
         \/ Fail(t, i)
         \/ Cancel(t, i)
  PROVE  TypeOK'
BY RegisterType, ReleaseType, PublishType, FailType, CancelType

LEMMA CancelQuietlyType ==
  ASSUME TypeOK, NEW t \in Threads, CancelQuietly(t)
  PROVE  TypeOK'
BY DEF CancelQuietly, TypeOK

LEMMA TickType == TypeOK /\ Tick => TypeOK'
BY BrokerAssumption DEF Tick, TypeOK

\* A step of the broker's specification keeps the types.
LEMMA NextTypeOK == TypeOK /\ [Next]_vars => TypeOK'
<1> SUFFICES ASSUME TypeOK, [Next]_vars PROVE TypeOK'
  OBVIOUS
<1>1. \A ttl \in 1 .. MaxTTL + 1 : ttl \in Nat
  BY BrokerAssumption
<1>2. CASE Tick
  BY <1>2, TickType
<1>3. ASSUME NEW t \in Threads, Call(t) PROVE TypeOK'
  <2>1. CASE \E ttl \in 1 .. MaxTTL + 1 : Submit(t, ttl)
    BY <1>1, <2>1, SubmitType
  <2>2. CASE SubmitRefused(t) \/ ListRequests(t) \/ \E i \in Ids : GetRequest(t, i)
    BY <2>2, LookupType
  <2>3. CASE \E i \in Ids : \/ \E c \in Cursors : RegisterCursor(t, i, c)
                                                  \/ ReleaseCursor(t, i, c)
                            \/ \E s \in Sources : Publish(t, i, s)
                            \/ Fail(t, i)
                            \/ Cancel(t, i)
    BY <2>3, OneRecordCallType
  <2> QED BY <1>3, <2>1, <2>2, <2>3 DEF Call
<1>4. ASSUME NEW t \in Threads, CancelQuietly(t) PROVE TypeOK'
  BY <1>4, CancelQuietlyType
<1>5. CASE UNCHANGED vars
  BY <1>5 DEF vars, TypeOK
<1> QED BY <1>2, <1>3, <1>4, <1>5 DEF Next

\* The type invariant of the broker, whatever its callers do.
THEOREM BrokerTypes == Spec => []TypeOK
BY InitTypeOK, NextTypeOK, PTL DEF Spec

-----------------------------------------------------------------------------
(* Every step changes the records in one of three ways *)

\* A lookup of the requests in S: those that are due expire, nothing else changes.
LookUpStep(S) ==
  /\ \A i \in Ids : records'[i] = IF i \in S THEN Expire(records[i]) ELSE records[i]
  /\ submitted' = submitted

\* The end or update of one request i that was not due.
UpdateStep(i, r) ==
  /\ records' = [records EXCEPT ![i] = r]
  /\ submitted' = submitted

\* One request's pending record r0 may get a cursor, lose it, or end.
Updates(r0) ==
  {[r0 EXCEPT !.cursor = c] : c \in Cursors \cup {None}}
    \cup {[r0 EXCEPT !.status = "complete", !.source = s, !.cursor = None] : s \in Sources}
    \cup {[r0 EXCEPT !.status = "failed", !.cursor = None]}

Withdrawn(r0) == [r0 EXCEPT !.status = "cancelled", !.source = None, !.cursor = None]

AdmitStep(ttl) ==
  /\ submitted < MaxSubmissions
  /\ CanAdmit
  /\ records' = Admitted(ttl)
  /\ submitted' = submitted + 1

Looked == \E S \in SUBSET Ids : LookUpStep(S)

Updated == \E i \in Ids : /\ records[i].status = "pending"
                          /\ \E r \in Updates(records[i]) : UpdateStep(i, r)

Cancelled == \E i \in Ids : /\ records[i].status \in Live
                            /\ UpdateStep(i, Withdrawn(records[i]))

Admission == \E ttl \in Nat : AdmitStep(ttl)

\* Every step of the broker changes its records in one of these ways.
LEMMA StepCases ==
  ASSUME TypeOK, [Next]_vars
  PROVE  Looked \/ Updated \/ Cancelled \/ Admission
<1>1. ASSUME UNCHANGED <<records, submitted>> PROVE Looked
  <2>1. LookUpStep({})
    BY <1>1 DEF LookUpStep
  <2> QED BY <2>1 DEF Looked
<1>2. ASSUME NEW i \in Ids, records' = LookedUp(i), UNCHANGED submitted PROVE Looked
  <2>1. LookUpStep({i})
    BY <1>2, LockedSectionTypes DEF LookUpStep
  <2> QED BY <2>1 DEF Looked
<1>3. ASSUME records' = Refreshed, UNCHANGED submitted PROVE Looked
  <2>1. LookUpStep(Ids)
    BY <1>3 DEF LookUpStep, Refreshed
  <2> QED BY <2>1 DEF Looked
<1>4. ASSUME NEW i \in Ids PROVE Expire(records[i]) = records[i] \/ Expire(records[i]).status \notin Live
  BY ExpireFacts DEF TypeOK
<1>5. ASSUME NEW t \in Threads, NEW i \in Ids, NEW c \in Cursors,
             RegisterCursor(t, i, c) \/ ReleaseCursor(t, i, c)
      PROVE  Looked \/ Updated
  <2> DEFINE r0 == Expire(records[i])
  <2>1. CASE records' = LookedUp(i)
    BY <1>2, <1>5, <2>1 DEF RegisterCursor, ReleaseCursor
  <2>2. CASE r0.status = "pending" /\ \E d \in {c, None} : records' = [records EXCEPT ![i] = [r0 EXCEPT !.cursor = d]]
    <3>1. r0 = records[i]
      BY <1>4, <2>2 DEF Live
    <3> PICK d \in {c, None} : records' = [records EXCEPT ![i] = [r0 EXCEPT !.cursor = d]]
      BY <2>2
    <3>2. [records[i] EXCEPT !.cursor = d] \in Updates(records[i])
      BY DEF Updates
    <3>3. UpdateStep(i, [records[i] EXCEPT !.cursor = d])
      BY <1>5, <3>1 DEF UpdateStep, RegisterCursor, ReleaseCursor
    <3> QED BY <2>2, <3>1, <3>2, <3>3 DEF Updated
  <2> QED BY <1>5, <2>1, <2>2 DEF RegisterCursor, ReleaseCursor, Locked
<1>6. ASSUME NEW t \in Threads, NEW i \in Ids, NEW s \in Sources, Publish(t, i, s)
      PROVE  Looked \/ Updated
  <2> DEFINE r0 == Expire(records[i])
             r1 == [r0 EXCEPT !.status = "complete", !.source = s, !.cursor = None]
  <2>1. CASE r0.status # "pending"
    BY <1>2, <1>6, <2>1 DEF Publish, Locked
  <2>2. CASE r0.status = "pending"
    <3>1. r0 = records[i]
      BY <1>4, <2>2 DEF Live
    <3>2. r1 \in Updates(records[i])
      BY <3>1 DEF Updates
    <3>3. UpdateStep(i, r1)
      BY <1>6, <2>2 DEF UpdateStep, Publish, Locked
    <3> HIDE DEF r1
    <3> QED BY <2>2, <3>1, <3>2, <3>3 DEF Updated
  <2> QED BY <2>1, <2>2
<1>7. ASSUME NEW t \in Threads, NEW i \in Ids, Fail(t, i)
      PROVE  Looked \/ Updated
  <2> DEFINE r0 == Expire(records[i])
             r1 == [r0 EXCEPT !.status = "failed", !.cursor = None]
  <2>1. CASE r0.status # "pending"
    BY <1>2, <1>7, <2>1 DEF Fail, Locked
  <2>2. CASE r0.status = "pending"
    <3>1. r0 = records[i]
      BY <1>4, <2>2 DEF Live
    <3>2. r1 \in Updates(records[i])
      BY <3>1 DEF Updates
    <3>3. UpdateStep(i, r1)
      BY <1>7, <2>2 DEF UpdateStep, Fail, Locked
    <3> HIDE DEF r1
    <3> QED BY <2>2, <3>1, <3>2, <3>3 DEF Updated
  <2> QED BY <2>1, <2>2
<1>8. ASSUME NEW t \in Threads, NEW i \in Ids, Cancel(t, i)
      PROVE  Looked \/ Cancelled
  <2>1. CASE Expire(records[i]).status \notin Live
    BY <1>2, <1>8, <2>1 DEF Cancel, Locked
  <2>2. CASE Expire(records[i]).status \in Live
    BY <1>4, <1>8, <2>2 DEF UpdateStep, Cancel, Locked, Withdrawn, Cancelled
  <2> QED BY <2>1, <2>2
<1>9. ASSUME NEW t \in Threads, Call(t) PROVE Looked \/ Updated \/ Cancelled \/ Admission
  <2>1. CASE \E ttl \in 1 .. MaxTTL + 1 : Submit(t, ttl)
    <3>1. \A ttl \in 1 .. MaxTTL + 1 : ttl \in Nat
      BY BrokerAssumption
    <3> QED BY <2>1, <3>1 DEF Submit, AdmitStep, Locked, Admission
  <2>2. CASE SubmitRefused(t) \/ ListRequests(t)
    BY <1>3, <2>2 DEF SubmitRefused, ListRequests, Locked
  <2>3. CASE \E i \in Ids : GetRequest(t, i)
    BY <1>2, <2>3 DEF GetRequest, Locked
  <2> QED BY <1>5, <1>6, <1>7, <1>8, <1>9, <2>1, <2>2, <2>3 DEF Call
<1>10. CASE Tick \/ (\E t \in Threads : CancelQuietly(t)) \/ UNCHANGED vars
  BY <1>1, <1>10 DEF Tick, CancelQuietly, vars
<1> QED BY <1>9, <1>10 DEF Next

-----------------------------------------------------------------------------
(* Handles *)

\* No request that was never submitted has a record.
NotYetSubmitted == \A i \in Ids : i > submitted => records[i].status = "unknown"

LEMMA NextHandles ==
  TypeOK /\ HandlesFollowStatus /\ [Next]_vars => HandlesFollowStatus'
<1> SUFFICES ASSUME TypeOK, HandlesFollowStatus, [Next]_vars
             PROVE  HandlesFollowStatus'
  OBVIOUS
<1>1. CASE Looked
  <2> PICK S \in SUBSET Ids : LookUpStep(S)
    BY <1>1 DEF Looked
  <2>1. \A i \in Ids : records'[i] = records[i] \/ records'[i] = Expire(records[i])
    BY DEF LookUpStep
  <2>2. \A i \in Ids : Expire(records[i]) = records[i]
                       \/ (/\ Expire(records[i]).status = "expired"
                           /\ Expire(records[i]).source = None
                           /\ Expire(records[i]).cursor = None)
    BY ExpireFacts DEF TypeOK
  <2> QED BY <2>1, <2>2 DEF HandlesFollowStatus
<1>2. CASE Updated
  <2> PICK i \in Ids : /\ records[i].status = "pending"
                       /\ \E r \in Updates(records[i]) : UpdateStep(i, r)
    BY <1>2 DEF Updated
  <2> PICK r \in Updates(records[i]) : UpdateStep(i, r)
    OBVIOUS
  <2>1. \A s \in Sources : s # None
    BY BrokerAssumption DEF None
  <2>2. /\ r.source # None <=> r.status = "complete"
        /\ r.cursor # None => r.status = "pending"
    <3> DEFINE r0 == records[i]
    <3>1. r0 \in Record /\ r0.status = "pending" /\ r0.source = None
      BY DEF HandlesFollowStatus, TypeOK
    <3>2. \/ \E c \in Cursors \cup {None} : r = [r0 EXCEPT !.cursor = c]
          \/ \E s \in Sources :
               r = [r0 EXCEPT !.status = "complete", !.source = s, !.cursor = None]
          \/ r = [r0 EXCEPT !.status = "failed", !.cursor = None]
      BY DEF Updates
    <3> HIDE DEF r0
    <3> QED BY <2>1, <3>1, <3>2 DEF Record
  <2> QED BY <2>2 DEF UpdateStep, HandlesFollowStatus, TypeOK
<1>3. CASE Cancelled
  <2> PICK i \in Ids : UpdateStep(i, Withdrawn(records[i]))
    BY <1>3 DEF Cancelled
  <2>1. /\ Withdrawn(records[i]).source = None
        /\ Withdrawn(records[i]).cursor = None
        /\ Withdrawn(records[i]).status = "cancelled"
    BY DEF Withdrawn, TypeOK, Record
  <2> QED BY <2>1 DEF UpdateStep, HandlesFollowStatus, TypeOK
<1>4. CASE Admission
  <2> PICK ttl \in Nat : AdmitStep(ttl)
    BY <1>4 DEF Admission
  <2>1. \A i \in Ids : Expire(records[i]) = records[i]
                       \/ (/\ Expire(records[i]).status = "expired"
                           /\ Expire(records[i]).source = None
                           /\ Expire(records[i]).cursor = None)
    BY ExpireFacts DEF TypeOK
  <2>2. \A i \in Ids : Refreshed[i] = Expire(records[i])
    BY DEF Refreshed
  <2>3. /\ NoRecord.source = None /\ NoRecord.cursor = None
        /\ NoRecord.status = "unknown"
    BY DEF NoRecord
  <2>4. ASSUME NEW i \in Ids
        PROVE  /\ Admitted(ttl)[i].source # None <=> Admitted(ttl)[i].status = "complete"
               /\ Admitted(ttl)[i].cursor # None => Admitted(ttl)[i].status = "pending"
    <3>1. CASE i = submitted + 1
      BY <3>1, AdmittedFacts DEF AdmitStep
    <3>2. CASE i # submitted + 1
      <4>1. Admitted(ttl)[i] = RoomMade(Refreshed)[i]
        BY <3>2, AdmittedFacts DEF AdmitStep
      <4>2. RoomMade(Refreshed)[i] = Refreshed[i] \/ RoomMade(Refreshed)[i] = NoRecord
        BY RoomMadeFacts
      <4> QED BY <2>1, <2>2, <2>3, <4>1, <4>2 DEF HandlesFollowStatus
    <3> QED BY <3>1, <3>2
  <2> QED BY <2>4 DEF AdmitStep, HandlesFollowStatus
<1> QED BY <1>1, <1>2, <1>3, <1>4, StepCases

LEMMA NextNotYetSubmitted ==
  TypeOK /\ NotYetSubmitted /\ [Next]_vars => NotYetSubmitted'
<1> SUFFICES ASSUME TypeOK, NotYetSubmitted, [Next]_vars
             PROVE  NotYetSubmitted'
  OBVIOUS
<1>0. submitted \in Nat /\ \A i \in Ids : i \in Nat
  BY BrokerAssumption DEF TypeOK, Ids
<1>1. CASE Looked
  BY <1>1, ExpireFacts DEF Looked, LookUpStep, NotYetSubmitted, TypeOK
<1>2. CASE Updated \/ Cancelled
  <2> PICK i \in Ids : records[i].status \in Live /\ \E r : UpdateStep(i, r)
    BY <1>2 DEF Updated, Cancelled, Live
  <2> QED BY <1>0 DEF UpdateStep, NotYetSubmitted, TypeOK, Live
<1>3. CASE Admission
  <2> PICK ttl \in Nat : AdmitStep(ttl)
    BY <1>3 DEF Admission
  <2>1. ASSUME NEW i \in Ids, i > submitted + 1 PROVE Admitted(ttl)[i].status = "unknown"
    <3>1. Admitted(ttl)[i] = RoomMade(Refreshed)[i]
      BY <1>0, <2>1, AdmittedFacts DEF AdmitStep
    <3>2. RoomMade(Refreshed)[i] = Refreshed[i] \/ RoomMade(Refreshed)[i] = NoRecord
      BY RoomMadeFacts
    <3>3. Expire(records[i]).status = "unknown"
      BY <1>0, <2>1, ExpireFacts DEF NotYetSubmitted, TypeOK
    <3> QED BY <3>1, <3>2, <3>3 DEF Refreshed, NoRecord
  <2> QED BY <2>1 DEF AdmitStep, NotYetSubmitted
<1> QED BY <1>1, <1>2, <1>3, StepCases

-----------------------------------------------------------------------------
(* Capacities *)

LEMMA IdsFinite == \A S \in SUBSET Ids : IsFiniteSet(S)
<1>1. IsFiniteSet(Ids)
  <2>1. 1 \in Int /\ MaxSubmissions \in Int
    BY BrokerAssumption
  <2> QED BY <2>1, FS_Interval DEF Ids
<1> QED BY <1>1, FS_Subset

\* The least element of a set of ids.
LEMMA LeastId ==
  ASSUME NEW S \in SUBSET Ids, S # {}
  PROVE  \E i \in S : \A j \in S : i <= j
<1>1. \A i, j \in S : i \in Nat /\ j \in Nat
  BY BrokerAssumption DEF Ids
<1> DEFINE UpTo(i) == {k \in Ids : k <= i}
           T == {UpTo(i) : i \in S}
<1>2. T \subseteq SUBSET Ids /\ T # {}
  OBVIOUS
<1>3. FiniteSubsetsOf(Ids) = SUBSET Ids
  BY IdsFinite DEF FiniteSubsetsOf
<1>4. PICK m \in T : \A y \in T : ~ (<<y, m>> \in StrictSubsetOrdering(Ids))
  <2> HIDE DEF T
  <2>1. IsWellFoundedOn(StrictSubsetOrdering(Ids), SUBSET Ids)
    BY <1>3, FS_StrictSubsetOrderingWellFounded
  <2> QED BY <1>2, <2>1, WFMin
<1>5. PICK i \in S : m = UpTo(i)
  BY <1>4
<1>6. ASSUME NEW j \in S PROVE i <= j
  <2> SUFFICES ASSUME j < i PROVE FALSE
    BY <1>1
  <2>1. UpTo(j) \subseteq UpTo(i) /\ UpTo(j) # UpTo(i)
    <3>1. i \in UpTo(i) /\ i \notin UpTo(j)
      BY <1>1
    <3>2. \A k \in Ids : k \in Nat
      BY BrokerAssumption DEF Ids
    <3> QED BY <1>1, <3>1, <3>2
  <2>2. UpTo(j) \in T /\ UpTo(j) \in SUBSET Ids /\ UpTo(i) \in SUBSET Ids
    OBVIOUS
  <2>3. <<UpTo(j), UpTo(i)>> \in StrictSubsetOrdering(Ids)
    <3> HIDE DEF UpTo
    <3> QED BY <2>1, <2>2 DEF StrictSubsetOrdering
  <2> HIDE DEF T, UpTo
  <2> QED BY <1>4, <1>5, <2>2, <2>3
<1> QED BY <1>6

\* Fewer requests with a status are not more.
LEMMA FewerWithStatus ==
  ASSUME NEW f, NEW g, NEW S, WithStatus(g, S) \subseteq WithStatus(f, S)
  PROVE  /\ Cardinality(WithStatus(f, S)) \in Nat
         /\ Cardinality(WithStatus(g, S)) \in Nat
         /\ Cardinality(WithStatus(g, S)) <= Cardinality(WithStatus(f, S))
<1>1. WithStatus(f, S) \in SUBSET Ids /\ WithStatus(g, S) \in SUBSET Ids
  BY DEF WithStatus
<1>2. IsFiniteSet(WithStatus(f, S)) /\ IsFiniteSet(WithStatus(g, S))
  BY <1>1, IdsFinite
<1> QED BY <1>2, FS_CardinalityType, FS_Subset

\* One more request with a status is at most one more.
LEMMA OneMoreWithStatus ==
  ASSUME NEW f, NEW g, NEW S, NEW i \in Ids,
         WithStatus(g, S) \subseteq WithStatus(f, S) \cup {i}
  PROVE  /\ Cardinality(WithStatus(f, S)) \in Nat
         /\ Cardinality(WithStatus(g, S)) \in Nat
         /\ Cardinality(WithStatus(g, S)) <= Cardinality(WithStatus(f, S)) + 1
<1>1. WithStatus(f, S) \in SUBSET Ids /\ WithStatus(g, S) \in SUBSET Ids
  BY DEF WithStatus
<1>2. /\ IsFiniteSet(WithStatus(f, S)) /\ IsFiniteSet(WithStatus(g, S))
      /\ IsFiniteSet(WithStatus(f, S) \cup {i})
  BY <1>1, IdsFinite
<1>3. Cardinality(WithStatus(g, S)) <= Cardinality(WithStatus(f, S) \cup {i})
  BY <1>2, FS_Subset
<1>4. \/ Cardinality(WithStatus(f, S) \cup {i}) = Cardinality(WithStatus(f, S))
      \/ Cardinality(WithStatus(f, S) \cup {i}) = Cardinality(WithStatus(f, S)) + 1
  BY <1>2, FS_AddElement
<1> QED BY <1>2, <1>3, <1>4, FS_CardinalityType

\* A request with a status swapped for another: not more.
LEMMA SwapWithStatus ==
  ASSUME NEW f, NEW g, NEW S, NEW i \in Ids, NEW old \in WithStatus(f, S),
         WithStatus(g, S) \subseteq (WithStatus(f, S) \ {old}) \cup {i}
  PROVE  /\ Cardinality(WithStatus(f, S)) \in Nat
         /\ Cardinality(WithStatus(g, S)) \in Nat
         /\ Cardinality(WithStatus(g, S)) <= Cardinality(WithStatus(f, S))
<1> DEFINE rest == WithStatus(f, S) \ {old}
<1>1. /\ WithStatus(f, S) \in SUBSET Ids
      /\ WithStatus(g, S) \in SUBSET Ids
      /\ rest \in SUBSET Ids /\ rest \cup {i} \in SUBSET Ids
  BY DEF WithStatus
<1>2. /\ IsFiniteSet(WithStatus(f, S)) /\ IsFiniteSet(WithStatus(g, S))
      /\ IsFiniteSet(rest) /\ IsFiniteSet(rest \cup {i})
  BY <1>1, IdsFinite
<1>3. Cardinality(WithStatus(g, S)) <= Cardinality(rest \cup {i})
  BY <1>2, FS_Subset
<1>4. Cardinality(rest) = Cardinality(WithStatus(f, S)) - 1
  BY <1>2, FS_RemoveElement
<1>5. \/ Cardinality(rest \cup {i}) = Cardinality(rest)
      \/ Cardinality(rest \cup {i}) = Cardinality(rest) + 1
  <2> HIDE DEF rest
  <2> QED BY <1>2, FS_AddElement
<1>6. /\ Cardinality(WithStatus(f, S)) \in Nat
      /\ Cardinality(WithStatus(g, S)) \in Nat
  BY <1>2, FS_CardinalityType
<1> HIDE DEF rest
<1> QED BY <1>3, <1>4, <1>5, <1>6

\* Where room is made in a full broker, the oldest ended record goes.
LEMMA RoomMadeFull ==
  ASSUME TypeOK, CanAdmit, Full(Refreshed)
  PROVE  \E old \in Evictable(Refreshed) :
           /\ \A j \in Evictable(Refreshed) : old <= j
           /\ RoomMade(Refreshed) = [Refreshed EXCEPT ![old] = NoRecord]
<1>1. Evictable(Refreshed) \in SUBSET Ids /\ Evictable(Refreshed) # {}
  BY DEF CanAdmit, Evictable, WithStatus
<1>2. PICK old \in Evictable(Refreshed) : \A j \in Evictable(Refreshed) : old <= j
  BY <1>1, LeastId
<1>3. \A i \in Evictable(Refreshed) : i \in Nat
  BY <1>1, BrokerAssumption DEF Ids
<1>4. Refreshed \in [Ids -> Record]
  BY LockedSectionTypes
<1>5. \A i \in Ids : (/\ i \in Evictable(Refreshed)
                     /\ \A j \in Evictable(Refreshed) : i <= j) <=> i = old
  BY <1>2, <1>3
<1>6. RoomMade(Refreshed) = [Refreshed EXCEPT ![old] = NoRecord]
  BY <1>4, <1>5 DEF RoomMade
<1> QED BY <1>2, <1>6

\* Steps that admit nothing add no pending and no known request.
LEMMA NoneAdded ==
  ASSUME TypeOK, Looked \/ Updated \/ Cancelled,
         NEW S \in {{"pending"}, Statuses}
  PROVE  WithStatus(records', S) \subseteq WithStatus(records, S)
<1>1. CASE Looked
  <2>1. \A i \in Ids : records'[i] = records[i] \/ records'[i] = Expire(records[i])
    BY <1>1 DEF Looked, LookUpStep
  <2>2. \A i \in Ids : /\ Expire(records[i]).status = "pending"
                           => records[i].status = "pending"
                       /\ Expire(records[i]).status \in Statuses
                           => records[i].status \in Statuses
    BY ExpireFacts DEF TypeOK, Record, Live, Statuses, Ended
  <2> QED BY <2>1, <2>2 DEF WithStatus
<1>2. CASE Updated
  BY <1>2 DEF Updated, UpdateStep, WithStatus, TypeOK, Statuses, Live
<1>3. CASE Cancelled
  <2>1. \A i \in Ids : Withdrawn(records[i]).status = "cancelled"
    BY DEF Withdrawn, TypeOK, Record
  <2> QED BY <1>3, <2>1 DEF Cancelled, UpdateStep, WithStatus, TypeOK, Statuses, Live
<1> QED BY <1>1, <1>2, <1>3

LEMMA NextWithinCapacity ==
  TypeOK /\ WithinCapacity /\ [Next]_vars => WithinCapacity'
<1> SUFFICES ASSUME TypeOK, WithinCapacity, [Next]_vars PROVE WithinCapacity'
  OBVIOUS
<1>0. MaxPending \in Nat /\ MaxRequests \in Nat
  BY BrokerAssumption
<1>1. CASE Looked \/ Updated \/ Cancelled
  <2>1. \A S \in {{"pending"}, Statuses} :
           WithStatus(records', S) \subseteq WithStatus(records, S)
    BY <1>1, NoneAdded
  <2>2. \A S \in {{"pending"}, Statuses} :
          /\ Cardinality(WithStatus(records, S)) \in Nat
          /\ Cardinality(WithStatus(records', S)) \in Nat
          /\ Cardinality(WithStatus(records', S)) <= Cardinality(WithStatus(records, S))
    BY <2>1, FewerWithStatus
  <2> QED BY <1>0, <2>2 DEF WithinCapacity
<1>2. CASE Admission
  <2> PICK ttl \in Nat : AdmitStep(ttl)
    BY <1>2 DEF Admission
  <2> DEFINE R == Refreshed
             A == Admitted(ttl)
             new == submitted + 1
  <2>1. /\ new \in Ids /\ A[new].status = "pending"
        /\ \A i \in Ids \ {new} : A[i] = RoomMade(R)[i]
    BY AdmittedFacts DEF AdmitStep
  <2>2. \A i \in Ids : RoomMade(R)[i] = R[i] \/ RoomMade(R)[i] = NoRecord
    BY RoomMadeFacts
  <2>3. NoRecord.status = "unknown"
    BY DEF NoRecord
  <2>4. \A S \in {{"pending"}, Statuses} :
          WithStatus(A, S) \subseteq WithStatus(R, S) \cup {new}
    <3> HIDE DEF R, A, new
    <3> QED BY <2>1, <2>2, <2>3 DEF WithStatus, Statuses, Live, Ended
  <2>5. Cardinality(WithStatus(A, {"pending"})) <= MaxPending
    <3>1. ~ (Cardinality(WithStatus(R, {"pending"})) >= MaxPending)
      BY DEF AdmitStep, CanAdmit, AtPendingCapacity
    <3> HIDE DEF R, A, new
    <3> QED BY <1>0, <2>1, <2>4, <3>1, OneMoreWithStatus
  <2>6. /\ Cardinality(WithStatus(R, Statuses)) \in Nat
        /\ Cardinality(WithStatus(R, Statuses)) <= MaxRequests
    <3>1. WithStatus(R, Statuses) \subseteq WithStatus(records, Statuses)
      BY ExpireFacts DEF Refreshed, WithStatus, TypeOK, Record, Statuses, Live, Ended
    <3> HIDE DEF R
    <3> QED BY <1>0, <3>1, FewerWithStatus DEF WithinCapacity
  <2>7. Cardinality(WithStatus(A, Statuses)) <= MaxRequests
    <3>1. CASE ~ Full(R)
      <4>1. ~ (Cardinality(WithStatus(R, Statuses)) >= MaxRequests)
        BY <3>1 DEF Full
      <4> HIDE DEF R, A, new
      <4> QED BY <1>0, <2>1, <2>4, <4>1, OneMoreWithStatus
    <3>2. CASE Full(R)
      <4>1. PICK old \in Evictable(R) : RoomMade(R) = [R EXCEPT ![old] = NoRecord]
        BY <3>2, RoomMadeFull DEF AdmitStep
      <4>2. old \in WithStatus(R, Statuses) /\ old \in Ids
        BY DEF Evictable, WithStatus, Statuses
      <4>3. R \in [Ids -> Record]
        BY LockedSectionTypes
      <4>4. WithStatus(A, Statuses) \subseteq (WithStatus(R, Statuses) \ {old}) \cup {new}
        <5> HIDE DEF R, A, new
        <5> QED BY <2>1, <2>3, <4>1, <4>2, <4>3 DEF WithStatus, Statuses, Live, Ended
      <4> HIDE DEF R, A, new
      <4>5. /\ Cardinality(WithStatus(A, Statuses)) \in Nat
            /\ Cardinality(WithStatus(A, Statuses)) <= Cardinality(WithStatus(R, Statuses))
        BY <2>1, <4>2, <4>4, SwapWithStatus
      <4> QED BY <1>0, <2>6, <4>5
    <3> QED BY <3>1, <3>2
  <2> QED BY <2>5, <2>7 DEF AdmitStep, WithinCapacity
<1> QED BY <1>1, <1>2, StepCases

-----------------------------------------------------------------------------
(* The broker's invariant *)

BrokerInv == TypeOK /\ HandlesFollowStatus /\ WithinCapacity /\ NotYetSubmitted

LEMMA InitBrokerInv == Init => BrokerInv
<1> SUFFICES ASSUME Init PROVE BrokerInv
  OBVIOUS
<1>1. TypeOK
  BY InitTypeOK
<1>2. \A i \in Ids : records[i].status = "unknown" /\ records[i].source = None
                                                 /\ records[i].cursor = None
  BY DEF Init, NoRecord
<1>3. HandlesFollowStatus /\ NotYetSubmitted
  BY <1>2 DEF HandlesFollowStatus, NotYetSubmitted
<1>4. WithStatus(records, {"pending"}) = {} /\ WithStatus(records, Statuses) = {}
  BY <1>2 DEF WithStatus, Statuses, Live, Ended
<1>5. WithinCapacity
  BY <1>4, FS_EmptySet, BrokerAssumption DEF WithinCapacity
<1> QED BY <1>1, <1>3, <1>5 DEF BrokerInv

LEMMA NextBrokerInv == BrokerInv /\ [Next]_vars => BrokerInv'
BY NextTypeOK, NextHandles, NextWithinCapacity, NextNotYetSubmitted DEF BrokerInv

LEMMA BrokerInvariant == Spec => []BrokerInv
BY InitBrokerInv, NextBrokerInv, PTL DEF Spec

\* Whatever the callers do, no ended request keeps a result or a cursor.
THEOREM BrokerHandles == Spec => []HandlesFollowStatus
<1>1. BrokerInv => HandlesFollowStatus
  BY DEF BrokerInv
<1> QED BY <1>1, BrokerInvariant, PTL

\* Whatever the callers do, neither capacity is exceeded.
THEOREM BrokerCapacity == Spec => []WithinCapacity
<1>1. BrokerInv => WithinCapacity
  BY DEF BrokerInv
<1> QED BY <1>1, BrokerInvariant, PTL

-----------------------------------------------------------------------------
(* A cursor leaves a record only into the hands of its owner or of a canceller *)

Kept(i)  == records'[i].status = "pending" /\ records'[i].cursor = records[i].cursor
Taken(i) == \E t \in Threads : records[i].cursor \in toCancel'[t]

\* Its worker released the cursor, or its result was published: it has not ended.
GivenUp(i) == records'[i].status \in Live

\* A lookup that expires a request takes its cursor.
LEMMA LookupHandsOver ==
  ASSUME BrokerInv, NEW t \in Threads, NEW S \in SUBSET Ids, NEW i \in Ids,
         records[i].cursor # None,
         NEW drop, ExpiredCursors(S) \subseteq drop, toCancel' = [toCancel EXCEPT ![t] = drop],
         records'[i] = IF i \in S THEN Expire(records[i]) ELSE records[i]
  PROVE  Kept(i) \/ Taken(i)
<1>1. records[i].status = "pending"
  BY DEF BrokerInv, HandlesFollowStatus
<1>2. toCancel'[t] = drop
  BY DEF BrokerInv, TypeOK
<1>3. CASE i \in Overdue(S)
  <2>1. records[i].cursor \in ExpiredCursors(S)
    BY <1>3 DEF ExpiredCursors, CursorsOf
  <2> QED BY <1>2, <2>1 DEF Taken
<1>4. CASE i \notin Overdue(S)
  <2>1. records'[i] = records[i]
    BY <1>4 DEF Overdue, Expire
  <2> QED BY <1>1, <2>1 DEF Kept
<1> QED BY <1>3, <1>4

\* The same for an admission: a request with a cursor is pending, so it is
\* neither the new one nor evicted before it has expired.
LEMMA AdmissionHandsOver ==
  ASSUME BrokerInv, NEW t \in Threads, NEW ttl \in Nat, Submit(t, ttl), NEW i \in Ids,
         records[i].cursor # None
  PROVE  Kept(i) \/ Taken(i)
<1>1. records[i].status = "pending"
  BY DEF BrokerInv, HandlesFollowStatus
<1>2. i # submitted + 1
  <2>1. i \in Nat /\ submitted \in Nat
    BY BrokerAssumption DEF BrokerInv, TypeOK, Ids
  <2> QED BY <1>1, <2>1 DEF BrokerInv, NotYetSubmitted
<1>3. records'[i] = RoomMade(Refreshed)[i] /\ Refreshed[i] = Expire(records[i])
  BY <1>2, AdmittedFacts DEF BrokerInv, Submit, Locked, Refreshed
<1>4. toCancel' = [toCancel EXCEPT ![t] = ExpiredCursors(Ids)] /\ Ids \in SUBSET Ids
  BY DEF Submit, Locked
<1>5. CASE RoomMade(Refreshed)[i] = Refreshed[i]
  BY <1>3, <1>4, <1>5, LookupHandsOver
<1>6. CASE Refreshed[i].status \in Ended
  <2>1. i \in Overdue(Ids)
    BY <1>1, <1>3, <1>6 DEF Overdue, Expire, Ended
  <2>2. records[i].cursor \in ExpiredCursors(Ids)
    BY <2>1 DEF ExpiredCursors, CursorsOf
  <2>3. toCancel'[t] = ExpiredCursors(Ids)
    BY <1>4 DEF BrokerInv, TypeOK
  <2> QED BY <2>2, <2>3 DEF Taken
<1> QED BY <1>5, <1>6, RoomMadeFacts DEF BrokerInv

\* The same for a call that only looks request j up.
LEMMA LookUpOneHandsOver ==
  ASSUME BrokerInv, NEW t \in Threads, NEW i \in Ids, NEW j \in Ids, NEW extra,
         records[i].cursor # None,
         Locked(t, LookedUp(j), ExpiredCursors({j}) \cup extra)
  PROVE  Kept(i) \/ Taken(i)
<1>1. records'[i] = IF i \in {j} THEN Expire(records[i]) ELSE records[i]
  BY LockedSectionTypes DEF Locked, BrokerInv
<1>2. /\ toCancel' = [toCancel EXCEPT ![t] = ExpiredCursors({j}) \cup extra]
      /\ {j} \in SUBSET Ids
  BY DEF Locked
<1>3. ExpiredCursors({j}) \subseteq ExpiredCursors({j}) \cup extra
  OBVIOUS
<1> QED BY <1>1, <1>2, <1>3, LookupHandsOver

\* A call that writes request j's record leaves every other one its cursor.
LEMMA UpdateHandsOver ==
  ASSUME BrokerInv, NEW t \in Threads, NEW i \in Ids, NEW j \in Ids, NEW r, NEW drop,
         records[i].cursor # None,
         Locked(t, [records EXCEPT ![j] = r], drop)
  PROVE  /\ i # j => Kept(i)
         /\ i = j => records'[i] = r /\ toCancel'[t] = drop
<1>1. records[i].status = "pending"
  BY DEF BrokerInv, HandlesFollowStatus
<1> QED BY <1>1 DEF Locked, Kept, BrokerInv, TypeOK

\* The calls on one request j that may end it.
LEMMA EndHandsOver ==
  ASSUME BrokerInv, NEW t \in Threads, NEW i \in Ids, NEW j \in Ids,
         records[i].cursor # None,
         \/ \E c \in Cursors : RegisterCursor(t, j, c)
         \/ Fail(t, j) \/ Cancel(t, j) \/ GetRequest(t, j)
  PROVE  Kept(i) \/ Taken(i)
<1> DEFINE r == Expire(records[j])
<1>1. r.status \in Live => r = records[j]
  BY DEF Expire, Live
<1>2. ASSUME Locked(t, LookedUp(j), ExpiredCursors({j})) PROVE Kept(i) \/ Taken(i)
  <2>1. ExpiredCursors({j}) \cup {} = ExpiredCursors({j})
    OBVIOUS
  <2> QED BY <1>2, <2>1, LookUpOneHandsOver
<1>3. ASSUME NEW q, Locked(t, [records EXCEPT ![j] = q], {r.cursor} \ {None}),
             r.status \in Live
      PROVE  Kept(i) \/ Taken(i)
  <2>1. CASE i = j
    <3>1. toCancel'[t] = {r.cursor} \ {None}
      BY <1>3, <2>1, UpdateHandsOver
    <3>2. records[i].cursor \in toCancel'[t]
      BY <1>1, <1>3, <2>1, <3>1
    <3> QED BY <3>2 DEF Taken
  <2> QED BY <1>3, <2>1, UpdateHandsOver
<1>4. ASSUME NEW c \in Cursors, RegisterCursor(t, j, c) PROVE Kept(i) \/ Taken(i)
  <2>1. CASE r.status = "pending" /\ r.cursor = None
    <3>1. i # j
      BY <1>1, <2>1 DEF Live
    <3> QED BY <1>4, <2>1, <3>1, UpdateHandsOver DEF RegisterCursor
  <2>2. CASE ~ (r.status = "pending" /\ r.cursor = None)
    <3>1. Locked(t, LookedUp(j), ExpiredCursors({j}) \cup {c})
      BY <1>4, <2>2 DEF RegisterCursor
    <3> QED BY <3>1, LookUpOneHandsOver
  <2> QED BY <2>1, <2>2
<1>5. CASE Fail(t, j)
  BY <1>2, <1>3, <1>5 DEF Fail, Live
<1>6. CASE Cancel(t, j)
  BY <1>2, <1>3, <1>6 DEF Cancel
<1>7. CASE GetRequest(t, j)
  BY <1>2, <1>7 DEF GetRequest
<1> QED BY <1>4, <1>5, <1>6, <1>7

\* The calls on one request j that may take its cursor from it without ending it.
LEMMA UseHandsOver ==
  ASSUME BrokerInv, NEW t \in Threads, NEW i \in Ids, NEW j \in Ids,
         records[i].cursor # None,
         \/ \E c \in Cursors : ReleaseCursor(t, j, c)
         \/ \E s \in Sources : Publish(t, j, s)
  PROVE  Kept(i) \/ Taken(i) \/ (i = j /\ GivenUp(i))
<1> DEFINE r == Expire(records[j])
<1>1. r.status = "pending" => r = records[j]
  BY DEF Expire, Live
<1>2. ASSUME Locked(t, LookedUp(j), ExpiredCursors({j})) PROVE Kept(i) \/ Taken(i)
  <2>1. ExpiredCursors({j}) \cup {} = ExpiredCursors({j})
    OBVIOUS
  <2> QED BY <1>2, <2>1, LookUpOneHandsOver
<1>3. ASSUME NEW q, Locked(t, [records EXCEPT ![j] = q], {}), q.status \in Live
      PROVE  Kept(i) \/ (i = j /\ GivenUp(i))
  BY <1>3, UpdateHandsOver DEF GivenUp
<1>4. ASSUME NEW c \in Cursors, ReleaseCursor(t, j, c)
      PROVE  Kept(i) \/ Taken(i) \/ (i = j /\ GivenUp(i))
  <2>1. CASE r.status = "pending" /\ r.cursor = c
    <3>1. Locked(t, [records EXCEPT ![j] = [r EXCEPT !.cursor = None]], {})
      BY <1>4, <2>1 DEF ReleaseCursor
    <3>2. [r EXCEPT !.cursor = None].status \in Live
      BY <1>1, <2>1 DEF Live, BrokerInv, TypeOK, Record
    <3> HIDE DEF r
    <3> QED BY <1>3, <3>1, <3>2
  <2>2. CASE ~ (r.status = "pending" /\ r.cursor = c)
    BY <1>2, <1>4, <2>2 DEF ReleaseCursor
  <2> QED BY <2>1, <2>2
<1>5. ASSUME NEW s \in Sources, Publish(t, j, s)
      PROVE  Kept(i) \/ Taken(i) \/ (i = j /\ GivenUp(i))
  <2>1. CASE r.status = "pending"
    <3> DEFINE q == [r EXCEPT !.status = "complete", !.source = s, !.cursor = None]
    <3>1. Locked(t, [records EXCEPT ![j] = q], {})
      BY <1>5, <2>1 DEF Publish
    <3>2. q.status \in Live
      BY <1>1, <2>1 DEF Live, BrokerInv, TypeOK, Record
    <3> HIDE DEF q
    <3> QED BY <1>3, <3>1, <3>2
  <2>2. CASE r.status # "pending"
    BY <1>2, <1>5, <2>2 DEF Publish
  <2> QED BY <2>1, <2>2
<1> QED BY <1>4, <1>5

\* And those that look at every request.
LEMMA ListHandsOver ==
  ASSUME BrokerInv, NEW t \in Threads, NEW i \in Ids, records[i].cursor # None,
         SubmitRefused(t) \/ ListRequests(t)
  PROVE  Kept(i) \/ Taken(i)
<1>1. /\ records'[i] = IF i \in Ids THEN Expire(records[i]) ELSE records[i]
      /\ toCancel' = [toCancel EXCEPT ![t] = ExpiredCursors(Ids)]
  BY DEF SubmitRefused, ListRequests, Locked, Refreshed
<1>2. Ids \in SUBSET Ids
  OBVIOUS
<1> QED BY <1>1, <1>2, LookupHandsOver

\* No step loses a cursor.
LEMMA CursorFollows ==
  ASSUME BrokerInv, [Next]_vars, NEW i \in Ids, records[i].cursor # None
  PROVE  Kept(i) \/ Taken(i) \/ GivenUp(i)
<1>1. ASSUME UNCHANGED records PROVE Kept(i)
  BY <1>1 DEF Kept, BrokerInv, HandlesFollowStatus
<1>2. CASE Tick \/ UNCHANGED vars \/ \E t \in Threads : CancelQuietly(t)
  BY <1>1, <1>2 DEF Tick, vars, CancelQuietly
<1>3. ASSUME NEW t \in Threads, Call(t) PROVE Kept(i) \/ Taken(i) \/ GivenUp(i)
  <2>1. CASE \E ttl \in 1 .. MaxTTL + 1 : Submit(t, ttl)
    <3>1. \A ttl \in 1 .. MaxTTL + 1 : ttl \in Nat
      BY BrokerAssumption
    <3> QED BY <2>1, <3>1, AdmissionHandsOver
  <2>2. CASE SubmitRefused(t) \/ ListRequests(t)
    BY <2>2, ListHandsOver
  <2>3. CASE \E j \in Ids : \/ \E c \in Cursors : RegisterCursor(t, j, c)
                            \/ Fail(t, j) \/ Cancel(t, j) \/ GetRequest(t, j)
    BY <2>3, EndHandsOver
  <2>4. CASE \E j \in Ids : \/ \E c \in Cursors : ReleaseCursor(t, j, c)
                            \/ \E s \in Sources : Publish(t, j, s)
    BY <2>4, UseHandsOver
  <2> QED BY <1>3, <2>1, <2>2, <2>3, <2>4 DEF Call
<1> QED BY <1>2, <1>3 DEF Next

\* Whichever call ends a request that has a cursor, that cursor will be cancelled.
THEOREM BrokerCancels == Spec => EndingCancelsTheCursor
<1>1. BrokerInv /\ [Next]_vars =>
        [\A i \in Ids :
           /\ records[i].cursor # None
           /\ records'[i].status \notin Live
           => \E t \in Threads : records[i].cursor \in toCancel'[t]]_vars
  <2>1. ASSUME BrokerInv, [Next]_vars, NEW i \in Ids, records[i].cursor # None,
               records'[i].status \notin Live
        PROVE  \E t \in Threads : records[i].cursor \in toCancel'[t]
    BY <2>1, CursorFollows DEF Kept, Taken, GivenUp, Live
  <2> QED BY <2>1
<1> QED BY <1>1, BrokerInvariant, PTL DEF Spec, EndingCancelsTheCursor

-----------------------------------------------------------------------------
(* Eviction *)

\* A look at the records neither adds nor forgets a request.
LEMMA RefreshedKnown ==
  ASSUME TypeOK
  PROVE  /\ \A i \in Ids : Refreshed[i] = Expire(records[i])
         /\ WithStatus(Refreshed, Statuses) = WithStatus(records, Statuses)
<1>1. \A i \in Ids : Refreshed[i] = Expire(records[i])
  BY DEF Refreshed
<1>2. ASSUME NEW i \in Ids
      PROVE  Refreshed[i].status \in Statuses <=> records[i].status \in Statuses
  BY <1>1, ExpireFacts DEF TypeOK, Record, Statuses, Live, Ended
<1> QED BY <1>1, <1>2 DEF WithStatus

\* Only an admission forgets a request.
LEMMA OnlyAdmissionForgets ==
  ASSUME TypeOK, Looked \/ Updated \/ Cancelled, NEW i \in Ids,
         records[i].status # "unknown"
  PROVE  records'[i].status # "unknown"
<1>1. CASE Looked
  BY <1>1, ExpireFacts DEF Looked, LookUpStep, TypeOK
<1>2. CASE Updated
  <2> PICK j \in Ids : /\ records[j].status = "pending"
                       /\ \E r \in Updates(records[j]) : UpdateStep(j, r)
    BY <1>2 DEF Updated
  <2> PICK r \in Updates(records[j]) : UpdateStep(j, r)
    OBVIOUS
  <2>1. r.status # "unknown"
    BY DEF Updates, TypeOK, Record
  <2> QED BY <2>1 DEF UpdateStep, TypeOK
<1>3. CASE Cancelled
  <2> PICK j \in Ids : UpdateStep(j, Withdrawn(records[j]))
    BY <1>3 DEF Cancelled
  <2>1. Withdrawn(records[j]).status # "unknown"
    BY DEF Withdrawn, TypeOK, Record
  <2> QED BY <2>1 DEF UpdateStep, TypeOK
<1> QED BY <1>1, <1>2, <1>3

\* The request an admission forgets is the oldest that has ended or is due.
LEMMA AdmissionForgetsTheOldest ==
  ASSUME BrokerInv, NEW ttl \in Nat, AdmitStep(ttl), NEW i \in Ids,
         records[i].status # "unknown", records'[i].status = "unknown"
  PROVE  /\ submitted' = submitted + 1
         /\ Cardinality(WithStatus(records, Statuses)) = MaxRequests
         /\ records[i].status \in Ended \/ Due(records[i])
         /\ \A j \in 1 .. i - 1 : records[j].status \in Live \cup {"unknown"}
                                  /\ ~ Due(records[j])
<1> USE DEF BrokerInv
<1>1. /\ records' = Admitted(ttl) /\ submitted' = submitted + 1
      /\ i # submitted + 1 /\ records'[i] = RoomMade(Refreshed)[i]
  BY AdmittedFacts DEF AdmitStep
<1>2. Refreshed[i].status # "unknown"
  BY RefreshedKnown, ExpireFacts DEF TypeOK
<1>3. Full(Refreshed)
  BY <1>1, <1>2 DEF RoomMade
<1>4. PICK old \in Evictable(Refreshed) :
        /\ \A j \in Evictable(Refreshed) : old <= j
        /\ RoomMade(Refreshed) = [Refreshed EXCEPT ![old] = NoRecord]
  BY <1>3, RoomMadeFull DEF AdmitStep
<1>5. i = old
  BY <1>1, <1>2, <1>4, LockedSectionTypes
<1>6. Cardinality(WithStatus(records, Statuses)) = MaxRequests
  <2>1. Cardinality(WithStatus(records, Statuses)) \in Nat
    BY FewerWithStatus
  <2>2. Cardinality(WithStatus(records, Statuses)) >= MaxRequests
    BY <1>3, RefreshedKnown DEF Full
  <2> QED BY <2>1, <2>2, BrokerAssumption DEF WithinCapacity
<1>7. records[i].status \in Ended \/ Due(records[i])
  BY <1>5, RefreshedKnown, ExpireFacts DEF Evictable, WithStatus, TypeOK
<1>8. ASSUME NEW j \in 1 .. i - 1
      PROVE  records[j].status \in Live \cup {"unknown"} /\ ~ Due(records[j])
  <2>1. j \in Ids /\ ~ (i <= j)
    BY BrokerAssumption DEF Ids
  <2>2. Expire(records[j]).status \notin Ended
    BY <1>4, <1>5, <2>1, RefreshedKnown DEF Evictable, WithStatus
  <2>3. records[j] \in Record
    BY <2>1 DEF TypeOK
  <2> QED BY <2>2, <2>3 DEF Expire, Record, Statuses, Live, Ended
<1> QED BY <1>1, <1>6, <1>7, <1>8

\* Only a full broker forgets, only to admit, and only the oldest request that has
\* ended or is due, whatever its callers do.
THEOREM BrokerSparesTheLive == Spec => EvictionSparesTheLive
<1> DEFINE Spares ==
      \A i \in Ids :
        /\ records[i].status # "unknown"
        /\ records'[i].status = "unknown"
        => /\ submitted' = submitted + 1
           /\ Cardinality(WithStatus(records, Statuses)) = MaxRequests
           /\ records[i].status \in Ended \/ Due(records[i])
           /\ \A j \in 1 .. i - 1 : records[j].status \in Live \cup {"unknown"}
                                    /\ ~ Due(records[j])
<1>1. BrokerInv /\ [Next]_vars => [Spares]_vars
  <2> SUFFICES ASSUME BrokerInv, [Next]_vars PROVE Spares
    OBVIOUS
  <2>1. CASE Looked \/ Updated \/ Cancelled
    BY <2>1, OnlyAdmissionForgets DEF BrokerInv
  <2>2. CASE Admission
    BY <2>2, AdmissionForgetsTheOldest DEF Admission
  <2> QED BY <2>1, <2>2, StepCases DEF BrokerInv
<1> QED BY <1>1, BrokerInvariant, PTL DEF Spec, EvictionSparesTheLive

-----------------------------------------------------------------------------
(* The broker implements the request lifecycle *)

LEMMA InitLifecycle == Init => Lifecycle!Init
<1>1. \A i \in Ids : ~ (i <= 0)
  BY DEF Ids
<1> QED BY <1>1 DEF Init, Lifecycle!Init, LifecycleStatus, NoRecord

\* The two modules count alike.
LEMMA SameCardinality == \A S : Lifecycle!Cardinality(S) = Cardinality(S)
BY Zenon DEF Lifecycle!Cardinality, Cardinality

\* The abstract statuses of a request with and without a record.
LEMMA LifecycleStatusFacts ==
  ASSUME TypeOK, NEW i \in Ids
  PROVE  /\ records[i].status \in Statuses => LifecycleStatus[i] = records[i].status
         /\ LifecycleStatus[i] \in Statuses => records[i].status = LifecycleStatus[i]
BY DEF LifecycleStatus, TypeOK, Record, Statuses, Live, Ended

\* A lookup is a lapse of the requests in it that are due.
LEMMA LookUpLapses ==
  ASSUME TypeOK, NEW S \in SUBSET Ids, NEW recs,
         recs = [i \in Ids |-> IF i \in S THEN Expire(records[i]) ELSE records[i]]
  PROVE  /\ Overdue(S) \in SUBSET Lifecycle!WithStatus(LifecycleStatus, Lifecycle!Live)
         /\ Lifecycle!Lapsed(Overdue(S)) =
              [i \in Ids |-> IF recs[i].status # "unknown" THEN recs[i].status
                             ELSE IF i <= submitted THEN "forgotten" ELSE "unsubmitted"]
<1>1. ASSUME NEW i \in Overdue(S)
      PROVE  /\ i \in Ids /\ LifecycleStatus[i] \in Live
             /\ recs[i].status = "expired"
  <2>1. Due(records[i]) /\ i \in Ids
    BY DEF Overdue
  <2>2. records[i].status \in Live /\ Expire(records[i]).status = "expired"
    BY <2>1 DEF Due, Expire, TypeOK, Record
  <2> QED BY <2>1, <2>2, LifecycleStatusFacts DEF Statuses, Overdue
<1>2. ASSUME NEW i \in Ids \ Overdue(S) PROVE recs[i] = records[i]
  BY DEF Overdue, Expire
<1>3. Overdue(S) \in SUBSET Lifecycle!WithStatus(LifecycleStatus, Lifecycle!Live)
  BY <1>1 DEF Lifecycle!WithStatus, Lifecycle!Live, Live
<1> QED BY <1>1, <1>2, <1>3 DEF Lifecycle!Lapsed, LifecycleStatus

LEMMA NextLifecycle ==
  BrokerInv /\ [Next]_vars => [Lifecycle!Next]_LifecycleStatus
<1> SUFFICES ASSUME BrokerInv, [Next]_vars PROVE [Lifecycle!Next]_LifecycleStatus
  OBVIOUS
<1> USE DEF BrokerInv
<1>0. /\ {} \in SUBSET Lifecycle!WithStatus(LifecycleStatus, Lifecycle!Live)
      /\ Lifecycle!Lapsed({}) = LifecycleStatus
  BY DEF Lifecycle!Lapsed, LifecycleStatus
<1>1. CASE Looked
  <2> PICK S \in SUBSET Ids : LookUpStep(S)
    BY <1>1 DEF Looked
  <2> DEFINE recs == [i \in Ids |-> IF i \in S THEN Expire(records[i]) ELSE records[i]]
  <2>1. \A i \in Ids : recs[i] = records'[i]
    BY DEF LookUpStep
  <2>2. LifecycleStatus' = [i \in Ids |-> IF recs[i].status # "unknown" THEN recs[i].status
                             ELSE IF i <= submitted THEN "forgotten" ELSE "unsubmitted"]
    <3> HIDE DEF recs
    <3> QED BY <2>1 DEF LookUpStep, LifecycleStatus
  <2>3. /\ Overdue(S) \in SUBSET Lifecycle!WithStatus(LifecycleStatus, Lifecycle!Live)
        /\ Lifecycle!Lapsed(Overdue(S)) =
             [i \in Ids |-> IF recs[i].status # "unknown" THEN recs[i].status
                            ELSE IF i <= submitted THEN "forgotten" ELSE "unsubmitted"]
    <3>1. recs = [i \in Ids |-> IF i \in S THEN Expire(records[i]) ELSE records[i]]
      OBVIOUS
    <3> HIDE DEF recs
    <3> QED BY <3>1, LookUpLapses
  <2>4. LifecycleStatus' = Lifecycle!Lapsed(Overdue(S))
    <3> HIDE DEF recs
    <3> QED BY <2>2, <2>3
  <2> QED BY <2>3, <2>4, Zenon DEF Lifecycle!Next
<1>2. CASE Updated
  <2> PICK i \in Ids : /\ records[i].status = "pending"
                       /\ \E r \in Updates(records[i]) : UpdateStep(i, r)
    BY <1>2 DEF Updated
  <2> PICK r \in Updates(records[i]) : UpdateStep(i, r)
    OBVIOUS
  <2>1. r.status \in {"pending", "complete", "failed"}
    BY DEF Updates, TypeOK, Record
  <2>2. LifecycleStatus' = [LifecycleStatus EXCEPT ![i] = r.status]
    BY <2>1 DEF LifecycleStatus, UpdateStep, TypeOK
  <2>3. LifecycleStatus[i] = "pending"
    BY DEF LifecycleStatus
  <2>4. CASE r.status = "pending"
    <3>1. LifecycleStatus' = LifecycleStatus
      BY <2>2, <2>3, <2>4 DEF LifecycleStatus
    <3> QED BY <3>1
  <2>5. CASE r.status \in {"complete", "failed"}
    <3>1. Lifecycle!Settle(Lifecycle!Lapsed({}), i)
      BY <1>0, <2>2, <2>3, <2>5 DEF Lifecycle!Settle
    <3> QED BY <1>0, <3>1 DEF Lifecycle!Next
  <2> QED BY <2>1, <2>4, <2>5
<1>3. CASE Cancelled
  <2> PICK i \in Ids : records[i].status \in Live /\ UpdateStep(i, Withdrawn(records[i]))
    BY <1>3 DEF Cancelled
  <2>1. Withdrawn(records[i]).status = "cancelled"
    BY DEF Withdrawn, TypeOK, Record
  <2>2. LifecycleStatus' = [LifecycleStatus EXCEPT ![i] = "cancelled"]
    BY <2>1 DEF LifecycleStatus, UpdateStep, TypeOK
  <2>3. LifecycleStatus[i] \in {"pending", "complete"}
    BY DEF LifecycleStatus, Live
  <2>4. \/ Lifecycle!Settle(Lifecycle!Lapsed({}), i)
        \/ Lifecycle!Withdraw(Lifecycle!Lapsed({}), i)
    BY <1>0, <2>2, <2>3 DEF Lifecycle!Settle, Lifecycle!Withdraw
  <2> QED BY <1>0, <2>4 DEF Lifecycle!Next
<1>4. CASE Admission
  <2> PICK ttl \in Nat : AdmitStep(ttl)
    BY <1>4 DEF Admission
  <2> DEFINE R == Refreshed
             A == Admitted(ttl)
             new == submitted + 1
             D == Overdue(Ids)
             before == Lifecycle!Lapsed(D)
  <2>1. /\ D \in SUBSET Lifecycle!WithStatus(LifecycleStatus, Lifecycle!Live)
        /\ before = [i \in Ids |-> IF R[i].status # "unknown" THEN R[i].status
                             ELSE IF i <= submitted THEN "forgotten" ELSE "unsubmitted"]
    <3>1. R = [i \in Ids |-> IF i \in Ids THEN Expire(records[i]) ELSE records[i]]
      BY DEF Refreshed
    <3>2. Ids \in SUBSET Ids
      OBVIOUS
    <3> HIDE DEF R
    <3> QED BY <3>1, <3>2, LookUpLapses
  <2>2. /\ new \in Ids /\ A[new].status = "pending"
        /\ \A i \in Ids \ {new} : A[i] = RoomMade(R)[i]
    BY AdmittedFacts DEF AdmitStep
  <2>3. /\ submitted \in Nat /\ \A i \in Ids : i \in Nat
        /\ R \in [Ids -> Record] /\ R[new].status = "unknown"
    <3>1. submitted \in Nat /\ \A i \in Ids : i \in Nat
      BY BrokerAssumption DEF Ids, TypeOK
    <3>2. R[new] = Expire(records[new]) /\ records[new].status = "unknown"
      BY <2>2, <3>1 DEF Refreshed, NotYetSubmitted
    <3> QED BY <2>2, <3>1, <3>2, ExpireFacts, LockedSectionTypes DEF TypeOK
  <2>4. \A i \in Ids : R[i].status \in Statuses \cup {"unknown"}
    BY <2>3 DEF Record
  <2>5. before[new] = "unsubmitted"
    <3> HIDE DEF R, D, before
    <3> QED BY <2>1, <2>2, <2>3
  <2>6. /\ Lifecycle!WithStatus(before, {"pending"}) = WithStatus(R, {"pending"})
        /\ Lifecycle!WithStatus(before, Lifecycle!Known) = WithStatus(R, Statuses)
        /\ Lifecycle!WithStatus(before, Lifecycle!Ended) = Evictable(R)
    <3> HIDE DEF R, D, before
    <3> QED BY <2>1, <2>4 DEF Lifecycle!WithStatus, WithStatus, Evictable, Lifecycle!Known,
                 Lifecycle!Live, Lifecycle!Ended, Statuses, Live, Ended
  <2>7. Lifecycle!Cardinality(Lifecycle!WithStatus(before, {"pending"})) < MaxPending
    <3>1. ~ (Cardinality(WithStatus(R, {"pending"})) >= MaxPending)
      BY DEF AdmitStep, CanAdmit, AtPendingCapacity
    <3>2. Cardinality(WithStatus(R, {"pending"})) \in Nat
      BY FewerWithStatus
    <3> HIDE DEF R, before
    <3>3. Cardinality(WithStatus(R, {"pending"})) < MaxPending
      BY <3>1, <3>2, BrokerAssumption
    <3> QED BY <2>6, <3>3, SameCardinality
  <2>8. /\ LifecycleStatus' = [i \in Ids |-> IF A[i].status # "unknown" THEN A[i].status
                             ELSE IF i <= new THEN "forgotten" ELSE "unsubmitted"]
        /\ new \in Lifecycle!WithStatus(before, {"unsubmitted"})
    <3>1. records' = A /\ submitted' = new
      BY DEF AdmitStep
    <3> HIDE DEF A, before, new
    <3> QED BY <2>2, <2>5, <3>1 DEF LifecycleStatus, Lifecycle!WithStatus
  <2>9. CASE ~ Full(R)
    <3>1. Lifecycle!Cardinality(Lifecycle!WithStatus(before, Lifecycle!Known)) < MaxRequests
      <4>1. ~ (Cardinality(WithStatus(R, Statuses)) >= MaxRequests)
        BY <2>9 DEF Full
      <4>2. Cardinality(WithStatus(R, Statuses)) \in Nat
        BY FewerWithStatus
      <4> HIDE DEF R, before
      <4>3. Cardinality(WithStatus(R, Statuses)) < MaxRequests
        BY <4>1, <4>2, BrokerAssumption
      <4> QED BY <2>6, <4>3, SameCardinality
    <3>2. RoomMade(R) = R
      BY <2>9 DEF RoomMade
    <3>3. LifecycleStatus' = [before EXCEPT ![new] = "pending"]
      <4>1. \A i \in Ids : i # new => (i <= new <=> i <= submitted)
        BY <2>3
      <4> HIDE DEF R, A, D, before, new
      <4> QED BY <2>1, <2>2, <2>8, <3>2, <4>1
    <3>4. Lifecycle!Admit(before)
      <4> HIDE DEF R, A, D, before, new
      <4> QED BY <2>7, <2>8, <3>1, <3>3 DEF Lifecycle!Admit
    <3> QED BY <2>1, <3>4 DEF Lifecycle!Next
  <2>10. CASE Full(R)
    <3>1. PICK old \in Evictable(R) : /\ \A j \in Evictable(R) : old <= j
                                     /\ RoomMade(R) = [R EXCEPT ![old] = NoRecord]
      BY <2>10, RoomMadeFull DEF AdmitStep
    <3>2. old \in Ids /\ R[old].status \in Ended /\ NoRecord.status = "unknown"
      BY DEF Evictable, WithStatus, NoRecord
    <3>3. old # new /\ old <= submitted
      <4>1. old # new
        BY <2>3, <3>2 DEF Ended
      <4>2. R[old] = Expire(records[old])
        BY <3>2 DEF Refreshed
      <4>3. records[old].status # "unknown"
        BY <3>2, <4>2, ExpireFacts DEF TypeOK, Ended
      <4> QED BY <2>3, <3>2, <4>1, <4>3 DEF NotYetSubmitted
    <3>4. LifecycleStatus' = [before EXCEPT ![new] = "pending", ![old] = "forgotten"]
      <4>1. \A i \in Ids : i # new => (i <= new <=> i <= submitted)
        BY <2>3
      <4> HIDE DEF R, A, D, before, new
      <4> QED BY <2>1, <2>2, <2>3, <2>8, <3>1, <3>2, <3>3, <4>1
    <3>5. Lifecycle!Admit(before)
      <4>1. /\ old \in Lifecycle!WithStatus(before, Lifecycle!Ended)
            /\ \A j \in Lifecycle!WithStatus(before, Lifecycle!Ended) : old <= j
        BY <2>6, <3>1
      <4>2. \E forgotten \in Lifecycle!WithStatus(before, Lifecycle!Ended) :
              /\ \A j \in Lifecycle!WithStatus(before, Lifecycle!Ended) : forgotten <= j
              /\ LifecycleStatus' = [before EXCEPT ![new] = "pending", ![forgotten] = "forgotten"]
        <5> HIDE DEF R, A, D, before, new
        <5> QED BY <3>4, <4>1
      <4> HIDE DEF R, A, D, before, new
      <4> QED BY <2>7, <2>8, <4>2 DEF Lifecycle!Admit
    <3> QED BY <2>1, <3>5 DEF Lifecycle!Next
  <2> QED BY <2>9, <2>10
<1> QED BY <1>1, <1>2, <1>3, <1>4, StepCases

\* Every behaviour of the broker, under any callers, is one of the lifecycle.
THEOREM BrokerImplementsLifecycle == Spec => ImplementsLifecycle
BY InitLifecycle, NextLifecycle, BrokerInvariant, PTL
   DEF Spec, ImplementsLifecycle, Lifecycle!Spec
=============================================================================
