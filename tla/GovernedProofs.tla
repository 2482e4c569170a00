---------------------------- MODULE GovernedProofs ----------------------------
(***************************************************************************)
(* The runtime implements GovernedQuery, for every value of its constants: *)
(* broker, tasks, expiry tasks and worker threads together start at most   *)
(* one query at a time, each for a pending request, and stop it with it.   *)
(***************************************************************************)
EXTENDS QueryRuntimeProofs

-----------------------------------------------------------------------------
(* The invariant *)

\* The thread's program counters up to the outcome of its query.
NoOutcomeYet == {"none", "queued", "connecting", "registering", "executing"}

\* A thread has an outcome once it has left the query, or given up before it.
OutcomesFollow == \A i \in Ids : result[i] = "none" <=> worker[i] \in NoOutcomeYet

\* A record holds its own request's cursor or none.
OwnCursors == \A i \in Ids : records[i].cursor \in {i, None}

\* A cursor that its thread has not yet registered is nowhere.
UnknownCursors ==
  \A i \in Ids : worker[i] \in NoOutcomeYet \ {"executing"} =>
                   records[i].cursor = None /\ ~ Asked(i)

QueryInv == RuntimeInv /\ OutcomesFollow /\ OwnCursors /\ UnknownCursors

-----------------------------------------------------------------------------
(* Only a thread's own step registers its cursor *)

\* The calls of the broker that register no cursor.
PlainCall(t) ==
  \/ \E ttl \in Nat : Submit(t, ttl)
  \/ SubmitRefused(t) \/ ListRequests(t)
  \/ \E i \in Ids : GetRequest(t, i) \/ Fail(t, i) \/ Cancel(t, i)
  \/ \E i \in Ids, c \in Cursors : ReleaseCursor(t, i, c)
  \/ \E i \in Ids, s \in Sources : Publish(t, i, s)

PlainStep ==
  \/ UNCHANGED <<records, toCancel, cancelled>>
  \/ \E t \in Threads : PlainCall(t) \/ CancelQuietly(t)

LEMMA RegistersOrPlain ==
  ASSUME [RuntimeNext]_allVars
  PROVE  PlainStep \/ \E i \in Ids : Register(i)
<1> USE ThreadsAndHandles DEF PlainStep, PlainCall
<1>1. ASSUME UNCHANGED vars \/ TimePasses PROVE PlainStep
  BY <1>1 DEF TimePasses, Tick, vars
<1>2. ASSUME NEW i \in Ids, TaskStep(i) PROVE PlainStep
  <2>1. CASE UNCHANGED vars
    BY <1>1, <2>1
  <2>2. CASE GetRequest(Loop, i) \/ Fail(Loop, i)
    BY <2>2
  <2>3. CASE Publish(Loop, i, i)
    BY <2>3
  <2> QED BY <1>2, <2>1, <2>2, <2>3
          DEF TaskStep, FailUnscheduled, StartTask, WakeOnExpiry, WorkFailed, StopTimer,
              PublishResult, TaskCancelled, TaskDropped
<1>3. ASSUME NEW i \in Ids, WorkerStep(i), ~ Register(i) PROVE PlainStep
  <2>1. CASE UNCHANGED vars
    BY <1>1, <2>1
  <2>2. CASE ReleaseCursor(i, i, i)
    BY <2>2
  <2>3. CASE CancelQuietly(i)
    BY <2>3
  <2> QED BY <1>3, <2>1, <2>2, <2>3
          DEF WorkerStep, Acquire, Connect, Execute, Release, Close, Unlock, WorkerCancels
<1>4. CASE LoopCancels \/ RefuseQuery \/ Read \/ CloseBegins \/ CloseReturns \/ TearDown
  BY <1>1, <1>4 DEF LoopCancels, RefuseQuery, Read, CloseBegins, CloseReturns, TearDown
<1>5. ASSUME NEW i \in Ids, TimerFires(i) \/ CloseCancels(i) PROVE PlainStep
  BY <1>1, <1>5 DEF TimerFires, CloseCancels
<1>6. CASE \E ttl \in 1 .. MaxTTL + 1 : SubmitQuery(ttl) \/ SubmitUnscheduled(ttl)
  <2>1. \A ttl \in 1 .. MaxTTL + 1 : ttl \in Nat
    BY BrokerAssumption
  <2> QED BY <1>6, <2>1 DEF SubmitQuery, SubmitUnscheduled
<1> QED BY <1>1, <1>2, <1>3, <1>4, <1>5, <1>6 DEF RuntimeNext, allVars

-----------------------------------------------------------------------------
(* What a call does to the cursors *)

\* Cursor c was in a record that is pending no more.
FromEnded(c) ==
  \E j \in Ids : /\ c = records[j].cursor /\ c # None
                 /\ records'[j].status # "pending"

\* Request i keeps its cursor or loses it.
KeptOrLost(i) == records'[i].cursor \in {records[i].cursor, None}

\* A call of thread t that keeps or takes cursors, and cancels those it takes
\* from the requests it ends.
TakesFromEnded(t) ==
  /\ \A i \in Ids : KeptOrLost(i)
  /\ \A c \in toCancel'[t] : FromEnded(c)
  /\ \A u \in Threads \ {t} : toCancel'[u] = toCancel[u]
  /\ cancelled' = cancelled

\* The shape of the calls that look at the requests in S.
LEMMA LookTakes ==
  ASSUME BrokerInv, NEW t \in Threads, NEW S \in SUBSET Ids, NEW recs,
         Locked(t, recs, ExpiredCursors(S)),
         \A i \in Ids : \/ recs[i] = IF i \in S THEN Expire(records[i]) ELSE records[i]
                        \/ recs[i].cursor = None /\ records[i].status \notin Live
                        \/ recs[i] = NoRecord
  PROVE  TakesFromEnded(t)
<1> USE DEF BrokerInv
<1>1. ASSUME NEW i \in Ids
      PROVE  /\ KeptOrLost(i)
             /\ i \in Overdue(S) => recs[i].status # "pending"
  <2>1. \/ Expire(records[i]) = records[i] /\ ~ Due(records[i])
        \/ /\ Due(records[i])
           /\ Expire(records[i]).status = "expired" /\ Expire(records[i]).cursor = None
    <3>1. records[i] \in Record
      BY DEF TypeOK
    <3> QED BY <3>1 DEF Expire, Record
  <2> QED BY <2>1 DEF KeptOrLost, Locked, Overdue, Due, NoRecord
<1>2. toCancel' = [toCancel EXCEPT ![t] = ExpiredCursors(S)] /\ cancelled' = cancelled
  BY DEF Locked
<1>3. ASSUME NEW c \in ExpiredCursors(S) PROVE FromEnded(c)
  BY <1>1 DEF ExpiredCursors, CursorsOf, FromEnded, Locked, Overdue
<1> QED BY <1>1, <1>2, <1>3 DEF TakesFromEnded, TypeOK

LEMMA LookOneTakes ==
  ASSUME BrokerInv, NEW t \in Threads, NEW j \in Ids,
         Locked(t, LookedUp(j), ExpiredCursors({j}))
  PROVE  TakesFromEnded(t)
<1>1. {j} \in SUBSET Ids
  OBVIOUS
<1>2. \A i \in Ids : LookedUp(j)[i] = IF i \in {j} THEN Expire(records[i]) ELSE records[i]
  BY LockedSectionTypes DEF BrokerInv
<1> QED BY <1>1, <1>2, LookTakes

\* The shape of the calls that write request j's record.
LEMMA WriteTakes ==
  ASSUME BrokerInv, NEW t \in Threads, NEW j \in Ids, NEW r, NEW drop,
         Locked(t, [records EXCEPT ![j] = r], drop),
         r.cursor = None, drop \subseteq {records[j].cursor} \ {None},
         drop # {} => r.status # "pending"
  PROVE  TakesFromEnded(t)
<1>1. records'[j] = r /\ \A i \in Ids \ {j} : records'[i] = records[i]
  BY DEF Locked, BrokerInv, TypeOK
<1>2. /\ toCancel'[t] = drop /\ cancelled' = cancelled
      /\ \A u \in Threads \ {t} : toCancel'[u] = toCancel[u]
  BY DEF Locked, BrokerInv, TypeOK
<1>3. \A c \in drop : FromEnded(c)
  BY <1>1 DEF FromEnded
<1> QED BY <1>1, <1>2, <1>3 DEF TakesFromEnded, KeptOrLost

LEMMA PlainCallTakes ==
  ASSUME BrokerInv, NEW t \in Threads, PlainCall(t)
  PROVE  TakesFromEnded(t)
<1> USE DEF BrokerInv
<1>1. CASE SubmitRefused(t) \/ ListRequests(t)
  <2>1. Locked(t, Refreshed, ExpiredCursors(Ids)) /\ Ids \in SUBSET Ids
    BY <1>1 DEF SubmitRefused, ListRequests
  <2> QED BY <2>1, LookTakes DEF Refreshed
<1>2. ASSUME NEW ttl \in Nat, Submit(t, ttl) PROVE TakesFromEnded(t)
  <2>1. Locked(t, Admitted(ttl), ExpiredCursors(Ids)) /\ submitted < MaxSubmissions
    BY <1>2 DEF Submit
  <2>2. ASSUME NEW i \in Ids
        PROVE  \/ Admitted(ttl)[i] = IF i \in Ids THEN Expire(records[i]) ELSE records[i]
               \/ Admitted(ttl)[i].cursor = None /\ records[i].status \notin Live
               \/ Admitted(ttl)[i] = NoRecord
    <3>1. CASE i = submitted + 1
      <4>1. records[i].status = "unknown"
        BY <3>1, BrokerAssumption DEF NotYetSubmitted, TypeOK, Ids
      <4> QED BY <2>1, <3>1, <4>1, AdmittedFacts DEF Live
    <3>2. CASE i # submitted + 1
      BY <2>1, <3>2, AdmittedFacts, RoomMadeFacts DEF Refreshed
    <3> QED BY <3>1, <3>2
  <2>3. Ids \in SUBSET Ids
    OBVIOUS
  <2> QED BY <2>1, <2>2, <2>3, LookTakes
<1>3. ASSUME NEW j \in Ids,
             \/ GetRequest(t, j) \/ Fail(t, j) \/ Cancel(t, j)
             \/ \E c \in Cursors : ReleaseCursor(t, j, c)
             \/ \E s \in Sources : Publish(t, j, s)
      PROVE  TakesFromEnded(t)
  <2> DEFINE r == Expire(records[j])
  <2>1. r \in Record /\ (r.status \in Live => r = records[j])
    BY ExpireFacts DEF TypeOK
  <2>2. CASE Locked(t, LookedUp(j), ExpiredCursors({j}))
    BY <2>2, LookOneTakes
  <2>3. ASSUME r.status \in Live, NEW q \in Record, NEW drop,
               Locked(t, [records EXCEPT ![j] = q], drop),
               q.cursor = None, drop \subseteq {r.cursor} \ {None},
               drop # {} => q.status # "pending"
        PROVE  TakesFromEnded(t)
    BY <2>1, <2>3, WriteTakes
  <2>4. CASE r.status \in Live
    <3>1. ASSUME NEW c \in Cursors, ReleaseCursor(t, j, c) PROVE TakesFromEnded(t)
      <4> DEFINE q == [r EXCEPT !.cursor = None]
      <4>1. q \in Record /\ q.cursor = None
        BY <2>1 DEF Record
      <4>2. \/ Locked(t, LookedUp(j), ExpiredCursors({j}))
            \/ Locked(t, [records EXCEPT ![j] = q], {})
        BY <3>1 DEF ReleaseCursor
      <4> HIDE DEF q, r
      <4> QED BY <2>2, <2>3, <2>4, <4>1, <4>2
    <3>2. ASSUME NEW s \in Sources, Publish(t, j, s) PROVE TakesFromEnded(t)
      <4> DEFINE q == [r EXCEPT !.status = "complete", !.source = s, !.cursor = None]
      <4>1. q \in Record /\ q.cursor = None
        BY <2>1 DEF Record, Statuses, Live
      <4>2. \/ Locked(t, LookedUp(j), ExpiredCursors({j}))
            \/ Locked(t, [records EXCEPT ![j] = q], {})
        BY <3>2 DEF Publish
      <4> HIDE DEF q, r
      <4> QED BY <2>2, <2>3, <2>4, <4>1, <4>2
    <3>3. CASE Fail(t, j)
      <4> DEFINE q == [r EXCEPT !.status = "failed", !.cursor = None]
      <4>1. q \in Record /\ q.cursor = None /\ q.status # "pending"
        BY <2>1 DEF Record, Statuses, Ended
      <4>2. \/ Locked(t, LookedUp(j), ExpiredCursors({j}))
            \/ Locked(t, [records EXCEPT ![j] = q], {r.cursor} \ {None})
        BY <3>3 DEF Fail
      <4> HIDE DEF q, r
      <4> QED BY <2>2, <2>3, <2>4, <4>1, <4>2
    <3>4. CASE Cancel(t, j)
      <4> DEFINE q == [r EXCEPT !.status = "cancelled", !.source = None, !.cursor = None]
      <4>1. q \in Record /\ q.cursor = None /\ q.status # "pending"
        BY <2>1 DEF Record, Statuses, Ended
      <4>2. \/ Locked(t, LookedUp(j), ExpiredCursors({j}))
            \/ Locked(t, [records EXCEPT ![j] = q], {r.cursor} \ {None})
        BY <3>4 DEF Cancel
      <4> HIDE DEF q, r
      <4> QED BY <2>2, <2>3, <2>4, <4>1, <4>2
    <3> QED BY <1>3, <2>2, <3>1, <3>2, <3>3, <3>4 DEF GetRequest
  <2>5. CASE r.status \notin Live
    <3>1. Locked(t, LookedUp(j), ExpiredCursors({j}))
      BY <1>3, <2>5 DEF GetRequest, ReleaseCursor, Publish, Fail, Cancel, Live
    <3> QED BY <2>2, <3>1
  <2> QED BY <2>4, <2>5
<1> QED BY <1>1, <1>2, <1>3 DEF PlainCall

\* Registration: cursor i is attached to its record, or asked to stop.
LEMMA RegisterTakes ==
  ASSUME QueryInv, NEW i \in Ids, Register(i)
  PROVE  /\ \A j \in Ids \ {i} : records'[j] = records[j]
         /\ records'[i].cursor \in {i, None}
         /\ \A u \in Threads \ {i} : toCancel'[u] = toCancel[u]
         /\ toCancel'[i] \subseteq {i}
         /\ cancelled' = cancelled
         /\ \/ /\ worker'[i] = "executing" /\ toCancel'[i] = {}
               /\ records' = [records EXCEPT ![i].cursor = i]
               /\ records[i].status = "pending"
               /\ result' = result
            \/ /\ worker'[i] = "closing" /\ result'[i] = "error"
               /\ records' = LookedUp(i)
<1> USE ThreadsAndHandles DEF QueryInv, RuntimeInv, BrokerInv
<1> DEFINE r == Expire(records[i])
<1>1. /\ worker[i] = "registering" /\ toCancel[i] = {} /\ RegisterCursor(i, i, i)
      /\ worker \in [Ids -> {"none", "queued", "finished"} \cup Holding]
      /\ result \in [Ids -> {"none", "source", "error"}]
  BY DEF Register, At, RuntimeTypeOK
<1>2. records[i].cursor = None /\ records[i] \in Record
  BY <1>1 DEF UnknownCursors, NoOutcomeYet, TypeOK
<1>3. \/ r = records[i]
      \/ r.status = "expired" /\ r.cursor = None
  BY <1>2, ExpireFacts DEF TypeOK
<1>4. ExpiredCursors({i}) = {}
  BY <1>2 DEF ExpiredCursors, CursorsOf, Overdue
<1>5. CASE r.status = "pending" /\ r.cursor = None
  <2>1. r = records[i] /\ Locked(i, [records EXCEPT ![i] = [r EXCEPT !.cursor = i]], {})
    BY <1>1, <1>3, <1>5 DEF RegisterCursor
  <2>2. records' = [records EXCEPT ![i].cursor = i] /\ toCancel' = [toCancel EXCEPT ![i] = {}]
        /\ cancelled' = cancelled
    BY <2>1 DEF Locked
  <2>3. /\ records'[i] = [records[i] EXCEPT !.cursor = i]
        /\ \A j \in Ids \ {i} : records'[j] = records[j]
    BY <2>2 DEF TypeOK
  <2>4. records'[i].status = "pending" /\ records'[i].cursor = i
    BY <1>2, <1>5, <2>1, <2>3 DEF Record
  <2>5. worker'[i] = "executing" /\ result' = result
    BY <1>1, <2>4 DEF Register, Goto
  <2> QED BY <1>5, <2>1, <2>2, <2>3, <2>4, <2>5 DEF TypeOK
<1>6. CASE ~ (r.status = "pending" /\ r.cursor = None)
  <2>1. Locked(i, LookedUp(i), ExpiredCursors({i}) \cup {i})
    BY <1>1, <1>6 DEF RegisterCursor
  <2>2. /\ records' = LookedUp(i) /\ toCancel' = [toCancel EXCEPT ![i] = {i}]
        /\ cancelled' = cancelled
    BY <1>4, <2>1 DEF Locked
  <2>3. /\ records'[i] = r
        /\ \A j \in Ids \ {i} : records'[j] = records[j]
    BY <2>2, LockedSectionTypes
  <2>4. records'[i].status # "pending" /\ records'[i].cursor = None
    BY <1>2, <1>3, <1>6, <2>3
  <2>5. worker'[i] = "closing" /\ result'[i] = "error"
    BY <1>1, <2>4 DEF Register, Goto
  <2> QED BY <2>2, <2>3, <2>4, <2>5 DEF TypeOK
<1> QED BY <1>5, <1>6

\* A cursor is asked to stop by its own late registration, or when its request ends.
LEMMA NewlyAsked ==
  ASSUME QueryInv, [RuntimeNext]_allVars, NEW i \in Ids, ~ Asked(i), Asked(i)'
  PROVE  \/ Register(i) /\ worker'[i] = "closing"
         \/ records[i].cursor = i /\ records'[i].status # "pending"
<1> USE DEF QueryInv, RuntimeInv, BrokerInv, Asked
<1>0. i # None
  BY BrokerAssumption DEF Ids, None
<1>1. ASSUME NEW j \in Ids, Register(j)
      PROVE  Register(i) /\ worker'[i] = "closing"
  BY <1>1, RegisterTakes, ThreadsAndHandles
<1>2. CASE UNCHANGED <<records, toCancel, cancelled>>
  BY <1>2
<1>3. ASSUME NEW t \in Threads, CancelQuietly(t) PROVE FALSE
  BY <1>3 DEF CancelQuietly, TypeOK
<1>4. ASSUME NEW t \in Threads, PlainCall(t)
      PROVE  records[i].cursor = i /\ records'[i].status # "pending"
  <2>1. FromEnded(i)
    BY <1>4, PlainCallTakes DEF TakesFromEnded
  <2> QED BY <1>0, <2>1 DEF FromEnded, OwnCursors
<1> QED BY <1>1, <1>2, <1>3, <1>4, RegistersOrPlain DEF PlainStep

\* A request's cursor changes by its thread's registration, or is lost.
LEMMA CursorMoves ==
  ASSUME QueryInv, [RuntimeNext]_allVars, NEW i \in Ids
  PROVE  KeptOrLost(i) \/ (Register(i) /\ records'[i].cursor \in {i, None})
<1>1. CASE UNCHANGED <<records, toCancel, cancelled>>
  BY <1>1 DEF KeptOrLost
<1>2. ASSUME NEW t \in Threads, CancelQuietly(t) PROVE KeptOrLost(i)
  BY <1>2 DEF CancelQuietly, KeptOrLost
<1>3. ASSUME NEW t \in Threads, PlainCall(t) PROVE KeptOrLost(i)
  BY <1>3, PlainCallTakes DEF TakesFromEnded, QueryInv, RuntimeInv
<1>4. ASSUME NEW j \in Ids, Register(j)
      PROVE  KeptOrLost(i) \/ (Register(i) /\ records'[i].cursor \in {i, None})
  BY <1>4, RegisterTakes DEF KeptOrLost
<1> QED BY <1>1, <1>2, <1>3, <1>4, RegistersOrPlain DEF PlainStep

-----------------------------------------------------------------------------
(* The steps of the queries *)

\* No query starts or ends, and no thread comes to an outcome.
Quiet ==
  \A i \in Ids : /\ worker'[i] = "executing" <=> worker[i] = "executing"
                 /\ result'[i] = "none" <=> result[i] = "none"

LEMMA QueryStepKinds ==
  ASSUME QueryInv, [RuntimeNext]_allVars
  PROVE  Quiet \/ \E i \in Ids : Acquire(i) \/ Connect(i) \/ Register(i) \/ Execute(i)
<1> USE DEF QueryInv, RuntimeInv, RuntimeTypeOK, Quiet
<1>1. ASSUME NEW i \in Ids, TaskStep(i) PROVE Quiet
  <2>1. CASE StartTask(i)
    BY <2>1 DEF StartTask, Phases
  <2>2. CASE ~ StartTask(i)
    BY <1>1, <2>2
       DEF TaskStep, FailUnscheduled, WakeOnExpiry, WorkFailed, StopTimer, PublishResult,
           TaskCancelled, TaskDropped
  <2> QED BY <2>1, <2>2
<1>2. ASSUME NEW i \in Ids, Release(i) \/ Close(i) \/ Unlock(i) \/ WorkerCancels(i)
      PROVE  Quiet
  <2>1. CASE Release(i) \/ Unlock(i)
    BY <2>1 DEF Release, Unlock, At, Goto
  <2>2. CASE Close(i)
    <3>1. result[i] # "none"
      BY <2>2 DEF OutcomesFollow, NoOutcomeYet, Close, At
    <3> QED BY <2>2, <3>1 DEF Close, At, Goto
  <2>3. CASE WorkerCancels(i)
    BY <2>3 DEF WorkerCancels, runtimeVars
  <2> QED BY <1>2, <2>1, <2>2, <2>3
<1>3. CASE ~ \E i \in Ids : TaskStep(i) \/ WorkerStep(i)
  <2>1. UNCHANGED <<worker, result>>
    BY <1>3, StepKinds, PassiveUnchanged
       DEF SubmitQuery, SubmitUnscheduled, CloseBegins, CloseReturns, TearDown, TimerFires,
           CloseCancels, runtimeVars
  <2> QED BY <2>1
<1> QED BY <1>1, <1>2, <1>3 DEF WorkerStep

-----------------------------------------------------------------------------
(* The invariant is inductive *)

\* Early threads were as early before, and did not register.
LEMMA StillEarly ==
  ASSUME QueryInv, [RuntimeNext]_allVars, NEW i \in Ids,
         worker'[i] \in NoOutcomeYet \ {"executing"}
  PROVE  worker[i] \in NoOutcomeYet \ {"executing"} /\ ~ Register(i)
<1> USE DEF QueryInv, RuntimeInv, RuntimeTypeOK, NoOutcomeYet, Holding
<1>1. ~ Register(i)
  BY RegisterTakes
<1>2. CASE \E j \in Ids : WorkerStep(j)
  BY <1>1, <1>2 DEF WorkerStep, Acquire, Connect, Register, Execute, Release, Close, Unlock,
                   WorkerCancels, At, Goto, runtimeVars
<1>3. ASSUME NEW j \in Ids, TaskStep(j)
      PROVE  worker[i] \in NoOutcomeYet \ {"executing"}
  <2>1. CASE StartTask(j)
    BY <2>1 DEF StartTask, Phases
  <2>2. CASE ~ StartTask(j)
    BY <1>3, <2>2
       DEF TaskStep, FailUnscheduled, WakeOnExpiry, WorkFailed, StopTimer, PublishResult,
           TaskCancelled, TaskDropped
  <2> QED BY <2>1, <2>2
<1>4. ASSUME ~ \E j \in Ids : TaskStep(j) \/ WorkerStep(j)
      PROVE  worker' = worker
  BY <1>4, StepKinds, PassiveUnchanged
     DEF SubmitQuery, SubmitUnscheduled, CloseBegins, CloseReturns, TearDown, TimerFires,
         CloseCancels, runtimeVars
<1> QED BY <1>1, <1>2, <1>3, <1>4

LEMMA NextOutcomesFollow ==
  ASSUME QueryInv, [RuntimeNext]_allVars
  PROVE  OutcomesFollow'
<1> USE DEF QueryInv, RuntimeInv, RuntimeTypeOK, OutcomesFollow, NoOutcomeYet, Holding
<1>1. ASSUME NEW j \in Ids, Acquire(j) \/ Connect(j) PROVE OutcomesFollow'
  BY <1>1 DEF Acquire, Connect, At, Goto
<1>2. ASSUME NEW j \in Ids, Register(j) \/ Execute(j) PROVE OutcomesFollow'
  BY <1>2 DEF Register, Execute, At, Goto
<1>3. ASSUME NEW j \in Ids, Release(j) \/ Close(j) \/ Unlock(j) \/ WorkerCancels(j)
      PROVE  OutcomesFollow'
  BY <1>3 DEF Release, Close, Unlock, WorkerCancels, At, Goto, runtimeVars
<1>4. CASE \E j \in Ids : TaskStep(j)
  BY <1>4 DEF TaskStep, FailUnscheduled, StartTask, WakeOnExpiry, WorkFailed, StopTimer,
              PublishResult, TaskCancelled, TaskDropped, Phases
<1>5. CASE ~ \E j \in Ids : TaskStep(j) \/ WorkerStep(j)
  BY <1>5, StepKinds, PassiveUnchanged
     DEF SubmitQuery, SubmitUnscheduled, CloseBegins, CloseReturns, TearDown, TimerFires,
         CloseCancels, runtimeVars
<1> QED BY <1>1, <1>2, <1>3, <1>4, <1>5 DEF WorkerStep

LEMMA InitQueryInv == RuntimeInit => QueryInv
<1> SUFFICES ASSUME RuntimeInit PROVE QueryInv
  OBVIOUS
<1>1. RuntimeInv
  BY InitRuntimeInv
<1>2. OutcomesFollow /\ OwnCursors /\ UnknownCursors
  BY DEF RuntimeInit, Init, NoRecord, Asked, OutcomesFollow, OwnCursors, UnknownCursors,
         NoOutcomeYet
<1> QED BY <1>1, <1>2 DEF QueryInv

LEMMA NextQueryInv == QueryInv /\ [RuntimeNext]_allVars => QueryInv'
<1> SUFFICES ASSUME QueryInv, [RuntimeNext]_allVars PROVE QueryInv'
  OBVIOUS
<1>1. RuntimeInv'
  BY NextRuntimeInv DEF QueryInv
<1>2. OwnCursors'
  BY CursorMoves DEF QueryInv, OwnCursors, KeptOrLost
<1>3. UnknownCursors'
  <2> SUFFICES ASSUME NEW i \in Ids, worker'[i] \in NoOutcomeYet \ {"executing"}
               PROVE  records'[i].cursor = None /\ ~ Asked(i)'
    BY DEF UnknownCursors, Asked
  <2>1. records[i].cursor = None /\ ~ Asked(i) /\ ~ Register(i) /\ i # None
    BY StillEarly, BrokerAssumption DEF QueryInv, UnknownCursors, Ids, None
  <2>2. records'[i].cursor = None
    BY <2>1, CursorMoves DEF KeptOrLost
  <2>3. ~ Asked(i)'
    BY <2>1, NewlyAsked
  <2> QED BY <2>2, <2>3
<1> QED BY <1>1, <1>2, <1>3, NextOutcomesFollow DEF QueryInv

LEMMA QueryInvariant == RuntimeSafety => []QueryInv
BY InitQueryInv, NextQueryInv, PTL DEF RuntimeSafety

-----------------------------------------------------------------------------
(* The refinement *)

\* GovernedQuery's lifecycle is the broker's.
LEMMA SameLifecycle ==
  /\ Governed!Lifecycle!Init <=> Lifecycle!Init
  /\ Governed!Lifecycle!Next <=> Lifecycle!Next
  /\ Governed!Lifecycle!Live = Live
  /\ \A S : Governed!Lifecycle!Lapsed(S) = Lifecycle!Lapsed(S)
<1>1. /\ Governed!Lifecycle!Live = Lifecycle!Live
      /\ Governed!Lifecycle!Ended = Lifecycle!Ended
      /\ Governed!Lifecycle!Known = Lifecycle!Known
      /\ Governed!Lifecycle!Live = Live
  BY DEF Governed!Lifecycle!Live, Lifecycle!Live, Governed!Lifecycle!Ended, Lifecycle!Ended,
         Governed!Lifecycle!Known, Lifecycle!Known, Live
<1>2. \A S : Governed!Lifecycle!Cardinality(S) = Lifecycle!Cardinality(S)
  BY Zenon DEF Governed!Lifecycle!Cardinality, Lifecycle!Cardinality
<1>3. \A st, S : Governed!Lifecycle!WithStatus(st, S) = Lifecycle!WithStatus(st, S)
  BY DEF Governed!Lifecycle!WithStatus, Lifecycle!WithStatus
<1>4. \A S : Governed!Lifecycle!Lapsed(S) = Lifecycle!Lapsed(S)
  BY DEF Governed!Lifecycle!Lapsed, Lifecycle!Lapsed
<1>5. \A before : Governed!Lifecycle!Admit(before) <=> Lifecycle!Admit(before)
  BY <1>1, <1>2, <1>3 DEF Governed!Lifecycle!Admit, Lifecycle!Admit
<1>6. \A before : \A i \in Ids :
        /\ Governed!Lifecycle!Settle(before, i) <=> Lifecycle!Settle(before, i)
        /\ Governed!Lifecycle!Withdraw(before, i) <=> Lifecycle!Withdraw(before, i)
  BY DEF Governed!Lifecycle!Settle, Lifecycle!Settle, Governed!Lifecycle!Withdraw,
         Lifecycle!Withdraw
<1>7. Governed!Lifecycle!Next <=> Lifecycle!Next
  BY <1>1, <1>3, <1>4, <1>5, <1>6 DEF Governed!Lifecycle!Next, Lifecycle!Next
<1>8. Governed!Lifecycle!Init <=> Lifecycle!Init
  BY DEF Governed!Lifecycle!Init, Lifecycle!Init
<1> QED BY <1>1, <1>4, <1>7, <1>8

\* Statuses and queries stay as they are.
GovernedStutter ==
  /\ LifecycleStatus' = LifecycleStatus
  /\ \A j \in Ids : QueryOf(j)' = QueryOf(j)

\* Request i's query moves to q, the others stay where they are.
QueryMoves(i, q) == \A j \in Ids : QueryOf(j)' = IF j = i THEN q ELSE QueryOf(j)

\* What cancellers know of a request is unchanged by a thread's step outside the broker.
LEMMA OutsideTheBroker ==
  ASSUME UNCHANGED vars
  PROVE  /\ LifecycleStatus' = LifecycleStatus
         /\ \A j \in Ids : Asked(j)' <=> Asked(j)
BY DEF vars, LifecycleStatus, Asked

\* The thread takes the lock and its query is still to come, or gives up.
LEMMA ConnectionSteps ==
  ASSUME QueryInv, NEW i \in Ids, Acquire(i) \/ Connect(i)
  PROVE  GovernedStutter \/ Governed!Skip(i)
<1> USE DEF QueryInv, RuntimeInv, RuntimeTypeOK
<1>1. UNCHANGED vars
  BY DEF Acquire, Connect
<1>2. worker[i] \in {"queued", "connecting"} /\ result[i] = "none"
  BY DEF Acquire, Connect, At, OutcomesFollow, NoOutcomeYet
<1>3. \A j \in Ids \ {i} : worker'[j] = worker[j] /\ result'[j] = result[j]
  BY DEF Acquire, Connect, Goto
<1>4. \/ worker'[i] \in {"connecting", "registering"} /\ result'[i] = "none"
      \/ worker'[i] \in {"finished", "unlocking"} /\ result'[i] = "error"
  BY <1>2 DEF Acquire, Connect, Goto
<1>5. CASE worker'[i] \in {"connecting", "registering"} /\ result'[i] = "none"
  BY <1>1, <1>2, <1>3, <1>5, OutsideTheBroker DEF GovernedStutter, QueryOf
<1>6. CASE worker'[i] \in {"finished", "unlocking"} /\ result'[i] = "error"
  <2>1. QueryOf(i) = "none" /\ QueryMoves(i, "over")
    BY <1>1, <1>2, <1>3, <1>6, OutsideTheBroker DEF QueryMoves, QueryOf
  <2> QED BY <1>1, <2>1, OutsideTheBroker DEF Governed!Skip, QueryMoves
<1> QED BY <1>4, <1>5, <1>6

\* The query is over, whatever came of it.
LEMMA ExecuteFinishes ==
  ASSUME QueryInv, NEW i \in Ids, Execute(i)
  PROVE  Governed!Finish(i)
<1> USE DEF QueryInv, RuntimeInv, RuntimeTypeOK
<1>1. UNCHANGED vars /\ worker[i] = "executing"
  BY DEF Execute, At
<1>2. /\ worker'[i] = "releasing" /\ result'[i] # "none"
      /\ \A j \in Ids \ {i} : worker'[j] = worker[j] /\ result'[j] = result[j]
  BY DEF Execute, Goto
<1>3. QueryOf(i) \in {"running", "stopping"} /\ QueryMoves(i, "over")
  BY <1>1, <1>2, OutsideTheBroker DEF QueryMoves, QueryOf
<1> QED BY <1>1, <1>3, OutsideTheBroker DEF Governed!Finish, QueryMoves

\* A cursor that is attached starts its query; one that comes too late skips it.
LEMMA RegisterStarts ==
  ASSUME QueryInv, NEW i \in Ids, Register(i)
  PROVE  Governed!Start(i) \/ Governed!Skip(i)
<1> USE DEF QueryInv, RuntimeInv, RuntimeTypeOK
<1>1. /\ worker[i] = "registering" /\ toCancel[i] = {} /\ submitted' = submitted
      /\ \A j \in Ids \ {i} : worker'[j] = worker[j] /\ result'[j] = result[j]
  BY DEF Register, RegisterCursor, At, Goto
<1>2. result[i] = "none" /\ ~ Asked(i) /\ QueryOf(i) = "none"
  BY <1>1 DEF OutcomesFollow, UnknownCursors, NoOutcomeYet, QueryOf
<1>3. \A j \in Ids \ {i} : Asked(j)' <=> Asked(j)
  BY <1>1, RegisterTakes, ThreadsAndHandles DEF Asked
<1>4. \A j \in Ids \ {i} : QueryOf(j)' = QueryOf(j)
  BY <1>1, <1>3 DEF QueryOf
<1>5. CASE worker'[i] = "executing" /\ toCancel'[i] = {}
  <2>1. /\ records' = [records EXCEPT ![i].cursor = i]
        /\ records[i].status = "pending"
    BY <1>5, RegisterTakes
  <2>2. \A j \in Ids : records'[j].status = records[j].status
    BY <2>1 DEF BrokerInv, TypeOK, Record
  <2>3. LifecycleStatus' = LifecycleStatus /\ LifecycleStatus[i] = "pending"
    BY <1>1, <2>1, <2>2 DEF LifecycleStatus
  <2>4. ~ Asked(i)'
    BY <1>2, <1>5, RegisterTakes, ThreadsAndHandles DEF Asked
  <2>5. QueryMoves(i, "running")
    BY <1>4, <1>5, <2>4 DEF QueryMoves, QueryOf
  <2>6. \A j \in Ids : QueryOf(j) \notin {"running", "stopping"}
    BY <1>1 DEF QueryOf, OneConnection, Holding
  <2> QED BY <1>2, <2>3, <2>5, <2>6 DEF Governed!Start, QueryMoves
<1>6. CASE worker'[i] = "closing" /\ result'[i] = "error" /\ records' = LookedUp(i)
  <2>1. QueryMoves(i, "over")
    BY <1>4, <1>6 DEF QueryMoves, QueryOf
  <2>2. CASE ~ Due(records[i])
    <3>1. records' = records
      BY <1>6, <2>2 DEF LookedUp, Expire, BrokerInv, TypeOK
    <3>2. LifecycleStatus' = LifecycleStatus
      BY <1>1, <3>1 DEF LifecycleStatus
    <3> QED BY <1>2, <2>1, <3>2 DEF Governed!Skip, QueryMoves
  <2>3. CASE Due(records[i])
    <3>1. records'[i] = Expire(records[i]) /\ \A j \in Ids \ {i} : records'[j] = records[j]
      BY <1>6, LockedSectionTypes DEF BrokerInv
    <3>2. records'[i].status = "expired"
      BY <2>3, <3>1 DEF Expire, BrokerInv, TypeOK, Record
    <3>3. LifecycleStatus' = Lifecycle!Lapsed({i})
      BY <1>1, <3>1, <3>2 DEF LifecycleStatus, Lifecycle!Lapsed
    <3>4. LifecycleStatus[i] \in Live
      BY <2>3, LifecycleStatusFacts DEF Due, Live, Statuses, BrokerInv
    <3> QED BY <1>2, <2>1, <3>3, <3>4, SameLifecycle DEF Governed!Skip, QueryMoves
  <2> QED BY <2>2, <2>3
<1> QED BY <1>5, <1>6, RegisterTakes

\* Every other step changes statuses only, and stops the query of a request it ends.
LEMMA QuietChangesStatus ==
  ASSUME QueryInv, QueryInv', [RuntimeNext]_allVars, Quiet
  PROVE  GovernedStutter \/ Governed!StatusChange
<1> USE DEF QueryInv, RuntimeInv, RuntimeTypeOK
<1>1. Lifecycle!Next \/ LifecycleStatus' = LifecycleStatus
  BY NextLifecycle, RuntimeUsesBroker
<1>2. ASSUME NEW i \in Ids
      PROVE  LifecycleStatus'[i] = "pending" <=> records'[i].status = "pending"
  BY DEF LifecycleStatus
<1>3. ASSUME NEW i \in Ids
      PROVE  QueryOf(i)' = IF QueryOf(i) = "running" /\ LifecycleStatus'[i] # "pending"
                           THEN "stopping" ELSE QueryOf(i)
  <2>1. CASE worker[i] # "executing"
    BY <2>1 DEF Quiet, QueryOf
  <2>2. CASE worker[i] = "executing" /\ Asked(i)
    BY <2>2, AskedStays, RuntimeUsesBroker DEF Quiet, QueryOf
  <2>3. CASE worker[i] = "executing" /\ ~ Asked(i)
    <3>1. worker'[i] = "executing" /\ ~ Register(i)
      BY <2>3 DEF Quiet, Register, At
    <3>2. Asked(i)' <=> records'[i].status # "pending"
      <4>1. Asked(i)' => records'[i].status # "pending"
        BY <2>3, <3>1, NewlyAsked
      <4>2. Asked(i)' \/ records'[i].status = "pending"
        BY <3>1 DEF NoOrphanedQuery, Asked
      <4> QED BY <4>1, <4>2
    <3> QED BY <1>2, <2>3, <3>1, <3>2 DEF QueryOf
  <2> QED BY <2>1, <2>2, <2>3
<1>4. ASSUME NEW i \in Ids, LifecycleStatus'[i] = "complete"
      PROVE  QueryOf(i) = "over"
  <2>1. worker'[i] = "finished" /\ result'[i] = "source"
    BY <1>4 DEF LifecycleStatus, PublishedAfterCleanup
  <2> QED BY <2>1 DEF Quiet, QueryOf
<1>5. CASE LifecycleStatus' = LifecycleStatus
  <2>1. ASSUME NEW i \in Ids, QueryOf(i) = "running" PROVE LifecycleStatus[i] = "pending"
    BY <2>1 DEF QueryOf, NoOrphanedQuery, LifecycleStatus
  <2> QED BY <1>3, <1>5, <2>1 DEF GovernedStutter
<1>6. CASE Lifecycle!Next
  BY <1>3, <1>4, <1>6, SameLifecycle DEF Governed!StatusChange
<1> QED BY <1>1, <1>5, <1>6

LEMMA NextGoverned ==
  QueryInv /\ QueryInv' /\ [RuntimeNext]_allVars
    => [Governed!Next]_<<LifecycleStatus, [i \in Ids |-> QueryOf(i)]>>
<1> SUFFICES ASSUME QueryInv, QueryInv', [RuntimeNext]_allVars
             PROVE  [Governed!Next]_<<LifecycleStatus, [i \in Ids |-> QueryOf(i)]>>
  OBVIOUS
<1>1. CASE GovernedStutter
  BY <1>1 DEF GovernedStutter
<1>2. ASSUME NEW i \in Ids, Acquire(i) \/ Connect(i) \/ Register(i) \/ Execute(i)
      PROVE  GovernedStutter \/ Governed!Next
  BY <1>2, ConnectionSteps, RegisterStarts, ExecuteFinishes DEF Governed!Next
<1>3. CASE Quiet
  BY <1>1, <1>3, QuietChangesStatus DEF Governed!Next
<1> QED BY <1>1, <1>2, <1>3, QueryStepKinds

LEMMA InitGoverned == RuntimeInit => Governed!Init
<1> SUFFICES ASSUME RuntimeInit PROVE Governed!Init
  OBVIOUS
<1>1. Governed!Lifecycle!Init
  BY InitLifecycle, SameLifecycle DEF RuntimeInit
<1>2. \A i \in Ids : QueryOf(i) = "none"
  BY DEF RuntimeInit, QueryOf
<1> QED BY <1>1, <1>2 DEF Governed!Init

\* However submissions, lookups, expiries, cancellations, shutdown and the worker
\* threads interleave, the runtime runs one query at a time, only for a pending
\* request, stops it in the step that ends its request, and completes a request
\* only after its query is over.
THEOREM RuntimeGovernsQueries == RuntimeSafety => ImplementsGovernedQuery
BY InitGoverned, NextGoverned, QueryInvariant, PTL
   DEF RuntimeSafety, ImplementsGovernedQuery, Governed!Spec
=============================================================================
