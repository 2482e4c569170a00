------------------------- MODULE QueryRuntimeProofs -------------------------
(***************************************************************************)
(* Proofs about the runtime for every value of its constants.  Every step  *)
(* of it is a step of the broker (or leaves the broker alone), so what     *)
(* BrokerProofs proves of any callers holds of these.                      *)
(***************************************************************************)
EXTENDS QueryRuntime, BrokerProofs

-----------------------------------------------------------------------------
(* The runtime is one of the broker's callers *)

LEMMA ThreadsAndHandles ==
  /\ Loop \in Threads
  /\ \A i \in Ids : i \in Threads /\ i \in Cursors /\ i \in Sources
BY RuntimeAssumption

\* The calls of the broker that do not publish request j.
CallBut(j, t) ==
  \/ \E ttl \in 1 .. MaxTTL + 1 : Submit(t, ttl)
  \/ SubmitRefused(t)
  \/ ListRequests(t)
  \/ \E i \in Ids : GetRequest(t, i) \/ Fail(t, i) \/ Cancel(t, i)
  \/ \E i \in Ids, c \in Cursors : RegisterCursor(t, i, c) \/ ReleaseCursor(t, i, c)
  \/ \E i \in Ids \ {j}, s \in Sources : Publish(t, i, s)

StepBut(j) ==
  Tick \/ UNCHANGED vars \/ \E t \in Threads : CallBut(j, t) \/ CancelQuietly(t)

LEMMA TaskCalls ==
  ASSUME NEW j, NEW i \in Ids, TaskStep(i), ~ (i = j /\ PublishResult(i))
  PROVE  StepBut(j)
<1> USE ThreadsAndHandles DEF StepBut, CallBut
<1>1. CASE UNCHANGED vars
  BY <1>1
<1>2. CASE GetRequest(Loop, i) \/ Fail(Loop, i)
  BY <1>2
<1>3. CASE Publish(Loop, i, i) /\ i # j
  BY <1>3
<1> QED BY <1>1, <1>2, <1>3
        DEF TaskStep, FailUnscheduled, StartTask, WakeOnExpiry, WorkFailed, StopTimer,
            PublishResult, TaskCancelled, TaskDropped

LEMMA ThreadCalls ==
  ASSUME NEW j, NEW i \in Ids, WorkerStep(i)
  PROVE  StepBut(j)
<1> USE ThreadsAndHandles DEF StepBut, CallBut
<1>1. CASE UNCHANGED vars
  BY <1>1
<1>2. CASE RegisterCursor(i, i, i) \/ ReleaseCursor(i, i, i)
  BY <1>2
<1>3. CASE CancelQuietly(i)
  BY <1>3
<1> QED BY <1>1, <1>2, <1>3
        DEF WorkerStep, Acquire, Connect, Register, Execute, Release, Close, Unlock,
            WorkerCancels

\* Every step of the runtime makes at most one call, and only PublishResult(j)
\* publishes request j.
LEMMA RuntimeCalls ==
  ASSUME NEW j, [RuntimeNext]_allVars
  PROVE  StepBut(j) \/ (j \in Ids /\ PublishResult(j))
<1>1. CASE \E i \in Ids : TaskStep(i) \/ WorkerStep(i)
  BY <1>1, TaskCalls, ThreadCalls
<1>2. CASE \/ UNCHANGED vars \/ CloseReturns \/ TearDown
           \/ \E i \in Ids : TimerFires(i)
  BY <1>2 DEF CloseReturns, TearDown, TimerFires, StepBut
<1>3. CASE TimePasses \/ LoopCancels
  BY <1>3, ThreadsAndHandles DEF TimePasses, LoopCancels, StepBut
<1>4. CASE \/ \E ttl \in 1 .. MaxTTL + 1 : SubmitQuery(ttl) \/ SubmitUnscheduled(ttl)
           \/ RefuseQuery \/ Read \/ CloseBegins
           \/ \E i \in Ids : CloseCancels(i)
  BY <1>4, ThreadsAndHandles
     DEF SubmitQuery, SubmitUnscheduled, RefuseQuery, Read, CloseBegins, CloseCancels,
         StepBut, CallBut
<1> QED BY <1>1, <1>2, <1>3, <1>4 DEF RuntimeNext, allVars

LEMMA RuntimeUsesBroker == [RuntimeNext]_allVars => [Next]_vars
<1> SUFFICES ASSUME [RuntimeNext]_allVars PROVE [Next]_vars
  OBVIOUS
<1>1. None \notin Ids
  BY BrokerAssumption DEF Ids, None
<1>2. StepBut(None)
  BY <1>1, RuntimeCalls
<1> QED BY <1>2 DEF StepBut, CallBut, Next, Call

\* The runtime's behaviours are the broker's: whatever is proved of a broker
\* under any callers holds of the broker in the runtime.
THEOREM RuntimeImplementsBroker == RuntimeSafety => Spec
BY RuntimeUsesBroker, PTL DEF RuntimeSafety, RuntimeInit, Spec

-----------------------------------------------------------------------------
(* Types *)

LoopTypes ==
  /\ mode \in {"open", "closing", "closed"}
  /\ forced \in BOOLEAN
  /\ toClose \subseteq Ids
  /\ task \in [Ids -> {"none", "unscheduled", "scheduled", "waiting", "awaiting",
                       "publishing", "done"}]
  /\ timer \in [Ids -> {"none", "armed", "fired", "cancelled"}]

WorkerTypes ==
  /\ worker \in [Ids -> {"none", "queued", "finished"} \cup Holding]
  /\ result \in [Ids -> {"none", "source", "error"}]
  /\ active \in Ids \cup {None}

LEMMA TypesSplit == RuntimeTypeOK <=> TypeOK /\ LoopTypes /\ WorkerTypes
BY DEF RuntimeTypeOK, LoopTypes, WorkerTypes

LEMMA TaskTypes ==
  ASSUME RuntimeTypeOK, NEW i \in Ids, TaskStep(i)
  PROVE  LoopTypes' /\ WorkerTypes'
<1> USE TypesSplit DEF LoopTypes, WorkerTypes
<1>1. CASE StartTask(i)
  BY <1>1 DEF StartTask
<1>2. CASE FailUnscheduled(i) \/ WakeOnExpiry(i) \/ PublishResult(i) \/ TaskDropped(i)
  BY <1>2 DEF FailUnscheduled, WakeOnExpiry, PublishResult, TaskDropped
<1>3. CASE WorkFailed(i) \/ StopTimer(i) \/ TaskCancelled(i)
  BY <1>3 DEF WorkFailed, StopTimer, TaskCancelled
<1> QED BY <1>1, <1>2, <1>3 DEF TaskStep

LEMMA ThreadTypes ==
  ASSUME RuntimeTypeOK, NEW i \in Ids, WorkerStep(i)
  PROVE  LoopTypes' /\ WorkerTypes'
<1> USE TypesSplit DEF LoopTypes, WorkerTypes, Goto, OnLoopUnchanged, Holding
<1>1. CASE Acquire(i) \/ Connect(i)
  BY <1>1 DEF Acquire, Connect
<1>2. CASE Register(i) \/ Execute(i) \/ Release(i)
  BY <1>2 DEF Register, Execute, Release
<1>3. CASE Close(i) \/ Unlock(i) \/ WorkerCancels(i)
  BY <1>3 DEF Close, Unlock, WorkerCancels, runtimeVars
<1> QED BY <1>1, <1>2, <1>3 DEF WorkerStep

LEMMA NextRuntimeTypes == RuntimeTypeOK /\ [RuntimeNext]_allVars => RuntimeTypeOK'
<1> SUFFICES ASSUME RuntimeTypeOK, [RuntimeNext]_allVars PROVE RuntimeTypeOK'
  OBVIOUS
<1>1. TypeOK'
  BY RuntimeUsesBroker, NextTypeOK, TypesSplit
<1> SUFFICES LoopTypes' /\ WorkerTypes'
  BY <1>1 DEF RuntimeTypeOK, LoopTypes, WorkerTypes
<1>2. CASE \E i \in Ids : TaskStep(i) \/ WorkerStep(i)
  BY <1>2, TaskTypes, ThreadTypes
<1>3. CASE UNCHANGED runtimeVars
  BY <1>3, TypesSplit DEF runtimeVars, LoopTypes, WorkerTypes
<1>4. CASE TimePasses \/ LoopCancels \/ RefuseQuery \/ Read \/ UNCHANGED allVars
  BY <1>3, <1>4 DEF TimePasses, LoopCancels, RefuseQuery, Read, allVars
<1>5. CASE \E ttl \in 1 .. MaxTTL + 1 : SubmitQuery(ttl) \/ SubmitUnscheduled(ttl)
  BY <1>5, TypesSplit DEF SubmitQuery, SubmitUnscheduled, LoopTypes, WorkerTypes
<1>6. CASE CloseBegins \/ CloseReturns \/ TearDown
  BY <1>6, TypesSplit
     DEF CloseBegins, CloseReturns, TearDown, LoopTypes, WorkerTypes, WithStatus
<1>7. CASE \E i \in Ids : TimerFires(i) \/ CloseCancels(i)
  BY <1>7, TypesSplit DEF TimerFires, CloseCancels, LoopTypes, WorkerTypes
<1> QED BY <1>2, <1>3, <1>4, <1>5, <1>6, <1>7 DEF RuntimeNext

LEMMA InitRuntimeTypes == RuntimeInit => RuntimeTypeOK
BY InitTypeOK DEF RuntimeInit, RuntimeTypeOK, Holding

\* The type invariant of the runtime.
THEOREM RuntimeTypes == RuntimeSafety => []RuntimeTypeOK
BY InitRuntimeTypes, NextRuntimeTypes, PTL DEF RuntimeSafety

-----------------------------------------------------------------------------
(* The inductive invariant *)

\* How far a request's task is tells how far its thread can be.
Phases ==
  \A i \in Ids :
    /\ task[i] \in {"none", "unscheduled", "scheduled"} => worker[i] = "none"
    /\ task[i] = "publishing" => worker[i] = "finished" /\ result[i] = "source"
    /\ task[i] = "done" => worker[i] \in {"none", "finished"} \/ forced
    /\ i > submitted => task[i] = "none"

\* Once close() has begun, what is pending is on its list, and nothing is added.
CloseListsPending ==
  /\ mode \in {"closing", "closed"} =>
       \A i \in Ids : records[i].status = "pending" => i \in toClose
  /\ mode # "closing" => toClose = {}
  /\ mode = "closed" => \A i \in Ids : task[i] \in {"none", "done"}

RuntimeInv ==
  /\ RuntimeTypeOK
  /\ BrokerInv
  /\ Phases
  /\ OneConnection
  /\ CloseListsPending
  /\ PublishedAfterCleanup
  /\ NoOrphanedQuery

\* The steps that leave the runtime's own variables alone.
Passive == TimePasses \/ LoopCancels \/ RefuseQuery \/ Read \/ UNCHANGED allVars

LEMMA PassiveUnchanged == Passive => UNCHANGED runtimeVars
BY DEF Passive, TimePasses, LoopCancels, RefuseQuery, Read, allVars

\* The kinds of steps the proofs below distinguish.
LEMMA StepKinds ==
  ASSUME [RuntimeNext]_allVars
  PROVE  \/ Passive
         \/ \E ttl \in Nat : SubmitQuery(ttl) \/ SubmitUnscheduled(ttl)
         \/ CloseBegins \/ CloseReturns \/ TearDown
         \/ \E i \in Ids : TaskStep(i) \/ WorkerStep(i) \/ TimerFires(i) \/ CloseCancels(i)
<1>1. \A ttl \in 1 .. MaxTTL + 1 : ttl \in Nat
  BY BrokerAssumption
<1> QED BY <1>1 DEF RuntimeNext, Passive

LEMMA ThreadSubmitsNothing ==
  ASSUME NEW i \in Ids, WorkerStep(i)
  PROVE  submitted' = submitted
BY DEF WorkerStep, Acquire, Connect, Register, Execute, Release, Close, Unlock,
       WorkerCancels, RegisterCursor, ReleaseCursor, CancelQuietly, vars

LEMMA TaskSubmitsNothing ==
  ASSUME NEW i \in Ids, TaskStep(i)
  PROVE  submitted' = submitted
BY DEF TaskStep, FailUnscheduled, StartTask, WakeOnExpiry, WorkFailed, StopTimer,
       PublishResult, TaskCancelled, TaskDropped, GetRequest, Fail, Publish, vars

\* Requests are admitted only while the service is open.
LEMMA OnlySubmitAdmits ==
  ASSUME [RuntimeNext]_allVars
  PROVE  \/ submitted' = submitted
         \/ \E ttl \in Nat : SubmitQuery(ttl) \/ SubmitUnscheduled(ttl)
<1>1. CASE Passive
  BY <1>1 DEF Passive, TimePasses, LoopCancels, RefuseQuery, Read, Tick, CancelQuietly,
              SubmitRefused, ListRequests, GetRequest, allVars, vars
<1>2. CASE CloseBegins \/ CloseReturns \/ TearDown
  BY <1>2 DEF CloseBegins, CloseReturns, TearDown, ListRequests, vars
<1>3. CASE \E i \in Ids : TimerFires(i) \/ CloseCancels(i)
  BY <1>3 DEF TimerFires, CloseCancels, Cancel, vars
<1> QED BY <1>1, <1>2, <1>3, StepKinds, ThreadSubmitsNothing, TaskSubmitsNothing

-----------------------------------------------------------------------------
(* Phases, the connection *)

LEMMA TaskPhases ==
  ASSUME RuntimeInv, NEW i \in Ids, TaskStep(i)
  PROVE  Phases'
<1> USE TaskSubmitsNothing DEF RuntimeInv, Phases, RuntimeTypeOK
<1>1. CASE StartTask(i) \/ FailUnscheduled(i) \/ TaskDropped(i)
  BY <1>1 DEF StartTask, FailUnscheduled, TaskDropped
<1>2. CASE WakeOnExpiry(i) \/ TaskCancelled(i)
  BY <1>2 DEF WakeOnExpiry, TaskCancelled
<1>3. CASE WorkFailed(i) \/ StopTimer(i) \/ PublishResult(i)
  BY <1>3 DEF WorkFailed, StopTimer, PublishResult, Returned
<1> QED BY <1>1, <1>2, <1>3 DEF TaskStep

\* A thread that has not begun or has ended takes no step.
LEMMA ThreadPhases ==
  ASSUME RuntimeInv, NEW i \in Ids, WorkerStep(i)
  PROVE  Phases' /\ OneConnection'
<1> USE ThreadSubmitsNothing
    DEF RuntimeInv, Phases, OneConnection, RuntimeTypeOK, At, Goto, OnLoopUnchanged, Holding
<1>0. \A j \in Ids : j # None
  BY BrokerAssumption DEF Ids, None
<1>1. CASE Acquire(i) \/ Connect(i)
  <2>1. Phases'
    BY <1>1 DEF Acquire, Connect
  <2>2. OneConnection'
    <3>1. CASE Acquire(i)
      <4>1. CASE active = None
        BY <1>0, <3>1, <4>1 DEF Acquire
      <4>2. CASE active # None
        BY <3>1, <4>2 DEF Acquire
      <4> QED BY <4>1, <4>2
    <3>2. CASE Connect(i)
      BY <3>2 DEF Connect
    <3> QED BY <1>1, <3>1, <3>2
  <2> QED BY <2>1, <2>2
<1>2. CASE Register(i) \/ Execute(i) \/ Release(i)
  <2>1. Phases'
    BY <1>2 DEF Register, Execute, Release
  <2>2. OneConnection'
    BY <1>2 DEF Register, Execute, Release
  <2> QED BY <2>1, <2>2
<1>3. CASE Close(i) \/ Unlock(i)
  <2>1. Phases'
    BY <1>3 DEF Close, Unlock
  <2>2. OneConnection'
    <3>1. CASE Close(i)
      BY <3>1 DEF Close
    <3>2. CASE Unlock(i)
      BY <1>0, <3>2 DEF Unlock
    <3> QED BY <1>3, <3>1, <3>2
  <2> QED BY <2>1, <2>2
<1>4. CASE WorkerCancels(i)
  BY <1>4 DEF WorkerCancels, runtimeVars
<1> QED BY <1>1, <1>2, <1>3, <1>4 DEF WorkerStep

LEMMA NextPhases ==
  ASSUME RuntimeInv, [RuntimeNext]_allVars
  PROVE  Phases'
<1> USE DEF RuntimeInv, Phases, RuntimeTypeOK
<1>1. CASE Passive \/ \E i \in Ids : TimerFires(i) \/ CloseCancels(i)
  <2>1. submitted' = submitted
    BY <1>1, OnlySubmitAdmits
       DEF SubmitQuery, SubmitUnscheduled, Passive, TimePasses, LoopCancels, RefuseQuery,
           Read, Tick, CancelQuietly, SubmitRefused, ListRequests, GetRequest, allVars, vars,
           TimerFires, CloseCancels, Cancel
  <2>2. UNCHANGED <<forced, task, worker, result>>
    BY <1>1, PassiveUnchanged DEF TimerFires, CloseCancels, runtimeVars
  <2> QED BY <2>1, <2>2
<1>2. ASSUME NEW ttl \in Nat, SubmitQuery(ttl) \/ SubmitUnscheduled(ttl) PROVE Phases'
  <2>1. \A i \in Ids : i \in Int /\ submitted \in Int
    BY BrokerAssumption DEF BrokerInv, TypeOK, Ids
  <2>2. submitted' = submitted + 1 /\ UNCHANGED <<forced, worker, result>>
    BY <1>2 DEF SubmitQuery, SubmitUnscheduled, Submit
  <2>3. \A i \in Ids : i # submitted + 1 => task'[i] = task[i]
    BY <1>2 DEF SubmitQuery, SubmitUnscheduled
  <2>4. \A i \in Ids : i = submitted + 1 => task'[i] \in {"scheduled", "unscheduled"}
    BY <1>2 DEF SubmitQuery, SubmitUnscheduled
  <2>5. ASSUME NEW i \in Ids, i = submitted + 1
        PROVE  task[i] = "none" /\ worker[i] = "none"
    BY <2>1, <2>5
  <2> QED BY <2>1, <2>2, <2>3, <2>4, <2>5
<1>3. CASE CloseBegins \/ CloseReturns \/ TearDown
  <2>1. UNCHANGED <<submitted, task, worker, result>>
    BY <1>3 DEF CloseBegins, CloseReturns, TearDown, ListRequests, vars
  <2>2. forced => forced'
    BY <1>3 DEF CloseBegins, CloseReturns, TearDown
  <2> QED BY <2>1, <2>2
<1> QED BY <1>1, <1>2, <1>3, StepKinds, TaskPhases, ThreadPhases

\* Only a thread's own steps take or leave the connection.
LEMMA NextOneConnection ==
  ASSUME RuntimeInv, [RuntimeNext]_allVars
  PROVE  OneConnection'
<1>1. CASE \E i \in Ids : TaskStep(i)
  <2> PICK i \in Ids : TaskStep(i)
    BY <1>1
  <2>1. CASE StartTask(i)
    BY <2>1 DEF StartTask, OneConnection, Holding, RuntimeInv, Phases, RuntimeTypeOK
  <2>2. CASE ~ StartTask(i)
    BY <2>2 DEF TaskStep, FailUnscheduled, WakeOnExpiry, WorkFailed, StopTimer,
                PublishResult, TaskCancelled, TaskDropped, OneConnection, RuntimeInv
  <2> QED BY <2>1, <2>2
<1>2. CASE ~ \E i \in Ids : TaskStep(i) \/ WorkerStep(i)
  <2>1. UNCHANGED <<worker, active>>
    BY <1>2, StepKinds, PassiveUnchanged
       DEF SubmitQuery, SubmitUnscheduled, CloseBegins, CloseReturns, TearDown, TimerFires,
           CloseCancels, runtimeVars
  <2> QED BY <2>1 DEF OneConnection, RuntimeInv
<1> QED BY <1>1, <1>2, ThreadPhases

-----------------------------------------------------------------------------
(* Shutdown *)

\* A request becomes pending only when it is admitted.
LEMMA PendingStays ==
  ASSUME BrokerInv, [Next]_vars, submitted' = submitted,
         NEW j \in Ids, records'[j].status = "pending"
  PROVE  records[j].status = "pending"
<1>1. CASE Looked
  BY <1>1, ExpireFacts DEF Looked, LookUpStep, BrokerInv, TypeOK
<1>2. CASE Updated
  BY <1>2 DEF Updated, UpdateStep, BrokerInv, TypeOK
<1>3. CASE Cancelled
  BY <1>3 DEF Cancelled, UpdateStep, Withdrawn, BrokerInv, TypeOK, Record
<1>4. CASE Admission
  BY <1>4 DEF Admission, AdmitStep, BrokerInv, TypeOK
<1> QED BY <1>1, <1>2, <1>3, <1>4, StepCases DEF BrokerInv

LEMMA CancelledIsNotPending ==
  ASSUME BrokerInv, NEW t \in Threads, NEW i \in Ids, Cancel(t, i)
  PROVE  records'[i].status # "pending"
<1>1. Expire(records[i]) \in Record /\ LookedUp(i)[i] = Expire(records[i])
  BY LockedSectionTypes DEF BrokerInv
<1>2. CASE Expire(records[i]).status \in Live
  <2> DEFINE r == [Expire(records[i]) EXCEPT !.status = "cancelled", !.source = None,
                                             !.cursor = None]
  <2>1. r.status = "cancelled"
    BY <1>1 DEF Record
  <2>2. records' = [records EXCEPT ![i] = r]
    BY <1>2 DEF Cancel, Locked
  <2> HIDE DEF r
  <2> QED BY <2>1, <2>2 DEF BrokerInv, TypeOK
<1>3. CASE Expire(records[i]).status \notin Live
  BY <1>1, <1>3 DEF Cancel, Locked, Live
<1> QED BY <1>2, <1>3

LEMMA NextCloseListsPending ==
  ASSUME RuntimeInv, [RuntimeNext]_allVars
  PROVE  CloseListsPending'
<1> USE DEF RuntimeInv, CloseListsPending
<1>1. ASSUME submitted' = submitted, NEW j \in Ids, records'[j].status = "pending"
      PROVE  records[j].status = "pending"
  BY <1>1, PendingStays, RuntimeUsesBroker
<1>2. ASSUME NEW i \in Ids, TaskStep(i)
      PROVE  UNCHANGED <<mode, toClose, submitted>> /\ mode # "closed"
  <2>1. UNCHANGED <<mode, toClose, submitted>>
    BY <1>2, TaskSubmitsNothing
       DEF TaskStep, FailUnscheduled, StartTask, WakeOnExpiry, WorkFailed, StopTimer,
           PublishResult, TaskCancelled, TaskDropped
  <2>2. task[i] \notin {"none", "done"}
    BY <1>2 DEF TaskStep, FailUnscheduled, StartTask, WakeOnExpiry, WorkFailed, StopTimer,
                PublishResult, TaskCancelled, TaskDropped, Returned
  <2> QED BY <2>1, <2>2
<1>3. CASE \E i \in Ids : TaskStep(i)
  BY <1>1, <1>2, <1>3
<1>4. CASE Passive \/ \E i \in Ids : WorkerStep(i) \/ TimerFires(i)
  <2>1. UNCHANGED <<mode, toClose, task>>
    BY <1>4, PassiveUnchanged
       DEF WorkerStep, Acquire, Connect, Register, Execute, Release, Close, Unlock,
           WorkerCancels, OnLoopUnchanged, TimerFires, runtimeVars
  <2>2. CASE submitted' = submitted
    BY <1>1, <2>1, <2>2
  <2>3. CASE submitted' # submitted
    BY <2>1, <2>3, OnlySubmitAdmits DEF SubmitQuery, SubmitUnscheduled
  <2> QED BY <2>2, <2>3
<1>5. CASE \E ttl \in Nat : SubmitQuery(ttl) \/ SubmitUnscheduled(ttl)
  BY <1>5 DEF SubmitQuery, SubmitUnscheduled
<1>6. CASE CloseBegins
  BY <1>6 DEF CloseBegins, ListRequests, Locked, WithStatus
<1>7. CASE CloseReturns \/ TearDown
  BY <1>7 DEF CloseReturns, TearDown, Serving, LoopFree, vars
<1>8. ASSUME NEW i \in Ids, CloseCancels(i) PROVE CloseListsPending'
  <2>1. mode = "closing" /\ UNCHANGED <<mode, task, submitted>> /\ toClose' = toClose \ {i}
    BY <1>8 DEF CloseCancels, Cancel
  <2>2. records'[i].status # "pending"
    BY <1>8, CancelledIsNotPending, ThreadsAndHandles DEF CloseCancels
  <2> QED BY <1>1, <2>1, <2>2
<1> QED BY <1>3, <1>4, <1>5, <1>6, <1>7, <1>8, StepKinds

-----------------------------------------------------------------------------
(* Publication *)

\* No record but that of a published request becomes complete.
LEMMA NothingElseCompletes ==
  ASSUME BrokerInv, NEW j \in Ids, StepBut(j), records'[j].status = "complete"
  PROVE  records'[j] = records[j]
<1> USE DEF BrokerInv
<1>1. CASE Tick \/ UNCHANGED vars \/ \E t \in Threads : CancelQuietly(t)
  BY <1>1 DEF Tick, vars, CancelQuietly
<1>2. Expire(records[j]).status = "complete" => Expire(records[j]) = records[j]
  BY DEF Expire
<1>3. ASSUME NEW t \in Threads, NEW drop, NEW i \in Ids, Locked(t, LookedUp(i), drop)
      PROVE  records'[j] = records[j]
  BY <1>2, <1>3, LockedSectionTypes DEF Locked
<1>4. ASSUME NEW t \in Threads, NEW drop, NEW i \in Ids, NEW r, r.status # "complete",
             Locked(t, [records EXCEPT ![i] = r], drop)
      PROVE  records'[j] = records[j]
  BY <1>4 DEF Locked, TypeOK
<1>5. ASSUME NEW t \in Threads, NEW i \in Ids,
             \/ \E c \in Cursors : RegisterCursor(t, i, c) \/ ReleaseCursor(t, i, c)
             \/ Fail(t, i) \/ Cancel(t, i) \/ GetRequest(t, i)
      PROVE  records'[j] = records[j]
  <2> DEFINE r == Expire(records[i])
  <2>1. r \in Record
    BY LockedSectionTypes
  <2>2. ASSUME NEW c \in Cursors \cup {None}, r.status = "pending"
        PROVE  [r EXCEPT !.cursor = c].status # "complete"
    BY <2>1, <2>2 DEF Record
  <2>3. /\ [r EXCEPT !.status = "failed", !.cursor = None].status # "complete"
        /\ [r EXCEPT !.status = "cancelled", !.source = None,
                     !.cursor = None].status # "complete"
    BY <2>1 DEF Record
  <2> HIDE DEF r
  <2>4. CASE \E c \in Cursors : RegisterCursor(t, i, c)
    <3> PICK c \in Cursors : RegisterCursor(t, i, c)
      BY <2>4
    <3> QED BY <1>3, <1>4, <2>2 DEF RegisterCursor, r
  <2>5. CASE \E c \in Cursors : ReleaseCursor(t, i, c)
    BY <1>3, <1>4, <2>2, <2>5 DEF ReleaseCursor, r
  <2>6. CASE Fail(t, i)
    BY <1>3, <1>4, <2>3, <2>6 DEF Fail, r
  <2>7. CASE Cancel(t, i)
    BY <1>3, <1>4, <2>3, <2>7 DEF Cancel, r
  <2>8. CASE GetRequest(t, i)
    BY <1>3, <2>8 DEF GetRequest
  <2> QED BY <1>5, <2>4, <2>5, <2>6, <2>7, <2>8
<1>6. ASSUME NEW t \in Threads, NEW i \in Ids \ {j}, NEW s \in Sources, Publish(t, i, s)
      PROVE  records'[j] = records[j]
  <2>1. ASSUME NEW r, NEW drop, Locked(t, [records EXCEPT ![i] = r], drop)
        PROVE  records'[j] = records[j]
    BY <2>1 DEF Locked, TypeOK
  <2> QED BY <1>3, <1>6, <2>1 DEF Publish
<1>7. ASSUME NEW t \in Threads, SubmitRefused(t) \/ ListRequests(t)
      PROVE  records'[j] = records[j]
  BY <1>2, <1>7 DEF SubmitRefused, ListRequests, Locked, Refreshed
<1>8. ASSUME NEW t \in Threads, NEW ttl \in Nat, Submit(t, ttl)
      PROVE  records'[j] = records[j]
  <2>1. records' = Admitted(ttl) /\ submitted < MaxSubmissions
    BY <1>8 DEF Submit, Locked
  <2>2. j # submitted + 1
    BY <2>1, AdmittedFacts
  <2>3. records'[j] = RoomMade(Refreshed)[j]
    BY <2>1, <2>2, AdmittedFacts
  <2>4. records'[j] = Refreshed[j]
    BY <2>3, RoomMadeFacts DEF NoRecord
  <2> QED BY <1>2, <2>4 DEF Refreshed
<1>9. \A ttl \in 1 .. MaxTTL + 1 : ttl \in Nat
  BY BrokerAssumption
<1> QED BY <1>1, <1>5, <1>6, <1>7, <1>8, <1>9 DEF StepBut, CallBut

LEMMA PublishResultPublished ==
  ASSUME RuntimeInv, NEW i \in Ids, PublishResult(i)
  PROVE  PublishedAfterCleanup'
<1> USE DEF RuntimeInv
<1>1. /\ worker[i] = "finished" /\ result[i] = "source" /\ task[i] # "done"
      /\ worker' = worker /\ result' = result
      /\ task' = [task EXCEPT ![i] = "done"]
  BY DEF PublishResult, Returned, Phases
<1>2. task'[i] = "done" /\ \A j \in Ids \ {i} : task'[j] = task[j]
  BY <1>1 DEF RuntimeTypeOK
<1>3. records[i].status # "complete"
  BY <1>1 DEF PublishedAfterCleanup
<1>4. Expire(records[i]) \in Record /\ LookedUp(i)[i] = Expire(records[i])
      /\ \A j \in Ids \ {i} : LookedUp(i)[j] = records[j]
  BY LockedSectionTypes DEF BrokerInv
<1>5. \A j \in Ids \ {i} : records'[j] = records[j]
  BY <1>4 DEF PublishResult, Publish, Locked, BrokerInv, TypeOK
<1>6. records'[i].status = "complete" => records'[i].source = i
  <2> DEFINE r == [Expire(records[i]) EXCEPT !.status = "complete", !.source = i,
                                             !.cursor = None]
  <2>1. r.source = i
    BY <1>4 DEF Record
  <2>2. CASE records' = [records EXCEPT ![i] = r]
    <3> HIDE DEF r
    <3> QED BY <2>1, <2>2 DEF BrokerInv, TypeOK
  <2>3. CASE records' = LookedUp(i)
    BY <1>3, <1>4, <2>3, ExpireFacts DEF Live, BrokerInv, TypeOK
  <2> QED BY <2>2, <2>3 DEF PublishResult, Publish, Locked
<1> QED BY <1>1, <1>2, <1>5, <1>6 DEF PublishedAfterCleanup

LEMMA NextPublished ==
  ASSUME RuntimeInv, [RuntimeNext]_allVars
  PROVE  PublishedAfterCleanup'
<1> USE DEF RuntimeInv
<1>1. CASE \E i \in Ids : PublishResult(i)
  BY <1>1, PublishResultPublished
<1>2. CASE ~ \E i \in Ids : PublishResult(i)
  <2>1. ASSUME NEW j \in Ids, records'[j].status = "complete"
        PROVE  records'[j] = records[j]
    BY <1>2, <2>1, RuntimeCalls, NothingElseCompletes
  <2>2. ASSUME NEW j \in Ids, task[j] = "done", worker[j] = "finished"
        PROVE  task'[j] = "done" /\ worker'[j] = "finished" /\ result'[j] = result[j]
    <3>1. CASE \E i \in Ids : WorkerStep(i)
      <4> PICK i \in Ids : WorkerStep(i)
        BY <3>1
      <4>1. task' = task
        BY DEF WorkerStep, Acquire, Connect, Register, Execute, Release, Close, Unlock,
               WorkerCancels, OnLoopUnchanged, runtimeVars
      <4>2. worker'[j] = "finished" /\ result'[j] = result[j]
        BY <2>2 DEF WorkerStep, Acquire, Connect, Register, Execute, Release, Close, Unlock,
               WorkerCancels, At, Goto, runtimeVars, RuntimeTypeOK
      <4> QED BY <2>2, <4>1, <4>2
    <3>2. CASE \E i \in Ids : TaskStep(i)
      BY <2>2, <3>2
         DEF TaskStep, FailUnscheduled, StartTask, WakeOnExpiry, WorkFailed, StopTimer,
             PublishResult, TaskCancelled, TaskDropped, RuntimeTypeOK, Returned
    <3>3. CASE \E ttl \in Nat : SubmitQuery(ttl) \/ SubmitUnscheduled(ttl)
      <4>1. \A i \in Ids : i \in Int /\ submitted \in Int
        BY BrokerAssumption DEF BrokerInv, TypeOK, Ids
      <4>2. j # submitted + 1
        BY <2>2, <4>1 DEF Phases
      <4> QED BY <2>2, <3>3, <4>2 DEF SubmitQuery, SubmitUnscheduled, RuntimeTypeOK
    <3>4. CASE \/ Passive \/ CloseBegins \/ CloseReturns \/ TearDown
               \/ \E i \in Ids : TimerFires(i) \/ CloseCancels(i)
      BY <2>2, <3>4, PassiveUnchanged
         DEF CloseBegins, CloseReturns, TearDown, TimerFires, CloseCancels, runtimeVars
    <3> QED BY <3>1, <3>2, <3>3, <3>4, StepKinds
  <2> QED BY <2>1, <2>2 DEF PublishedAfterCleanup
<1> QED BY <1>1, <1>2

-----------------------------------------------------------------------------
(* No orphaned query *)

\* A cursor once taken stays taken until it is cancelled.
LEMMA AskedStays ==
  ASSUME BrokerInv, [Next]_vars, NEW i \in Ids, Asked(i)
  PROVE  Asked(i)'
<1> USE DEF Asked, BrokerInv, TypeOK
<1>1. CASE Tick \/ UNCHANGED vars
  BY <1>1 DEF Tick, vars
<1>2. ASSUME NEW t \in Threads, CancelQuietly(t) PROVE Asked(i)'
  BY <1>2 DEF CancelQuietly
<1>3. ASSUME NEW t \in Threads, NEW recs, NEW drop, Locked(t, recs, drop) PROVE Asked(i)'
  BY <1>3 DEF Locked, Idle
<1>4. ASSUME NEW t \in Threads, Call(t) PROVE Asked(i)'
  <2>1. CASE (\E ttl \in 1 .. MaxTTL + 1 : Submit(t, ttl)) \/ SubmitRefused(t)
               \/ ListRequests(t)
    BY <1>3, <2>1 DEF Submit, SubmitRefused, ListRequests
  <2>2. CASE \E j \in Ids : GetRequest(t, j) \/ Fail(t, j) \/ Cancel(t, j)
    BY <1>3, <2>2 DEF GetRequest, Fail, Cancel
  <2>3. CASE \E j \in Ids, c \in Cursors : RegisterCursor(t, j, c) \/ ReleaseCursor(t, j, c)
    BY <1>3, <2>3 DEF RegisterCursor, ReleaseCursor
  <2>4. CASE \E j \in Ids, s \in Sources : Publish(t, j, s)
    BY <1>3, <2>4 DEF Publish
  <2> QED BY <1>4, <2>1, <2>2, <2>3, <2>4 DEF Call
<1> QED BY <1>1, <1>2, <1>4 DEF Next

\* While its query runs, a request keeps its cursor or loses it to a canceller.
LEMMA ExecutingKeepsCursor ==
  ASSUME RuntimeInv, [RuntimeNext]_allVars, NEW i \in Ids,
         worker[i] = "executing", records[i].cursor # None
  PROVE  Kept(i) \/ Taken(i)
<1> USE DEF RuntimeInv
<1>1. ~ PublishResult(i)
  BY DEF PublishResult, Returned, Phases
<1>2. ASSUME UNCHANGED records PROVE Kept(i)
  BY <1>2 DEF Kept, BrokerInv, HandlesFollowStatus
<1>3. ASSUME NEW j \in Ids, WorkerStep(j) PROVE Kept(i) \/ Taken(i)
  <2>1. CASE UNCHANGED records
    BY <1>2, <2>1
  <2>2. CASE Register(j)
    BY <2>2, EndHandsOver, ThreadsAndHandles DEF Register
  <2>3. CASE Release(j)
    <3>1. i # j
      BY <2>3 DEF Release, At
    <3> QED BY <2>3, <3>1, UseHandsOver, ThreadsAndHandles DEF Release
  <2> QED BY <1>3, <2>1, <2>2, <2>3
          DEF WorkerStep, Acquire, Connect, Execute, Close, Unlock, WorkerCancels,
              CancelQuietly, vars
<1>4. ASSUME NEW j \in Ids, TaskStep(j) PROVE Kept(i) \/ Taken(i)
  <2>1. CASE UNCHANGED records
    BY <1>2, <2>1
  <2>2. CASE GetRequest(Loop, j) \/ Fail(Loop, j)
    BY <2>2, EndHandsOver, ThreadsAndHandles
  <2>3. CASE Publish(Loop, j, j) /\ i # j
    BY <2>3, UseHandsOver, ThreadsAndHandles
  <2> QED BY <1>1, <1>4, <2>1, <2>2, <2>3
          DEF TaskStep, FailUnscheduled, StartTask, WakeOnExpiry, WorkFailed, StopTimer,
              PublishResult, TaskCancelled, TaskDropped, vars
<1>5. CASE \E ttl \in Nat : SubmitQuery(ttl) \/ SubmitUnscheduled(ttl)
  BY <1>5, AdmissionHandsOver, ThreadsAndHandles DEF SubmitQuery, SubmitUnscheduled
<1>6. CASE Passive
  <2>1. CASE UNCHANGED records
    BY <1>2, <2>1
  <2>2. CASE SubmitRefused(Loop) \/ ListRequests(Loop)
    BY <2>2, ListHandsOver, ThreadsAndHandles
  <2>3. CASE \E j \in Ids : GetRequest(Loop, j)
    BY <2>3, EndHandsOver, ThreadsAndHandles
  <2> QED BY <1>6, <2>1, <2>2, <2>3
          DEF Passive, TimePasses, LoopCancels, RefuseQuery, Read, Tick, CancelQuietly,
              allVars, vars
<1>7. CASE CloseBegins \/ CloseReturns \/ TearDown
  BY <1>2, <1>7, ListHandsOver, ThreadsAndHandles DEF CloseBegins, CloseReturns, TearDown, vars
<1>8. CASE \E j \in Ids : TimerFires(j) \/ CloseCancels(j)
  BY <1>2, <1>8, EndHandsOver, ThreadsAndHandles DEF TimerFires, CloseCancels, vars
<1> QED BY <1>3, <1>4, <1>5, <1>6, <1>7, <1>8, StepKinds

\* A worker that registers its cursor executes only with the cursor attached.
LEMMA RegisterAttaches ==
  ASSUME RuntimeInv, NEW i \in Ids, Register(i), worker'[i] = "executing"
  PROVE  Asked(i)' \/ (records'[i].status = "pending" /\ records'[i].cursor = i)
<1> USE DEF RuntimeInv, BrokerInv, TypeOK
<1> DEFINE r == Expire(records[i])
<1>1. records'[i].status = "pending" /\ RegisterCursor(i, i, i)
  BY DEF Register, Goto, RuntimeTypeOK
<1>2. CASE r.status = "pending" /\ r.cursor = None
  <2>1. r \in Record
    BY LockedSectionTypes
  <2>2. records' = [records EXCEPT ![i] = [r EXCEPT !.cursor = i]]
    BY <1>1, <1>2 DEF RegisterCursor, Locked
  <2>3. records'[i].cursor = i
    BY <2>1, <2>2 DEF Record
  <2> QED BY <1>1, <2>3
<1>3. CASE ~ (r.status = "pending" /\ r.cursor = None)
  <2>1. toCancel' = [toCancel EXCEPT ![i] = ExpiredCursors({i}) \cup {i}]
    BY <1>1, <1>3 DEF RegisterCursor, Locked
  <2>2. i \in toCancel'[i] /\ i \in Threads
    BY <2>1, ThreadsAndHandles
  <2> QED BY <2>2 DEF Asked
<1> QED BY <1>2, <1>3

LEMMA NextNoOrphan ==
  ASSUME RuntimeInv, [RuntimeNext]_allVars
  PROVE  NoOrphanedQuery'
<1> SUFFICES ASSUME NEW i \in Ids, worker'[i] = "executing"
             PROVE  Asked(i)' \/ (records'[i].status = "pending" /\ records'[i].cursor = i)
  BY DEF NoOrphanedQuery, Asked
<1> USE DEF RuntimeInv
<1>1. CASE worker[i] = "executing" /\ Asked(i)
  BY <1>1, AskedStays, RuntimeUsesBroker
<1>2. CASE worker[i] = "executing" /\ ~ Asked(i)
  <2>1. records[i].cursor = i /\ records[i].cursor # None
    BY <1>2, BrokerAssumption DEF NoOrphanedQuery, Ids, None
  <2>2. Kept(i) \/ Taken(i)
    BY <1>2, <2>1, ExecutingKeepsCursor
  <2> QED BY <2>1, <2>2 DEF Kept, Taken, Asked
<1>3. CASE worker[i] # "executing"
  <2>1. Register(i)
    <3>1. CASE \E j \in Ids : WorkerStep(j)
      BY <1>3, <3>1
         DEF WorkerStep, Acquire, Connect, Register, Execute, Release, Close, Unlock,
             WorkerCancels, Goto, RuntimeTypeOK, runtimeVars
    <3>2. CASE \E j \in Ids : TaskStep(j)
      BY <1>3, <3>2
         DEF TaskStep, FailUnscheduled, StartTask, WakeOnExpiry, WorkFailed, StopTimer,
             PublishResult, TaskCancelled, TaskDropped, RuntimeTypeOK
    <3>3. CASE ~ \E j \in Ids : TaskStep(j) \/ WorkerStep(j)
      BY <1>3, <3>3, StepKinds, PassiveUnchanged
         DEF SubmitQuery, SubmitUnscheduled, CloseBegins, CloseReturns, TearDown,
             TimerFires, CloseCancels, runtimeVars
    <3> QED BY <3>1, <3>2, <3>3
  <2> QED BY <2>1, RegisterAttaches
<1> QED BY <1>1, <1>2, <1>3

-----------------------------------------------------------------------------
(* The theorems *)

LEMMA InitRuntimeInv == RuntimeInit => RuntimeInv
<1> SUFFICES ASSUME RuntimeInit PROVE RuntimeInv
  OBVIOUS
<1>1. RuntimeTypeOK /\ BrokerInv
  BY InitRuntimeTypes, InitBrokerInv DEF RuntimeInit
<1>2. Phases /\ CloseListsPending
  BY DEF RuntimeInit, Phases, CloseListsPending
<1>3. OneConnection
  BY BrokerAssumption DEF RuntimeInit, OneConnection, Holding, Ids, None
<1>4. PublishedAfterCleanup /\ NoOrphanedQuery
  BY DEF RuntimeInit, Init, NoRecord, PublishedAfterCleanup, NoOrphanedQuery
<1> QED BY <1>1, <1>2, <1>3, <1>4 DEF RuntimeInv

LEMMA NextRuntimeInv == RuntimeInv /\ [RuntimeNext]_allVars => RuntimeInv'
<1> SUFFICES ASSUME RuntimeInv, [RuntimeNext]_allVars PROVE RuntimeInv'
  OBVIOUS
<1>1. RuntimeTypeOK' /\ BrokerInv'
  BY NextRuntimeTypes, NextBrokerInv, RuntimeUsesBroker DEF RuntimeInv
<1>2. Phases' /\ OneConnection' /\ CloseListsPending'
  BY NextPhases, NextOneConnection, NextCloseListsPending
<1>3. PublishedAfterCleanup' /\ NoOrphanedQuery'
  BY NextPublished, NextNoOrphan
<1> QED BY <1>1, <1>2, <1>3 DEF RuntimeInv

LEMMA RuntimeInvariant == RuntimeSafety => []RuntimeInv
BY InitRuntimeInv, NextRuntimeInv, PTL DEF RuntimeSafety

\* However many requests are submitted, expire or are cancelled, no query runs on
\* with its request ended and nobody to stop it.
THEOREM NoQueryIsOrphaned == RuntimeSafety => []NoOrphanedQuery
<1>1. RuntimeInv => NoOrphanedQuery
  BY DEF RuntimeInv
<1> QED BY <1>1, RuntimeInvariant, PTL

\* However many requests are admitted, one worker at a time has a connection.
THEOREM OnlyOneConnection == RuntimeSafety => []OneConnection
<1>1. RuntimeInv => OneConnection
  BY DEF RuntimeInv
<1> QED BY <1>1, RuntimeInvariant, PTL

\* A result is published only after its worker has cleaned up without an error.
THEOREM PublicationFollowsCleanup == RuntimeSafety => []PublishedAfterCleanup
<1>1. RuntimeInv => PublishedAfterCleanup
  BY DEF RuntimeInv
<1> QED BY <1>1, RuntimeInvariant, PTL

\* When close() is over no request is pending and no query runs that has not been
\* told to stop; unless the exit was forced, no thread runs at all.
THEOREM CloseIsQuiet == RuntimeSafety => []ClosedMeansQuiet
<1>1. RuntimeInv => ClosedMeansQuiet
  <2> SUFFICES ASSUME RuntimeInv, mode = "closed", NEW i \in Ids
               PROVE  /\ records[i].status # "pending"
                      /\ worker[i] = "executing" => Asked(i)
                      /\ ~ forced => worker[i] \in {"none", "finished"}
    BY DEF ClosedMeansQuiet
  <2>1. toClose = {} /\ task[i] \in {"none", "done"}
    BY DEF RuntimeInv, CloseListsPending
  <2>2. records[i].status # "pending"
    BY <2>1 DEF RuntimeInv, CloseListsPending
  <2>3. worker[i] = "executing" => Asked(i)
    BY <2>2 DEF RuntimeInv, NoOrphanedQuery
  <2>4. ~ forced => worker[i] \in {"none", "finished"}
    BY <2>1 DEF RuntimeInv, Phases
  <2> QED BY <2>2, <2>3, <2>4
<1> QED BY <1>1, RuntimeInvariant, PTL
=============================================================================
