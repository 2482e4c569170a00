---------------------------- MODULE QueryRuntime ----------------------------
(***************************************************************************)
(* One runtime: the broker, the BackgroundQueryExecutor's task per request *)
(* (src/snowglobe/executor.py) and the worker thread that runs the query   *)
(* over one Snowflake connection (snowflake_executor.py, snowflake.py).    *)
(*                                                                         *)
(* Two kinds of threads run.  The event loop, thread Loop, runs every      *)
(* request handler, every task and the shutdown, one step between two      *)
(* awaits at a time, and is blocked while it cancels cursors.  Each        *)
(* admitted request i has a worker thread, thread i, whose every driver    *)
(* call and every broker call is a step of its own.                        *)
(*                                                                         *)
(* Request i's worker opens the one cursor i and returns the one source i. *)
(***************************************************************************)
EXTENDS Broker

CONSTANT TimerSkew  \* how many ticks early a sleep can end by the broker's clock

Loop == 0

ASSUME RuntimeAssumption ==
  /\ Threads = {Loop} \cup Ids
  /\ Cursors = Ids
  /\ Sources = Ids
  /\ TimerSkew \in Nat

VARIABLES
  mode,       \* the service: open, close() under way, or close() over
  forced,     \* whether a forced exit has cancelled every task of the loop
  toClose,    \* close(): the pending requests it has listed and not yet cancelled
  task,       \* _run's program counter, per request
  timer,      \* _run's expiry_task
  worker,     \* _execute's program counter, per request
  result,     \* what _execute returns: "source" or "error"
  active      \* the request holding the admission's _active lock, or None

runtimeVars == <<mode, forced, toClose, task, timer, worker, result, active>>
allVars == <<vars, runtimeVars>>

\* Worker program counters between the lock's acquisition and its release.
Holding == {"connecting", "registering", "executing", "releasing", "closing", "unlocking"}

RuntimeTypeOK ==
  /\ TypeOK
  /\ mode \in {"open", "closing", "closed"}
  /\ forced \in BOOLEAN
  /\ toClose \subseteq Ids
  /\ task \in [Ids -> {"none", "unscheduled", "scheduled", "waiting", "awaiting",
                    "publishing", "done"}]
  /\ timer \in [Ids -> {"none", "armed", "fired", "cancelled"}]
  /\ worker \in [Ids -> {"none", "queued", "finished"} \cup Holding]
  /\ result \in [Ids -> {"none", "source", "error"}]
  /\ active \in Ids \cup {None}

RuntimeInit ==
  /\ Init
  /\ mode = "open"
  /\ forced = FALSE
  /\ toClose = {}
  /\ task = [i \in Ids |-> "none"]
  /\ timer = [i \in Ids |-> "none"]
  /\ worker = [i \in Ids |-> "none"]
  /\ result = [i \in Ids |-> "none"]
  /\ active = None

-----------------------------------------------------------------------------
(* The event loop *)

\* The loop runs a step only when its last one is over: nothing left to cancel, no
\* close() half way through its list, no submit() with a record to take back.
LoopFree ==
  /\ toCancel[Loop] = {}
  /\ toClose = {}
  /\ \A i \in Ids : task[i] # "unscheduled"

\* It runs handlers, timers and tasks until a forced exit.
Serving == LoopFree /\ mode \in {"open", "closing"} /\ ~ forced

\* submit: admission, record and task in one step.
SubmitQuery(ttl) ==
  /\ Serving
  /\ mode = "open"
  /\ Submit(Loop, ttl)
  /\ task' = [task EXCEPT ![submitted + 1] = "scheduled"]
  /\ UNCHANGED <<mode, forced, toClose, timer, worker, result, active>>

\* submit, when the loop cannot create the task ...
SubmitUnscheduled(ttl) ==
  /\ Serving
  /\ mode = "open"
  /\ Submit(Loop, ttl)
  /\ task' = [task EXCEPT ![submitted + 1] = "unscheduled"]
  /\ UNCHANGED <<mode, forced, toClose, timer, worker, result, active>>

\* ... the record it has admitted is failed.
FailUnscheduled(i) ==
  /\ task[i] = "unscheduled"
  /\ Fail(Loop, i)
  /\ task' = [task EXCEPT ![i] = "done"]
  /\ UNCHANGED <<mode, forced, toClose, timer, worker, result, active>>

RefuseQuery ==
  /\ Serving
  /\ mode = "open"
  /\ SubmitRefused(Loop)
  /\ UNCHANGED runtimeVars

\* The viewer's routes and the MCP status tool; each lookup expires what is due.
Read ==
  /\ Serving
  /\ \/ ListRequests(Loop)
     \/ \E i \in Ids : GetRequest(Loop, i)
  /\ UNCHANGED runtimeVars

\* _run up to its wait: the work goes to a thread, the expiry task sleeps.
StartTask(i) ==
  /\ Serving
  /\ task[i] = "scheduled"
  /\ task' = [task EXCEPT ![i] = "waiting"]
  /\ timer' = [timer EXCEPT ![i] = "armed"]
  /\ worker' = [worker EXCEPT ![i] = "queued"]
  /\ UNCHANGED <<vars, mode, forced, toClose, result, active>>

\* The sleep ends.  It is measured by the loop's monotonic clock and expires_at by
\* the wall clock, which may lag behind it.  (A forgotten record's expires is 0:
\* that sleep may end at any time, and finds nothing to expire.)
TimerFires(i) ==
  /\ Serving
  /\ timer[i] = "armed"
  /\ now + TimerSkew >= records[i].expires
  /\ timer' = [timer EXCEPT ![i] = "fired"]
  /\ UNCHANGED <<vars, mode, forced, toClose, task, worker, result, active>>

\* Mutant: the end of the sleep is not followed by a lookup.
WakeWithoutLookup(i) ==
  /\ Serving
  /\ task[i] = "waiting"
  /\ timer[i] = "fired"
  /\ task' = [task EXCEPT ![i] = "awaiting"]
  /\ UNCHANGED <<vars, mode, forced, toClose, timer, worker, result, active>>

\* wait() returns because the sleep ended first: one lookup expires the request,
\* and the task goes on waiting for the work.
WakeOnExpiry(i) ==
  /\ Serving
  /\ task[i] = "waiting"
  /\ timer[i] = "fired"
  /\ GetRequest(Loop, i)
  /\ task' = [task EXCEPT ![i] = "awaiting"]
  /\ UNCHANGED <<mode, forced, toClose, timer, worker, result, active>>

\* Mutant: once the sleep has ended the task no longer listens to the work.
ReturnedBeforeExpiry(i, outcome) ==
  /\ task[i] = "waiting"
  /\ worker[i] = "finished"
  /\ result[i] = outcome

\* Mutant: the work's outcome is handed over before its cleanup.
ReturnedBeforeCleanup(i, outcome) ==
  /\ task[i] \in {"waiting", "awaiting"}
  /\ worker[i] \in {"closing", "unlocking", "finished"}
  /\ result[i] = outcome

\* The work's outcome is there for the task to use.
Returned(i, outcome) ==
  /\ task[i] \in {"waiting", "awaiting"}
  /\ worker[i] = "finished"
  /\ result[i] = outcome

\* Mutant: a failure of the work is not reported to the broker.
WorkFailedSilently(i) ==
  /\ Serving
  /\ Returned(i, "error")
  /\ task' = [task EXCEPT ![i] = "done"]
  /\ UNCHANGED <<vars, mode, forced, toClose, timer, worker, result, active>>

\* The work raised.
WorkFailed(i) ==
  /\ Serving
  /\ Returned(i, "error")
  /\ Fail(Loop, i)
  /\ task' = [task EXCEPT ![i] = "done"]
  /\ timer' = [timer EXCEPT ![i] = IF @ = "armed" THEN "cancelled" ELSE @]
  /\ UNCHANGED <<mode, forced, toClose, worker, result, active>>

\* The work returned while the expiry task sleeps: cancelling it takes an await.
StopTimer(i) ==
  /\ Serving
  /\ Returned(i, "source")
  /\ timer[i] = "armed"
  /\ timer' = [timer EXCEPT ![i] = "cancelled"]
  /\ task' = [task EXCEPT ![i] = "publishing"]
  /\ UNCHANGED <<vars, mode, forced, toClose, worker, result, active>>

\* publish; when it raises, fail raises too and is suppressed.  The await before it
\* suppresses CancelledError: a task torn down there publishes all the same.
PublishResult(i) ==
  /\ LoopFree
  /\ \/ task[i] = "publishing"
     \/ Serving /\ Returned(i, "source") /\ timer[i] = "fired"
  /\ Publish(Loop, i, i)
  /\ task' = [task EXCEPT ![i] = "done"]
  /\ UNCHANGED <<mode, forced, toClose, timer, worker, result, active>>

\* The loop's turn at the cursors its last locked section took.
LoopCancels == CancelQuietly(Loop) /\ UNCHANGED runtimeVars

-----------------------------------------------------------------------------
(* Shutdown *)

\* close() admits no more and lists the requests that are pending.  It runs in the
\* lifespan's finally, after a forced exit as after an orderly one.
CloseBegins ==
  /\ LoopFree
  /\ mode = "open"
  /\ mode' = "closing"
  /\ ListRequests(Loop)
  /\ toClose' = WithStatus(Refreshed, {"pending"})
  /\ UNCHANGED <<forced, task, timer, worker, result, active>>

\* It cancels them one by one, without an await between.
CloseCancels(i) ==
  /\ i \in toClose
  /\ Cancel(Loop, i)
  /\ toClose' = toClose \ {i}
  /\ UNCHANGED <<mode, forced, task, timer, worker, result, active>>

\* Mutant: close() returns without gathering the tasks.
CloseReturnsEarly ==
  /\ LoopFree
  /\ mode = "closing"
  /\ mode' = "closed"
  /\ UNCHANGED <<vars, forced, toClose, task, timer, worker, result, active>>

\* gather() over the tasks; none is added once the executor is closed.  Its tasks
\* may have been cancelled before it, and it may be cancelled itself: it waits for
\* the tasks all the same, and not for the threads that cancelled tasks leave.
CloseReturns ==
  /\ LoopFree
  /\ mode = "closing"
  /\ \A i \in Ids : task[i] \in {"none", "done"}
  /\ mode' = "closed"
  /\ UNCHANGED <<vars, forced, toClose, task, timer, worker, result, active>>

\* A forced exit: every task is cancelled, the lifespan's too, before close() or in it.
TearDown ==
  /\ Serving
  /\ forced' = TRUE
  /\ UNCHANGED <<vars, mode, toClose, task, timer, worker, result, active>>

\* A task cancelled at an await fails its request; its thread runs on.
TaskCancelled(i) ==
  /\ forced
  /\ LoopFree
  /\ task[i] \in {"waiting", "awaiting"}
  /\ Fail(Loop, i)
  /\ task' = [task EXCEPT ![i] = "done"]
  /\ timer' = [timer EXCEPT ![i] = IF @ = "armed" THEN "cancelled" ELSE @]
  /\ UNCHANGED <<mode, forced, toClose, worker, result, active>>

\* A task cancelled before its first step never runs: its request is left to close().
TaskDropped(i) ==
  /\ forced
  /\ LoopFree
  /\ task[i] = "scheduled"
  /\ task' = [task EXCEPT ![i] = "done"]
  /\ UNCHANGED <<vars, mode, forced, toClose, timer, worker, result, active>>

-----------------------------------------------------------------------------
(* The worker thread of request i *)

\* One step of thread i, which its driver or broker call has not blocked.
At(i, pc) == worker[i] = pc /\ toCancel[i] = {}

Goto(i, pc) == worker' = [worker EXCEPT ![i] = pc]

OnLoopUnchanged == UNCHANGED <<mode, forced, toClose, task, timer>>

\* Mutant: the thread does not try the lock.
AcquireUnchecked(i) ==
  /\ At(i, "queued")
  /\ Goto(i, "connecting")
  /\ active' = i
  /\ UNCHANGED <<vars, result>> /\ OnLoopUnchanged

\* _active.acquire(blocking=False)
Acquire(i) ==
  /\ At(i, "queued")
  /\ IF active = None
     THEN Goto(i, "connecting") /\ active' = i /\ UNCHANGED result
     ELSE Goto(i, "finished") /\ result' = [result EXCEPT ![i] = "error"]
          /\ UNCHANGED active
  /\ UNCHANGED vars /\ OnLoopUnchanged

\* request_cursor enters: connect and open the cursor, or raise.
Connect(i) ==
  /\ At(i, "connecting")
  /\ \/ Goto(i, "registering") /\ UNCHANGED result
     \/ Goto(i, "unlocking") /\ result' = [result EXCEPT ![i] = "error"]
  /\ UNCHANGED <<vars, active>> /\ OnLoopUnchanged

\* mark_started: a cursor the broker refuses never executes.
Register(i) ==
  /\ At(i, "registering")
  /\ RegisterCursor(i, i, i)
  /\ IF records'[i].status = "pending"
     THEN Goto(i, "executing") /\ UNCHANGED result
     ELSE Goto(i, "closing") /\ result' = [result EXCEPT ![i] = "error"]
  /\ UNCHANGED active /\ OnLoopUnchanged

\* The driver's execute and the admission of what it fetches: a source, or an
\* exception (a driver error, a timeout, a cancel that took, a refused batch).
Execute(i) ==
  /\ At(i, "executing")
  /\ Goto(i, "releasing")
  /\ \E outcome \in {"source", "error"} : result' = [result EXCEPT ![i] = outcome]
  /\ UNCHANGED <<vars, active>> /\ OnLoopUnchanged

\* release_cursor: from here on a cancellation finds no cursor to cancel.
Release(i) ==
  /\ At(i, "releasing")
  /\ ReleaseCursor(i, i, i)
  /\ Goto(i, "closing")
  /\ UNCHANGED <<result, active>> /\ OnLoopUnchanged

\* request_cursor leaves: cursor and connection are closed; closing may raise.
Close(i) ==
  /\ At(i, "closing")
  /\ Goto(i, "unlocking")
  /\ UNCHANGED result \/ result' = [result EXCEPT ![i] = "error"]
  /\ UNCHANGED <<vars, active>> /\ OnLoopUnchanged

\* _active.release(), whatever happened; the thread is done.
Unlock(i) ==
  /\ At(i, "unlocking")
  /\ Goto(i, "finished")
  /\ active' = None
  /\ UNCHANGED <<vars, result>> /\ OnLoopUnchanged

WorkerCancels(i) == CancelQuietly(i) /\ UNCHANGED runtimeVars

WorkerStep(i) ==
  \/ Acquire(i) \/ Connect(i) \/ Register(i) \/ Execute(i)
  \/ Release(i) \/ Close(i) \/ Unlock(i) \/ WorkerCancels(i)

TaskStep(i) ==
  \/ FailUnscheduled(i) \/ StartTask(i) \/ WakeOnExpiry(i) \/ WorkFailed(i) \/ StopTimer(i)
  \/ PublishResult(i) \/ TaskCancelled(i) \/ TaskDropped(i)

-----------------------------------------------------------------------------
TimePasses == Tick /\ UNCHANGED runtimeVars

RuntimeNext ==
  \/ TimePasses
  \/ \E ttl \in 1 .. MaxTTL + 1 : SubmitQuery(ttl) \/ SubmitUnscheduled(ttl)
  \/ RefuseQuery
  \/ Read
  \/ LoopCancels
  \/ CloseBegins
  \/ CloseReturns
  \/ TearDown
  \/ \E i \in Ids : TaskStep(i) \/ TimerFires(i) \/ CloseCancels(i) \/ WorkerStep(i)

RuntimeSafety == RuntimeInit /\ [][RuntimeNext]_allVars

\* The finally of a lifespan that was cancelled while it served.
CloseAfterTearDown == forced /\ CloseBegins

\* The loop runs what is ready; a thread's driver calls return, since connect,
\* execute and fetch have login, network and statement timeouts; cancel() returns.
\* Nobody has to submit, read, or close, unless the exit is forced.
RuntimeFairness ==
  /\ WF_allVars(LoopCancels)
  /\ WF_allVars(CloseAfterTearDown)
  /\ WF_allVars(CloseReturns)
  /\ \A i \in Ids : /\ WF_allVars(TaskStep(i))
                    /\ WF_allVars(CloseCancels(i))
                    /\ WF_allVars(WorkerStep(i))

RuntimeSpec == RuntimeSafety /\ RuntimeFairness

\* The same with a driver whose execute need not return, and with time passing.
HangingSpec ==
  /\ RuntimeSafety
  /\ WF_allVars(TimePasses)
  /\ WF_allVars(LoopCancels)
  /\ WF_allVars(CloseAfterTearDown)
  /\ \A i \in Ids : /\ WF_allVars(TimerFires(i))
                    /\ WF_allVars(TaskStep(i))
                    /\ WF_allVars(CloseCancels(i))

-----------------------------------------------------------------------------
(* Properties *)

\* Cursor i's cancel() was called, or some thread is about to call it.
Asked(i) == i \in cancelled \/ \E t \in Threads : i \in toCancel[t]

\* No query runs on unattended: while a worker executes, its request is pending
\* and can reach the cursor, or the cursor has been told to stop.
NoOrphanedQuery ==
  \A i \in Ids :
    worker[i] = "executing" =>
      Asked(i) \/ (records[i].status = "pending" /\ records[i].cursor = i)

\* One connection at a time, whatever was admitted, expired or cancelled: the
\* worker past the lock is the one that took it.
OneConnection == \A i \in Ids : worker[i] \in Holding <=> active = i

\* A result is shown only when its thread has closed cursor and connection and
\* given up the lock without an error.
PublishedAfterCleanup ==
  \A i \in Ids : records[i].status = "complete" =>
                   /\ records[i].source = i
                   /\ worker[i] = "finished" /\ result[i] = "source"
                   /\ task[i] = "done"

\* When close() is over no request is pending, and a query that still executes has
\* been told to stop.  Only a forced exit leaves any thread running at all.
ClosedMeansQuiet ==
  mode = "closed" =>
    \A i \in Ids : /\ records[i].status # "pending"
                   /\ worker[i] = "executing" => Asked(i)
                   /\ ~ forced => worker[i] \in {"none", "finished"}

\* Every admitted request is settled, however the service ends.
EveryRequestSettles ==
  \A i \in Ids : records[i].status = "pending" ~> records[i].status # "pending"

\* A query that hangs past its request's expiry is told to stop, by the expiry task
\* or by what a forced exit runs, though nobody looks the request up (of the
\* requests due in the modelled time).
ExpiryStopsTheQuery ==
  \A i \in Ids :
    worker[i] = "executing" /\ records[i].expires <= MaxTime
      ~> (worker[i] # "executing" \/ Asked(i))

\* close() ends, and after a forced exit begins and ends: no task it gathers waits
\* for ever.
CloseTerminates == mode = "closing" \/ forced ~> mode = "closed"

\* Together, broker, tasks and threads keep the promises of GovernedQuery.
QueryOf(i) ==
  IF worker[i] = "executing" THEN IF Asked(i) THEN "stopping" ELSE "running"
  ELSE IF result[i] = "none" THEN "none" ELSE "over"

Governed == INSTANCE GovernedQuery WITH
  status <- LifecycleStatus,
  query  <- [i \in Ids |-> QueryOf(i)]

ImplementsGovernedQuery == Governed!Spec
=============================================================================
