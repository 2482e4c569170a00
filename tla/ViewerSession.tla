---------------------------- MODULE ViewerSession ----------------------------
(***************************************************************************)
(* One viewer page and the database workers it creates one after another:  *)
(*   - the component (apps/viewer/src/App.svelte), which opens, closes and *)
(*     replaces workspaces;                                                *)
(*   - the client of a worker (worker.ts), which the component calls;      *)
(*   - the worker itself (duckdb.worker.ts), whose asynchronous handlers   *)
(*     interleave at every await, and its DuckDB engine.                   *)
(*                                                                         *)
(* Messages are queued both ways.  An action of the page is one task of    *)
(* its event loop with the promise reactions that follow it at once.       *)
(* What a load does inside the worker is ResultStream.                     *)
(***************************************************************************)
EXTENDS Integers, Sequences

CONSTANT MaxWorkers  \* bound: the workers one page creates

ASSUME ViewerAssumption == MaxWorkers \in Nat \ {0}

Workers == 1 .. MaxWorkers
none == 0   \* no worker

VARIABLES
  page,    \* App.svelte: the component's variables
  client,  \* startDatabaseWorker: the variables of each call, and what it posted
  host     \* duckdb.worker.ts: the variables and handlers of each, and what it posted

vars == <<page, client, host>>

-----------------------------------------------------------------------------
Page == [mounted : BOOLEAN,
         worker : Workers \cup {none},     \* the current worker
         workerState : {"starting", "ready", "failed"},
         loading : Workers \cup {none},    \* the worker a load waits for
         viewport : Workers \cup {none},   \* the worker whose rows are shown
         created : Workers]

Client == [failed : BOOLEAN,
           reply : {"none", "ack", "viewport"},  \* the one entry of replies
           terminated : BOOLEAN,
           inbox : Seq({"initialize", "load", "viewport", "destroy"})]

\* A handler in its catch or destroy: "closing" the connection, "terminating".
Host == [job : {"idle", "selecting", "instantiating", "connecting", "loading",
                "querying", "closing", "terminating", "done"},
         shutdown : {"none", "closing", "terminating", "done"},
         database : BOOLEAN, connection : BOOLEAN,
         engine : BOOLEAN,                 \* whether the engine runs
         closed : BOOLEAN,
         outbox : Seq({"ready", "ack", "viewport", "failed", "destroyed"})]

NewClient == [failed |-> FALSE, reply |-> "none", terminated |-> FALSE,
              inbox |-> <<"initialize">>]
NoClient == [NewClient EXCEPT !.failed = TRUE, !.terminated = TRUE, !.inbox = <<>>]

NewHost == [job |-> "idle", shutdown |-> "none", database |-> FALSE,
            connection |-> FALSE, engine |-> FALSE, closed |-> FALSE, outbox |-> <<>>]

ViewerTypeOK ==
  /\ page \in Page
  /\ client \in [Workers -> Client]
  /\ host \in [Workers -> Host]
  /\ \A w \in Workers : Len(client[w].inbox) <= 2 /\ Len(host[w].outbox) <= 2

\* onMount
Init ==
  /\ page = [mounted |-> TRUE, worker |-> 1, workerState |-> "starting",
             loading |-> none, viewport |-> none, created |-> 1]
  /\ client = [w \in Workers |-> IF w = 1 THEN NewClient ELSE NoClient]
  /\ host = [w \in Workers |-> NewHost]

-----------------------------------------------------------------------------
(* worker.ts: what its operations make of the page and the clients *)

State == [page |-> page, client |-> client]

Post(c, message) == [c EXCEPT !.inbox = Append(@, message)]

\* Mutant: destroy leaves the pending replies.
DestroyKeepingReplies(s, w) ==
  IF w = none THEN s
  ELSE IF s.client[w].failed THEN s
  ELSE [s EXCEPT !.client[w] = [Post(@, "destroy") EXCEPT !.failed = TRUE]]

\* Mutant: destroy forgets that it has been called.
DestroyAgain(s, w) ==
  IF w = none THEN s
  ELSE [s EXCEPT !.client[w] = [Post(@, "destroy") EXCEPT !.failed = TRUE, !.reply = "none"]]

\* destroy
Destroy(s, w) ==
  IF w = none THEN s
  ELSE IF s.client[w].failed THEN s
  ELSE [s EXCEPT !.client[w] = [Post(@, "destroy") EXCEPT !.failed = TRUE, !.reply = "none"]]

\* send: refused by a worker that has failed.
Send(s, w, message, reply) ==
  IF s.client[w].failed THEN [s EXCEPT !.client[w].reply = "none"]
  ELSE [s EXCEPT !.client[w] = [Post(@, message) EXCEPT !.reply = reply]]

\* onState, with the component's filter
Report(s, w, state) ==
  IF s.page.worker = w THEN [s EXCEPT !.page.workerState = state] ELSE s

\* Mutant: the replies stay pending.
TerminatedKeepingReplies(s, w) ==
  [s EXCEPT !.client[w] = [@ EXCEPT !.failed = TRUE, !.terminated = TRUE]]

\* What ends a worker for its client: worker.terminate, and every reply rejected.
Terminated(s, w) ==
  [s EXCEPT !.client[w] = [@ EXCEPT !.failed = TRUE, !.reply = "none", !.terminated = TRUE]]

\* Mutant: the component is not told.
FailUnreported(s, w) == IF s.client[w].failed THEN s ELSE Terminated(s, w)

\* fail
Fail(s, w) == IF s.client[w].failed THEN s ELSE Report(Terminated(s, w), w, "failed")

-----------------------------------------------------------------------------
(* App.svelte *)

\* Mutant: the worker before is forgotten.
StartForgetting(s) ==
  LET n == s.page.created + 1 IN
    [s EXCEPT !.page = [@ EXCEPT !.worker = n, !.created = n, !.workerState = "starting"],
              !.client[n] = NewClient]

StartWorkspace(s) ==
  LET n == s.page.created + 1 IN
    [Destroy(s, s.page.worker) EXCEPT
       !.page = [@ EXCEPT !.worker = n, !.created = n, !.workerState = "starting"],
       !.client[n] = NewClient]

\* The catch of loadRequest: a load whose reply was rejected.
LoadRejected(s) ==
  LET w == s.page.loading
      d == Destroy(s, w)
      gone == IF s.page.worker = w THEN [d EXCEPT !.page.worker = none] ELSE d
  IN [StartWorkspace(gone) EXCEPT !.page.loading = none]

Settled(s) ==
  IF s.page.loading = none THEN s
  ELSE IF s.client[s.page.loading].reply # "none" THEN s
  ELSE LoadRejected(s)

\* A task of the page ends in s; a worker it terminated stops, its engine with it.
Becomes(s) ==
  LET t == Settled(s) IN
    /\ page' = t.page
    /\ client' = [w \in Workers |->
         IF t.client[w].terminated THEN [t.client[w] EXCEPT !.inbox = <<>>]
         ELSE t.client[w]]

HostOf(w, h, s) ==
  IF s.client[w].terminated
  THEN [h EXCEPT !.closed = TRUE, !.engine = FALSE, !.outbox = <<>>] ELSE h

\* loadRequest, by the button of a complete request
OpenResult ==
  /\ page.mounted
  /\ page.worker # none /\ page.workerState = "ready"
  /\ page.loading = none /\ page.viewport = none
  /\ page.created < MaxWorkers
  /\ Becomes(Send([State EXCEPT !.page.loading = page.worker], page.worker, "load", "ack"))
  /\ UNCHANGED host

CloseResult ==
  /\ page.mounted
  /\ page.viewport # none
  /\ page.created < MaxWorkers
  /\ Becomes(StartWorkspace([State EXCEPT !.page.viewport = none]))
  /\ UNCHANGED host

Retry ==
  /\ page.mounted
  /\ page.workerState = "failed"
  /\ page.created < MaxWorkers
  /\ Becomes(StartWorkspace(State))
  /\ UNCHANGED host

\* The cleanup onMount returns
Unmount ==
  /\ page.mounted
  /\ Becomes([Destroy(State, page.worker) EXCEPT
                !.page = [@ EXCEPT !.mounted = FALSE, !.worker = none]])
  /\ UNCHANGED host

\* worker.onmessage: a reply that is waited for goes on with the load.
Replied(w, message) ==
  IF client[w].reply # message THEN Fail(State, w)
  ELSE IF message = "ack" THEN Send(State, w, "viewport", "viewport")
  ELSE [State EXCEPT !.client[w].reply = "none",
                     !.page = [@ EXCEPT !.viewport = w, !.loading = none]]

Received(w, message) ==
  CASE message \in {"ack", "viewport"} -> Replied(w, message)
    [] message = "destroyed" -> Terminated(State, w)
    [] message = "failed"    -> Fail(State, w)
    [] message = "ready"     -> Report(State, w, "ready")

Receive(w) ==
  /\ host[w].outbox # <<>>
  /\ LET s == Received(w, Head(host[w].outbox)) IN
       /\ Becomes(s)
       /\ host' = [host EXCEPT ![w] = HostOf(w, [host[w] EXCEPT !.outbox = Tail(@)], s)]

\* worker.onerror: an uncaught error, or a script that does not load.
WorkerError(w) ==
  /\ ~ client[w].terminated /\ ~ host[w].closed
  /\ Becomes(Fail(State, w))
  /\ host' = [host EXCEPT ![w] = HostOf(w, @, Fail(State, w))]

-----------------------------------------------------------------------------
(* duckdb.worker.ts: what its handlers make of the worker's state h *)

Reply(h, message) == [h EXCEPT !.outbox = Append(@, message)]

\* Mutant: the destroy handler, too, returns silently once destroy was requested.
FinishSilently(h, handler) ==
  IF h.shutdown # "none" THEN [h EXCEPT ![handler] = "done"]
  ELSE [Reply(h, "failed") EXCEPT !.job = "done", !.closed = TRUE]

\* The last lines of the destroy handler and of the catch.
Finish(h, handler) ==
  IF handler = "shutdown"
  THEN [Reply(h, "destroyed") EXCEPT !.shutdown = "done", !.closed = TRUE]
  ELSE IF h.shutdown # "none" THEN [h EXCEPT !.job = "done"]
  ELSE [Reply(h, "failed") EXCEPT !.job = "done", !.closed = TRUE]

\* Mutant: the connection is closed, the engine left.
CloseConnectionOnly(h, handler) == Finish([h EXCEPT !.connection = FALSE], handler)

\* destroyDatabase from its second await on, and from its start
TerminateDatabase(h, handler) ==
  IF h.database THEN [h EXCEPT ![handler] = "terminating", !.engine = FALSE]
  ELSE Finish(h, handler)

DestroyDatabase(h, handler) ==
  IF h.connection THEN [h EXCEPT ![handler] = "closing"]
  ELSE TerminateDatabase(h, handler)

\* connection.close settles.
ConnectionClosed(h, handler) ==
  TerminateDatabase([h EXCEPT !.connection = FALSE], handler)

Throw(h) == DestroyDatabase(h, "job")

\* The event loop takes a message: the handler runs to its first await.
Takes(h, message) ==
  IF message = "destroy" THEN DestroyDatabase(h, "shutdown")
  ELSE IF message = "initialize" THEN [h EXCEPT !.job = "selecting"]
  ELSE IF ~ h.connection \/ ~ h.database THEN Throw(h)
  ELSE [h EXCEPT !.job = IF message = "load" THEN "loading" ELSE "querying"]

\* Initialization was overtaken by destroy: the engine it made is terminated.
Overtaken(h) == h.shutdown # "none" \/ ~ h.database

\* The await of the job resolves.
Resolves(h) ==
  CASE h.job = "selecting" ->
         IF h.shutdown # "none" THEN [h EXCEPT !.job = "done"]
         ELSE [h EXCEPT !.job = "instantiating", !.database = TRUE, !.engine = TRUE]
    [] h.job = "instantiating" ->
         IF Overtaken(h) THEN [h EXCEPT !.job = "done", !.engine = FALSE]
         ELSE [h EXCEPT !.job = "connecting"]
    [] h.job = "connecting" ->
         IF Overtaken(h) THEN [h EXCEPT !.job = "done", !.engine = FALSE]
         ELSE Reply([h EXCEPT !.job = "idle", !.connection = TRUE], "ready")
    [] h.job = "loading"  -> Reply([h EXCEPT !.job = "idle"], "ack")
    [] h.job = "querying" -> Reply([h EXCEPT !.job = "idle"], "viewport")

Running(w) == ~ host[w].closed

Take(w) ==
  /\ Running(w)
  /\ client[w].inbox # <<>>
  /\ client' = [client EXCEPT ![w].inbox = Tail(@)]
  /\ host' = [host EXCEPT ![w] = Takes(@, Head(client[w].inbox))]
  /\ UNCHANGED page

Awaiting(w) ==
  /\ Running(w)
  /\ host[w].job \in {"selecting", "instantiating", "connecting", "loading", "querying"}

\* A request needs the engine; selecting the bundle does not.
Goes(w) ==
  /\ Awaiting(w)
  /\ host[w].job = "selecting" \/ host[w].engine
  /\ host' = [host EXCEPT ![w] = Resolves(@)]
  /\ UNCHANGED <<page, client>>

\* Any await may reject.
Rejects(w) ==
  /\ Awaiting(w)
  /\ host' = [host EXCEPT ![w] = Throw(@)]
  /\ UNCHANGED <<page, client>>

\* A step of destroyDatabase, in the catch or in the destroy handler
Destroys(w, handler) ==
  /\ Running(w)
  /\ \/ /\ host[w][handler] = "closing"
        /\ host' = [host EXCEPT ![w] = ConnectionClosed(@, handler)]
     \/ /\ host[w][handler] = "terminating"
        /\ host' = [host EXCEPT ![w] = Finish([@ EXCEPT !.database = FALSE], handler)]
  /\ UNCHANGED <<page, client>>

Analyst == OpenResult \/ CloseResult \/ Retry \/ Unmount
HostStep(w) ==
  \/ Take(w) \/ Goes(w) \/ Rejects(w)
  \/ \E handler \in {"job", "shutdown"} : Destroys(w, handler)

Next ==
  \/ Analyst
  \/ \E w \in Workers : Receive(w) \/ WorkerError(w) \/ HostStep(w)

\* Ending the engine settles nothing: what is still asked of it may never settle.
Settles(w) == host[w].engine \/ host[w].job = "selecting"

Progress(w) ==
  \/ Settles(w) /\ (Goes(w) \/ Rejects(w))
  \/ (Settles(w) \/ host[w].job = "terminating") /\ Destroys(w, "job")

ProgressOfShutdown(w) ==
  (Settles(w) \/ host[w].shutdown = "terminating") /\ Destroys(w, "shutdown")

\* Tasks are run, and awaits settle while the engine they ask runs; the analyst need
\* not do anything.
Spec ==
  /\ Init /\ [][Next]_vars
  /\ \A w \in Workers :
       /\ WF_vars(Receive(w))
       /\ WF_vars(Take(w))
       /\ WF_vars(Progress(w)) /\ WF_vars(ProgressOfShutdown(w))
-----------------------------------------------------------------------------
(* Properties *)

\* A worker that is not the page's current one has been told to stop or has been
\* terminated: no replacement, closing or failure forgets one.
NoWorkerForgotten ==
  \A w \in 1 .. page.created : w # page.worker => client[w].failed

\* The page that says "ready" has a worker that has not been told to stop: no
\* message of a worker it has replaced passes for one of the new worker.
ReadyMeansUsable ==
  page.mounted /\ page.workerState = "ready" =>
    page.worker # none /\ ~ client[page.worker].failed

\* A worker that has answered "destroyed" or "failed" and closed itself has no
\* engine left, however its catch, its initialization and its destroy handler were
\* interleaved at their awaits.
ClosedWithoutEngine == \A w \in Workers : host[w].closed => ~ host[w].engine

\* Rows appear only in a page that is there, from its current worker: a reply on its
\* way when the worker is replaced or the page unmounted is never shown.
LateRepliesAreDropped ==
  [][page'.viewport # page.viewport /\ page'.viewport # none =>
       page.mounted /\ page'.viewport = page.worker]_vars

\* A load is answered: rows are shown, or the page has a fresh workspace.
EveryLoadSettles == page.loading # none ~> page.loading = none

\* What is left of a worker whose catch has ended the engine under the destroy
\* handler's connection.close(): nothing ends it unless that request settles.
Stranded(w) == host[w].job = "done" /\ host[w].shutdown = "closing"

\* A worker that has been told to stop, or has failed, gives up its engine for good,
\* whatever awaits of its catch, its initialization and its destroy handler are
\* pending, and ends; the one way to be left behind without an engine is Stranded.
StoppedWorkersEnd ==
  \A w \in Workers :
    w <= page.created /\ client[w].failed
      ~> [](/\ ~ host[w].engine
            /\ host[w].closed \/ client[w].terminated \/ Stranded(w))

\* Once the page is unmounted it has no worker.
UnmountLeavesNoWorker == ~ page.mounted => page.worker = none
=============================================================================
