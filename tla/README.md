# Snowglobe in TLA+

Snowglobe lets an agent submit governed read queries to Snowflake without ever
seeing a row: the agent gets a receipt, the analyst opens the result in a local
viewer, and everything is forgotten after a few minutes.  These modules model the
part of it that is hard to test: threads, event loops, clocks, cancellations, shutdown,
a stream that may break anywhere, and a page that creates and destroys workers.

All paths below are relative to the repository root (`src/snowglobe/...` for the
service, `apps/viewer/src/...` for the viewer, `integrations/pi/extensions/...`).

## 1. Inventory

| Component | State | Operations | Talks to |
|---|---|---|---|
| Request broker, `broker.py` | the records (status, expiry, source, cursor) behind one lock | submit, register/release cursor, publish, fail, cancel, list, get, open_source; lazy expiry and eviction in each | called by everybody; calls `cursor.cancel()` after releasing the lock |
| Background executor, `executor.py` | task set, `_closed` | submit, one `_run` task per request with its expiry task, close | broker, the admitted work |
| Snowflake worker, `snowflake_executor.py`, `snowflake.py` | the `_active` lock, a connection and cursor per query | authorize, connect, register, execute, fetch, release, close | executor (as a thread), broker, the connector |
| SQL policy, `sql_policy.py` | none | authorize: relations, row cap, the same again for the text it renders | Snowflake worker |
| Arrow admission, `arrow_stream.py` | row, byte and cell totals of one result | admit, finish, ipc_chunks | Snowflake worker, result API |
| Result API, `result_api.py` | none beyond the generator of a stream | list, open, stream | broker, viewer |
| Control plane, receipts, MCP gateway, `control.py`, `contracts.py`, `mcp_gateway.py` | none | submit, status | executor, broker, CLI |
| Command line client, `cli.py`; Pi extension, `process.ts`, `contracts.ts`, `index.ts` | one child process per call | submit, status | MCP gateway over HTTP |
| Stream parser and ingestion, `result-stream.ts`, `arrow-ingest.ts`, `result-api.ts` | buffer, totals, provisional table | push, finish, insert, publish | result API, DuckDB |
| Database worker, `duckdb.worker.ts` | database, connection, active load, shutdown flag | initialize, load, viewport, destroy | its client by messages, DuckDB |
| Worker client, `worker.ts` | failed, pending replies | load, viewport, destroy | component, worker |
| Component, `App.svelte` | current worker, its state, load, viewport, request list | mount, open, close, retry, find, unmount | worker client, result API |
| Local server and runtime, `local_server.py`, `runtime.py`, `mvp_limits.py` | none | compose, shut down | all of the above |
| Configuration, preflight, keys | none after start-up | read and validate | Snowflake worker |

What is hard: expiry is lazy and measured by another clock than the expiry task's;
drivers are cancelled outside the lock that decided to cancel them; a request ends
while its thread is between two driver calls; shutdown cancels what is listed and waits
for what is running, and a forced exit leaves it running; the stream is re-checked between chunks while the request may go
at any time; ingestion runs beside the reading; a worker's handlers interleave at every
`await`; replies of a worker arrive after it has been replaced.  `PROJECT.json`
lists each hazard at its line with the properties that watch it.

What makes each component correct, in a sentence:

- broker: an ended request never comes back, holds no handle, and leaves no query
  unasked to stop; capacities hold; only the oldest ended record is ever evicted;
- executor and worker: no query runs unattended, one connection at a time, a result is
  complete only after its connection is closed, everything settles, `close()` ends;
- policy and admission: only governed text is executed, and a published result is all
  that was asked for, within every limit, and can be streamed;
- stream: the viewer shows the whole confirmed result or nothing;
- viewer: no worker is forgotten, no late reply is shown, every load settles, the
  request list comes to agree with the broker;
- agent: a definite receipt is true whatever failed on the way, every call settles.

## 2. Modules

| Module | Models | About |
|---|---|---|
| `RequestLifecycle` | abstract | statuses of requests, what may follow what, capacities |
| `Broker` | `broker.py` | one action per locked section of each method |
| `GovernedQuery` | abstract | `RequestLifecycle` and the queries beside it |
| `QueryRuntime` | `executor.py`, `snowflake_executor.py`, `snowflake.py`, shutdown | extends `Broker`: the loop's tasks and the threads are its callers |
| `SqlPolicy` | `sql_policy.py` | which statements are authorized, and in which form |
| `ResultAdmission` | `snowflake_executor.py`, `arrow_stream.py` | extends `SqlPolicy`: one statement until its result may be opened, and its serialization |
| `WholeResult` | abstract | all or nothing, after confirmation |
| `ResultStream` | `result_api.py` stream, `arrow_stream.py` chunks, `result-stream.ts`, `arrow-ingest.ts`, the worker's load | one result from source to table |
| `ViewerSession` | `App.svelte`, `worker.ts`, `duckdb.worker.ts` | one page and its workers |
| `RequestList` | `App.svelte`, `result-api.ts`, `result_api.py` | the list a page shows of the broker's requests |
| `AgentCall` | `process.ts`, `index.ts`, `contracts.ts`, `cli.py`, `mcp_gateway.py`, `control.py`, `contracts.py` | a tool call out to the broker and back |
| `BrokerProofs`, `QueryRuntimeProofs`, `GovernedProofs`, `AdmissionProofs`, `StreamProofs`, `ViewerProofs`, `RequestListProofs`, `AgentProofs` | | theorems |
| `MC...` | | instances for TLC |

### Broker

A method's locked section is one action, including the expiry every lookup performs.
The cursors the section takes from records are put into `toCancel[t]` of the calling
thread and cancelled by `CancelQuietly`, one step each, after the lock is released:
that is where other threads run in between.  `submit` is `Submit` or `SubmitRefused`
(refusing still expires); `_make_room` is `RoomMade`.  The wall clock is `now`, moved
by `Tick`.  A request id is its position in the order of submission, because ids are
random and never reused and the records dict keeps insertion order.

### QueryRuntime

The event loop is one thread.  What it does between two awaits is one action; it is
blocked (`LoopFree`) while it cancels cursors, while `close()` goes through its list,
and while `submit` takes back a record whose task it could not create.  `_run` is the
counter `task[i]` with its expiry task `timer[i]`; `_execute` is `worker[i]`.  Each
driver call may fail.  The worker registers its cursor, executes, releases the cursor,
closes cursor and connection, and gives up the lock, each a step.  `TimerSkew` says
how many ticks too early a sleep may end by the wall clock.

`close()` is `CloseBegins`, `CloseCancels` and `CloseReturns`.  `TearDown` is a forced exit,
at any time before `close()` is over: it cancels every task, and each ends before its first step
(`TaskDropped`) or at its await (`TaskCancelled`), or publishes if it is cancelled where
`CancelledError` is suppressed; their threads run on.  The lifespan's task is cancelled with
the others, and its `finally` runs `close()` all the same (`CloseAfterTearDown`), between any
two of them: it lists and cancels what is still pending, the requests of dropped tasks
included, gathers tasks that have been cancelled already, and is over while their threads
may still run.  A `close()` that is itself cancelled in `gather` waits for the tasks too, and
ends by raising; `mode = "closed"` stands for both ends.

### SqlPolicy and ResultAdmission

A statement is a record of what the policy asks of SQLGlot's reading of a text: whether it
is one query, whether it has a row source the policy does not know, its tables, its limit.
`Validated` is `_validate`, `Capped` is `_apply_row_cap`, and `Authorizes` is the whole of
`authorize`, which validates and caps the rendered text again.  `Reread` is what SQLGlot
makes of its own rendering: a query with INTO becomes a statement that is none.  A
percentage and ties are replaced by the cap, so a result of them is complete only
when the view itself has no more rows than may be shown, and that is what `Asked` says.

`ResultAdmission` follows one statement.  `view` holds the end offset of each row in the
column's buffer, which is also how `_maximum_cell_bytes` finds the size of a cell.  The
connector delivers the answer in tables of any size (`Admit`), or none at all (`Begin` with
`yields` false, where the empty result is recovered from the metadata), may raise at
any point (`FetchFails`), and may change the schema (`same`).  Each batch is counted before
it is retained, and any failure drops all of it (`Failed`).  `Finish` publishes.
`SendBatch`, `SendEnd` and `Abandon` are `ipc_chunks`, with the second count of the
bytes.  The serialized sizes (one for the schema, two and the data for a batch, one for the
end) stand for Arrow's; what matters is that both counts use the same.

An iteration of the connector that ends early without an error cannot be told from a
complete one by this code, and is left out.

### ResultStream

A byte is a record of its role; the 23 bytes of magic and the 9 of a header are
abstracted to two each.  `_framed_stream` is `Open`, `SendChunk`, `SendComplete`; each
looks the request up first.  The connection delivers pieces of any size (`Read(n)`) and
may break at any byte (`Break`).  `Pushed` is the parser's `push`.  `Insert` is the write
to the transform stream, `Ingest` and `IngestionEnds` are the ingestion beside it, and
`Publish` is the renaming of the pending table.  Assumed of the platform: a stream
whose reader has failed refuses further writes.  One IPC chunk is taken for one batch.

### ViewerSession

`page` holds the component's variables, `client[w]` those of one `startDatabaseWorker`
call, `host[w]` those of the worker.  An action of the page is one task of its event loop
together with the promise reactions that follow at once, so that the rejection of a load
and the replacement of its worker (`LoadRejected`) belong to the task that caused them.
In the worker a handler runs from one await to the next; `job` is where initialize,
load, viewport or their `catch` is, `shutdown` where destroy is, and the two interleave.
The second load of one worker, and the `abort` message it sends, are left out because the
component never asks for one.  Assumed of the browser: terminating a worker ends
its nested workers and discards its messages, and a closed worker runs nothing.

### RequestList

`fetches` holds the list and lookup calls under way; `Serve` takes the snapshot, `Break` is
every other end (connection, backend, a body that `parseRequest` refuses), and `Arrive` is
the rest of `refreshRequests` or `findRequest` when the promise settles.  Between the three
the broker moves on, for which `RequestLifecycle` stands.  `crossed` is a history: which
kinds of answer were shown since this one was taken.  Cancellation is left out, because
only the shutdown of the service cancels.  The page stays mounted.

### AgentCall

A call passes through `extension` (`runProcess` in the agent's process), `child` (the
command line client), `request` and `reply` (the HTTP exchange), and the broker, for which
`RequestLifecycle` stands: `BrokerMoves` is everybody else, workers and other clients
included.  `Stop` is the timeout and the abort; between it and `Dies` the child goes on,
and the service goes on whatever happens to the child.  `Outcome` is what `close` and
`execute` make of the end of the child.  `ask.long` marks a receipt of more than 4096
bytes, which is possible because an accepted receipt repeats the governed SQL.
The identifier of a rejected receipt is fresh, so it is that of no request (`None`).
`admitted` and `seen` are histories for the properties.

## 3. Runs

| Run | Instance | Shows |
|---|---|---|
| `broker` | 2 threads, 3 submissions, 2 pending, room for 2 records, clock to 3, lifetime up to 2 | handles, capacities, eviction, cancellation; `Broker` implements `RequestLifecycle` |
| `runtime_safety` | 3 submissions, 2 pending, clock to 1 | no orphaned query, one connection, publication after cleanup, after `close()` nothing pending, nothing running untold, and no thread unless the exit was forced; implements `GovernedQuery` |
| `runtime_liveness` | 2 submissions, 1 pending, room for 1 | every request settles, `close()` ends, and after a forced exit also begins |
| `runtime_hang` | as above, `execute` need not return, clock to 3, skew 0 | expiry stops a hung query |
| `runtime_early_timer` | the same, skew 1 | **violated**: see below |
| `result_stream` | every result of at most 5 chunks and 5 bytes | whole or nothing, parser and server agree, loads end |
| `result_admission` | 2 rows to show, views of up to 4, 3 tables, limits of 2, 3 and 8 bytes | governed execution, complete publication, agreement of the two byte counts, writers closed |
| `viewer_session` | 3 workers | no worker forgotten, "ready" means usable, closed without an engine, late replies dropped; loads settle; stopped workers give up their engine and end, but for one deadlock |
| `request_list` | 3 requests, 1 pending, 2 remembered, 2 calls under way | a row goes back only where a refresh and a lookup cross; the list catches up |
| `viewer_unmount` | 2 workers | **violated**: see below |
| `agent_call` | 1 call, 3 requests, 1 pending, 2 remembered | receipts say what is so, polls report what was so, calls settle |
| `agent_rejected` | the same | **violated**: see below |

Why the bounds suffice: with room for two records a third submission must evict;
with two pending requests and three submissions the runtime meets the lock held
by a request that has already ended, which needs two workers, and a third that finds
both ended; a lifetime of two ticks is capped from three and may be shortened to one.
Five chunks of one byte make the longest protocol for a limit of five bytes, which is
where the parser's buffer limit is tight.  Three workers are a workspace, the one that
replaces it after a failure or a close, and the replacement of a replacement.  For admission,
every limit is in some instance the only one that refuses a result, and in another met
exactly; a view of four rows is one more than the cap of three lets through.  Three requests
with room for two make the broker forget one the page still shows; the two calls are
as many as the page's flags allow.  One
tool call is enough because calls meet only in the broker, where the other clients fill
the pending slot, end requests and have them evicted.  In `ViewerSession` an operation that would create one more worker is not taken at the bound.
`MaxSubmissions`, `MaxRequestIds` and `MaxTime` cap counters the code does not have; `MaxCount`, `MaxRelations`, `MaxViewRows`, `MaxViewBytes` and `MaxTables` cap the statements and results considered.

`CHECK_DEADLOCK FALSE` except in the `agent` runs: a system at rest with all requests ended, the clock at
its bound and nobody asking for more does stop.

### Fairness

- `RuntimeSpec`: the loop runs ready tasks, and a thread's driver calls return, because
  `mvp_limits.py` sets login (30 s), network (60 s), socket (15 s) and statement (60 s)
  timeouts.  Nobody has to submit, read or close, but the `finally` of a cancelled
  lifespan runs.
- `HangingSpec`: time passes and the loop runs, threads need not.
- `ResultStream!Spec`: server, load and ingestion go on; nobody has to revoke or break.
- `ViewerSession!Spec`: tasks are run, and a request to a running engine settles.  Nothing is
  assumed of a request to an engine that has ended: `terminate()` ends the engine's worker
  and settles nothing.  `duckdb.worker.ts` can deadlock there.  When destroy arrives while
  the `catch` is closing the connection, both close it; the `catch` ends the engine and
  returns silently (line 143), and the destroy handler may wait for its own `close()` for
  ever, so that "destroyed" is never said and the worker never terminated.
  `StoppedWorkersEnd` names this state (`Stranded`) and says that it is the only way in which a
  stopped worker is left behind, and that even there the engine, which holds the rows, is
  gone for good.  With `Stranded` struck out of it the property fails, by that trace.
- `RequestList!Spec`: the timer goes on firing, answers that have come are taken, and
  a refresh that is asked for again and again is not failed for ever (strong fairness of
  `Serve`).  Nothing is assumed of lookups.  `fetch` has no timeout, so a local service that
  accepts a list call and never answers would hold the list back for ever; it is excluded.
- `AgentCall!Spec`: the extension's timer fires, a child that is told to stop ends (SIGTERM,
  then SIGKILL after a second), and an ended child's pipes close.  Neither the client nor
  the service has to make progress.  The closing of the pipes is an assumption: `uv` runs
  the client as a process of its own, and one that outlived `uv` would keep them open.

### Three disagreements

- **The expiry task looks once** (`runtime_early_timer`).  ADR 0011 keeps an
  application-owned expiry task to cancel a running cursor.  It sleeps by the loop's
  monotonic clock and then does one lookup by the wall clock.  If the wall clock is
  behind, the lookup expires nothing and no other follows: a hung query is
  stopped only when somebody lists or asks for the request.
- **Unmounting during a load starts a worker** (`viewer_unmount`).  The developer guide
  says that unmounting destroys the worker and that a fresh one is created so that
  another request can be opened.  The cleanup rejects the pending load, whose `catch`
  calls `startWorkspace` on a page that is gone.

- **A rejected receipt may belong to a running query** (`agent_rejected`).  ADR 0021 says
  that nothing was admitted for a rejected submission.  A connection lost after the
  admission, a timeout, an abort, or an accepted receipt that is too long is answered with
  `rejected`, `SERVICE_UNAVAILABLE` and a fresh identifier, while the request is pending and
  its identifier is known to nobody but the viewer.  `DefiniteReceipts` is what does hold:
  `accepted`, `POLICY_REJECTED` and `INVALID_REQUEST` can be relied on.

## 4. Proofs

`BrokerProofs` proves, for every value of the constants under `BrokerAssumption`:

- `BrokerTypes`, `BrokerHandles`, `BrokerCapacity`: the invariants of the broker.  The
  inductive invariant is `BrokerInv`: these three and `NotYetSubmitted`, which says that
  ids beyond `submitted` have no record.  Capacity needs it because the count after a
  submission is that of the records before, less the evicted one, plus a record that was
  not there.
- `BrokerCancels`: the action property that a step which ends a request with a cursor
  leaves that cursor with a thread that must cancel it.
- `BrokerSparesTheLive`: the action property that a record leaves the broker only when a
  request is submitted at the capacity, and is then the oldest that has ended or is due.
- `BrokerImplementsLifecycle`: initial states map to initial states, and each action to
  a step or a stutter of `RequestLifecycle`.

`QueryRuntimeProofs` first shows that every step of the runtime is a step of the broker
or leaves it alone (`RuntimeImplementsBroker`), so the broker's theorems carry over, and
then proves `RuntimeTypes`, `NoQueryIsOrphaned`, `OnlyOneConnection`,
`PublicationFollowsCleanup` and `CloseIsQuiet` (which covers the forced exit: what still
executes then has been told to stop, by `NoOrphanedQuery`, because nothing is pending) from one inductive invariant
`RuntimeInv`: types, `BrokerInv`, `Phases` (how a request's task, worker and result
stand to each other), `OneConnection`, `CloseListsPending` (once `close()` has begun, what
is pending is still on its list, and nothing is added), `PublishedAfterCleanup` and
`NoOrphanedQuery`.  None of the stated invariants is inductive alone: that a
published result is cleaned up needs that a task publishes only from a finished thread,
and that is `Phases`.

`GovernedProofs` proves `RuntimeGovernsQueries`: the runtime implements `GovernedQuery`.
Its invariant `QueryInv` adds three facts to `RuntimeInv`: `OutcomesFollow` (a thread
has left an outcome exactly when it has come that far), `OwnCursors` (the only cursor a record
holds is the request's own) and `UnknownCursors` (a cursor that its thread has not yet
registered is in no record and with nobody who cancels it).  Without the last two, a step that
cancels a cursor could not be told to stop the query it belongs to.

`AdmissionProofs` proves all five invariants of `ResultAdmission`, under `PolicyAssumption`
and `AdmissionAssumption` (the limits are positive, as `ArrowAdmissionLimits` and
`from_view_names` require): `AdmissionTypes`, `OnlyTheGovernedIsExecuted`,
`PublishedResultsAreComplete`, `AdmittedResultsAreStreamable`, `WritersAreNotLeaked`.  The
inductive invariant `AdmissionInv` has, beside the types,

- `RowsInv`: the rows counted are those of the admitted batches, which lie end to end, and
  with the rows left they are the answer's; that an answer of at most `MaxRows` rows is all that was
  asked for is `AnsweredFacts`, where the cap of one row more is needed;
- `CountsInv`: some function gives what the first `k` batches come to, the admission's count
  is its last value with schema and end, and the stream's count its value at the next batch.
  A count of the stream is then never beyond the admission's.  The function is kept by an
  existential quantifier, so that nothing need be said of how the sums are computed;
- `EarlyInv` and `WriterInv`: what is not there yet, and which phase may hold a writer open.

`StreamProofs` proves, for results of any number of chunks and bytes within the limits and
every way of cutting them: `StreamTypes`, `TheServerIsAccepted`, `PublishedIsWhole`, and the
refinement `StreamsWholeResults`.  `Stream(s)` is all the bytes the server would ever send of
a result `s`, `Start(s, k)` where its `k`-th frame begins, and `Piece(s, a, b)` the bytes from
`a` to `b`.  The inductive invariant `StreamInv` says

- `UnderWay`: there are numbers `c` and `d <= r` such that the parser stands behind the `c`-th
  chunk, at byte `d`, and has been given the bytes up to `r` (`ParserAt`: its buffer is
  `Piece(s, d, r)`, its count the first `c` lengths); what is on the wire goes on from `r`
  to where the server stands, or was lost (`InFlight`); and table, queue and `todo`
  together are the first `c` chunks (`Delivered`);
- `Phases`: what is empty, and what the parser has seen, in each phase of the load.

`PushedFacts` is the lemma the rest turns on: the parser at `d`, given any further piece of the
stream, stands at the last frame that is then whole, has taken its chunks, and has
refused nothing.  The buffer limit enters there: a whole stream is never longer than
magic, completion frame and three bytes for each byte of data.  Publication then follows
because a parser that has seen the completion frame has seen everything before it.

The model's loops (`Sums`, `ReadFrames`) are recursive functions, so the proofs first
establish that such functions exist, and go by induction on the least number of a
set (`LeastNumber`).

`ViewerProofs` proves `ViewerTypes`, `NoWorkerIsForgotten`, `ReadyIsUsable`,
`ClosedWorkersHaveNoEngine` and `LateRepliesDropped` for any number of workers.  The
inductive invariant `ViewerInv` has, beside the types and `NoWorkerForgotten`,

- `Numbered` and `CurrentWorker`: workers are started one after another and those beyond the
  last are untouched; a mounted page has a worker, and says so when that one has failed;
- `OneLoad`, `OneRequest` and `ReadyForOne`: what may be in a mailbox or under way in a worker at
  once.  That the page says ready is an effect of messages sent some steps before, so the
  invariant has to say which messages, replies and jobs are possible in each state
  of page and client; this also bounds the mailboxes;
- `Gone` and `EngineEnded`: nothing is left of a terminated worker, and the engine has ended
  as soon as either of the interleaved handlers terminates it, or the worker is closed.

`AgentProofs` proves `AgentTypes`, `ReceiptsAreDefinite` and `PollsAreTrue` for any number of
calls at once.  The invariant `AgentInv` says of each call how far it may have come
(`Begun`, `Answered`), what is so when a submission has been answered at any of the
stations (`SubmissionDefinite`), and that a status on its way was the request's while the call
ran (`PollTrue`).  Both properties speak of what the agent has read at last; the invariant
says it of the reply, the child's output and the result alike.

`RequestListProofs` proves `RequestListTypes` and `RowsGoBackOnlyByCrossing`, for any number of
requests and bound of calls.  The invariant `ListInv` says that every row, shown or on its way,
was so once (`WasSo`), that there is one call of a kind (`OneOfAKind`), and what
an answer that no other has crossed is worth (`Later`): of every request shown it has a status
as late, and a list lacks only what the broker has forgotten.  `WhereFacts` says what
filtering keeps.  The model filters by the recursive function `Where`, because `SelectSeq`
takes an operator and the provers know nothing of it.

With these, every safety invariant and action property of the passing runs, and every
refinement, is stated by a theorem.  Only model-checked: liveness, and everything that
rests on fairness, because the provers know no `ENABLED`; and the three disagreements,
which are counterexamples.

The theorems rest on the named assumptions of the modules alone.  They say that limits and
bounds are natural numbers, positive where the code requires it, and
`RuntimeAssumption` that the broker's callers are the loop and one thread to a request.

## 5. Not modelled

Configuration, preflight and key loading (start-up only, no state afterwards), the
conversion of rows to strings, SQLGlot's reading and rendering of SQL, which row sources
the policy knows (one alternative stands for those it refuses), the three parts of a
view's name (one, with its case), and malformed calls to the gateway.  The reasons are in
`PROJECT.json`.

A percentage or ties in a limit are replaced by the row cap (`sql_policy.py:139-141`).  The
superseded ADR 0010 rejected them; the model follows the code.

## 6. Plan

1. Done: `Broker`, `QueryRuntime`, `SqlPolicy`, `ResultAdmission`, `ResultStream`,
   `ViewerSession`, `RequestList`, `AgentCall`, and the proofs above.
2. Proofs left: no safety property is without a theorem.  Worth stating next are what the
   invariants say beyond the properties, such as that every row shown was once so (`WasSo`).
