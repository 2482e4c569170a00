---------------------------- MODULE ViewerProofs ----------------------------
(***************************************************************************)
(* The viewer page, for any number of workers it creates: no worker is     *)
(* forgotten, "ready" means usable, a closed worker has no engine and late *)
(* replies are dropped.                                                    *)
(***************************************************************************)
EXTENDS ViewerSession, SequenceTheorems, TLAPS

-----------------------------------------------------------------------------
(* The invariant *)

\* Workers are numbered as they are created; a later one has done nothing.
Numbered ==
  /\ page.worker <= page.created
  /\ \A w \in Workers : w > page.created => client[w] = NoClient /\ host[w] = NewHost

\* A mounted page has a worker; when that one has failed the page says so, and a
\* worker is only ever told to stop when it is no longer the page's.
CurrentWorker ==
  /\ page.mounted => page.worker # none
  /\ page.worker # none /\ client[page.worker].failed =>
       client[page.worker].terminated /\ page.workerState = "failed"

\* A load waits for the page's worker, which is usable, and shows nothing yet.  It
\* alone waits for a reply.
OneLoad ==
  /\ page.loading # none => /\ page.mounted /\ page.loading = page.worker
                            /\ page.viewport = none /\ page.workerState = "ready"
                            /\ page.created < MaxWorkers
                            /\ ~ client[page.loading].failed
                            /\ client[page.loading].reply # "none"
  /\ \A w \in Workers : client[w].reply # "none" => w = page.loading

\* A terminated worker is gone, with its messages.
Gone(w) ==
  w <= page.created /\ client[w].terminated =>
    client[w].failed /\ client[w].inbox = <<>> /\ host[w].closed /\ host[w].outbox = <<>>

Requests == {"initialize", "load", "viewport"}
Answers == {"ready", "ack", "viewport", "failed"}
Active == {"selecting", "instantiating", "connecting", "loading", "querying",
           "closing", "terminating"}

\* A worker's request is under way: posted, worked on, or answered.
Asking(w) == \E m \in Requests : client[w].inbox \in {<<m>>, <<m, "destroy">>}
Working(w) == host[w].job \in Active
Answering(w) == \E m \in Answers : host[w].outbox \in {<<m>>, <<m, "destroyed">>}

\* It is told to stop: the message is posted, or its last one is.
Stopping(w) ==
  client[w].inbox = <<"destroy">> \/ \E m \in Requests : client[w].inbox = <<m, "destroy">>
Parting(w) ==
  host[w].outbox = <<"destroyed">> \/ \E m \in Answers : host[w].outbox = <<m, "destroyed">>

\* One request at a time, and destroy once, after it.
OneRequest(w) ==
  /\ client[w].inbox = <<>> \/ Asking(w) \/ Stopping(w)
  /\ host[w].outbox = <<>> \/ Answering(w) \/ Parting(w)
  /\ ~ (Asking(w) /\ Working(w)) /\ ~ (Asking(w) /\ Answering(w))
  /\ ~ (Working(w) /\ Answering(w))
  /\ Stopping(w) \/ host[w].shutdown # "none" => client[w].failed
  /\ Stopping(w) => host[w].shutdown = "none"
  /\ Parting(w) => host[w].closed /\ host[w].shutdown # "none"

\* The page asks a worker that says "ready" only when nothing is under way.
ReadyForOne ==
  page.worker # none /\ page.workerState = "ready" =>
    \/ client[page.worker].failed \/ client[page.worker].reply # "none"
    \/ ~ (Asking(page.worker) \/ Working(page.worker) \/ Answering(page.worker))

\* The engine lives in a database, and no longer once that is terminated.
EngineEnded(h) ==
  /\ h.engine => h.database
  /\ h.job = "terminating" \/ h.shutdown = "terminating" => ~ h.engine
  /\ h.closed => ~ h.engine

ViewerInv ==
  /\ page \in Page /\ client \in [Workers -> Client] /\ host \in [Workers -> Host]
  /\ Numbered /\ CurrentWorker /\ OneLoad /\ ReadyForOne
  /\ NoWorkerForgotten
  /\ \A w \in Workers : Gone(w) /\ OneRequest(w) /\ EngineEnded(host[w])

-----------------------------------------------------------------------------
(* Mailboxes of at most two messages *)

LEMMA WorkerNumbers ==
  ASSUME NEW p \in Page
  PROVE  /\ p.created \in Nat /\ p.worker \in Nat /\ p.loading \in Nat /\ p.created <= MaxWorkers
         /\ \A w \in 1 .. p.created : w \in Workers
         /\ \A w \in Workers : w \in Nat /\ w # none
         /\ \A w \in Workers : w <= p.created => w \in 1 .. p.created
         /\ p.worker # none => p.worker \in Workers
         /\ p.loading # none => p.loading \in Workers
BY ViewerAssumption DEF Page, Workers, none

LEMMA AppendOne == ASSUME NEW a, NEW b PROVE Append(<<a>>, b) = <<a, b>>
<1>1. /\ <<a>> \in Seq({a, b}) /\ <<a, b>> \in Seq({a, b})
      /\ Append(<<a>>, b) \in Seq({a, b})
  OBVIOUS
<1>2. Len(Append(<<a>>, b)) = 2 /\ Len(<<a, b>>) = 2
  OBVIOUS
<1>3. Append(<<a>>, b)[1] = a /\ Append(<<a>>, b)[2] = b
  OBVIOUS
<1>4. \A i \in 1 .. 2 : Append(<<a>>, b)[i] = <<a, b>>[i]
  BY <1>3
<1> QED BY <1>1, <1>2, <1>4, SeqEqual

LEMMA ShortSequences ==
  /\ \A a : Head(<<a>>) = a /\ Tail(<<a>>) = <<>> /\ Append(<<>>, a) = <<a>> /\ <<a>> # <<>>
  /\ \A a, b : /\ Head(<<a, b>>) = a /\ Tail(<<a, b>>) = <<b>> /\ Append(<<a>>, b) = <<a, b>>
               /\ <<a, b>> # <<>> /\ (<<a>> = <<b>> => a = b)
  /\ \A a, b, c : <<a>> # <<b, c>>
  /\ \A a, b, c, d : <<a, b>> = <<c, d>> => a = c /\ b = d
<1>1. \A a : Head(<<a>>) = a /\ Tail(<<a>>) = <<>> /\ Append(<<>>, a) = <<a>> /\ <<a>> # <<>>
  OBVIOUS
<1>2. \A a, b : Head(<<a, b>>) = a /\ Tail(<<a, b>>) = <<b>> /\ <<a, b>> # <<>>
  OBVIOUS
<1>3. \A a, b : <<a>> = <<b>> => a = b
  OBVIOUS
<1>4. \A a, b, c : <<a>> # <<b, c>>
  OBVIOUS
<1>5. \A a, b, c, d : <<a, b>> = <<c, d>> => a = c /\ b = d
  OBVIOUS
<1> QED BY <1>1, <1>2, <1>3, <1>4, <1>5, AppendOne

LEMMA ShortSequenceTypes ==
  ASSUME NEW S
  PROVE  /\ <<>> \in Seq(S) /\ Len(<<>>) = 0
         /\ \A a \in S : <<a>> \in Seq(S) /\ Len(<<a>>) = 1
         /\ \A a, b \in S : <<a, b>> \in Seq(S) /\ Len(<<a, b>>) = 2
OBVIOUS

-----------------------------------------------------------------------------
(* The worker's handlers *)

HostMessages == {"ready", "ack", "viewport", "failed", "destroyed"}

\* What a handler's step can make of a worker: a request is worked on, answered, or
\* forgotten after a destroy.
JobStep(h, g) ==
  /\ g \in Host /\ EngineEnded(g) /\ g.shutdown = h.shutdown
  /\ g.outbox = <<>> \/ (g.job \notin Active /\ \E m \in Answers : g.outbox = <<m>>)

\* A step of the destroy handler: the job is left alone.
ShutdownStep(h, g) ==
  /\ g \in Host /\ EngineEnded(g) /\ g.job = h.job
  /\ \/ g.shutdown \in {"closing", "terminating"} /\ g.outbox = h.outbox /\ ~ g.closed
     \/ g.shutdown = "done" /\ g.outbox = Append(h.outbox, "destroyed") /\ g.closed

LEMMA FinishSteps ==
  ASSUME NEW h \in Host, EngineEnded(h), ~ h.engine, ~ h.closed
  PROVE  /\ h.outbox = <<>> => JobStep(h, Finish(h, "job"))
         /\ ShutdownStep(h, Finish(h, "shutdown"))
<1>1. ASSUME NEW m \in HostMessages PROVE Append(h.outbox, m) \in Seq(HostMessages)
  BY DEF Host, HostMessages
<1>2. ASSUME h.outbox = <<>> PROVE JobStep(h, Finish(h, "job"))
  <2>1. CASE h.shutdown = "none"
    <3>1. Append(h.outbox, "failed") = <<"failed">> /\ <<"failed">> \in Seq(HostMessages)
      BY <1>2, ShortSequences, ShortSequenceTypes DEF HostMessages
    <3> QED BY <2>1, <3>1 DEF Finish, Reply, JobStep, Host, HostMessages, EngineEnded, Active, Answers
  <2>2. CASE h.shutdown # "none"
    BY <1>2, <2>2 DEF Finish, JobStep, Host, EngineEnded, Active
  <2> QED BY <2>1, <2>2
<1>3. ShutdownStep(h, Finish(h, "shutdown"))
  BY <1>1 DEF Finish, Reply, ShutdownStep, Host, HostMessages, EngineEnded
<1> QED BY <1>2, <1>3

LEMMA DestroyDatabaseSteps ==
  ASSUME NEW h \in Host, EngineEnded(h), ~ h.closed
  PROVE  /\ h.outbox = <<>> => /\ JobStep(h, TerminateDatabase(h, "job"))
                               /\ JobStep(h, DestroyDatabase(h, "job"))
         /\ ShutdownStep(h, TerminateDatabase(h, "shutdown"))
         /\ ShutdownStep(h, DestroyDatabase(h, "shutdown"))
<1>1. ASSUME h.database
      PROVE  /\ h.outbox = <<>> => JobStep(h, TerminateDatabase(h, "job"))
             /\ ShutdownStep(h, TerminateDatabase(h, "shutdown"))
  BY <1>1 DEF TerminateDatabase, JobStep, ShutdownStep, Host, EngineEnded
<1>2. ASSUME ~ h.database
      PROVE  /\ h.outbox = <<>> => JobStep(h, TerminateDatabase(h, "job"))
             /\ ShutdownStep(h, TerminateDatabase(h, "shutdown"))
  BY <1>2, FinishSteps DEF TerminateDatabase, EngineEnded
<1>3. ASSUME h.connection
      PROVE  /\ h.outbox = <<>> => JobStep(h, DestroyDatabase(h, "job"))
             /\ ShutdownStep(h, DestroyDatabase(h, "shutdown"))
  BY <1>3 DEF DestroyDatabase, JobStep, ShutdownStep, Host, EngineEnded
<1> QED BY <1>1, <1>2, <1>3 DEF DestroyDatabase

LEMMA DestroySteps ==
  ASSUME NEW w \in Workers, host[w] \in Host, EngineEnded(host[w]), host \in [Workers -> Host]
  PROVE  /\ Destroys(w, "job") /\ host[w].outbox = <<>> => JobStep(host[w], host'[w])
         /\ Destroys(w, "shutdown") => ShutdownStep(host[w], host'[w])
<1> DEFINE h == host[w]
           c == [h EXCEPT !.connection = FALSE]
           d == [h EXCEPT !.database = FALSE]
<1>1. /\ c \in Host /\ EngineEnded(c) /\ c.closed = h.closed /\ c.job = h.job
      /\ c.shutdown = h.shutdown /\ c.outbox = h.outbox
  BY DEF Host, EngineEnded
<1>2. ASSUME h.job = "terminating" \/ h.shutdown = "terminating"
      PROVE  /\ d \in Host /\ EngineEnded(d) /\ ~ d.engine
             /\ d.closed = h.closed /\ d.job = h.job
             /\ d.shutdown = h.shutdown /\ d.outbox = h.outbox
  BY <1>2 DEF Host, EngineEnded
<1>3. /\ \A g : JobStep(c, g) => JobStep(h, g)
      /\ \A g : ShutdownStep(c, g) => ShutdownStep(h, g)
  BY <1>1 DEF JobStep, ShutdownStep
<1>4. ASSUME h.job = "terminating" \/ h.shutdown = "terminating"
      PROVE  /\ \A g : JobStep(d, g) => JobStep(h, g)
             /\ \A g : ShutdownStep(d, g) => ShutdownStep(h, g)
  BY <1>2, <1>4 DEF JobStep, ShutdownStep
<1>5. ASSUME Destroys(w, "job"), h.outbox = <<>> PROVE JobStep(h, host'[w])
  <2>1. ~ h.closed
    BY <1>5 DEF Destroys, Running
  <2>2. \/ host'[w] = TerminateDatabase(c, "job")
        \/ h.job = "terminating" /\ host'[w] = Finish(d, "job")
    BY <1>5 DEF Destroys, ConnectionClosed
  <2> HIDE DEF h, c, d
  <2> QED BY <1>1, <1>2, <1>3, <1>4, <1>5, <2>1, <2>2, FinishSteps, DestroyDatabaseSteps
<1>6. ASSUME Destroys(w, "shutdown") PROVE ShutdownStep(h, host'[w])
  <2>1. ~ h.closed
    BY <1>6 DEF Destroys, Running
  <2>2. \/ host'[w] = TerminateDatabase(c, "shutdown")
        \/ h.shutdown = "terminating" /\ host'[w] = Finish(d, "shutdown")
    BY <1>6 DEF Destroys, ConnectionClosed
  <2> HIDE DEF h, c, d
  <2> QED BY <1>1, <1>2, <1>3, <1>4, <1>6, <2>1, <2>2, FinishSteps, DestroyDatabaseSteps
<1> QED BY <1>5, <1>6

\* A job goes on, its request answered or not; an initialization may only create an
\* engine that no destroy has asked for.
LEMMA ResolvesSteps ==
  ASSUME NEW h \in Host, EngineEnded(h), h.outbox = <<>>,
         h.job \in {"selecting", "instantiating", "connecting", "loading", "querying"},
         ~ h.closed
  PROVE  JobStep(h, Resolves(h))
<1>1. \A m \in HostMessages : Append(h.outbox, m) = <<m>> /\ <<m>> \in Seq(HostMessages)
  BY ShortSequences, ShortSequenceTypes
<1> USE DEF Host, HostMessages, JobStep, EngineEnded, Active, Answers, Overtaken
<1>2. CASE h.job = "selecting"
  BY <1>2 DEF Resolves
<1>3. CASE h.job = "instantiating"
  BY <1>3 DEF Resolves
<1>4. CASE h.job = "connecting"
  BY <1>1, <1>4 DEF Resolves, Reply
<1>5. CASE h.job = "loading"
  BY <1>1, <1>5 DEF Resolves, Reply
<1>6. CASE h.job = "querying"
  BY <1>1, <1>6 DEF Resolves, Reply
<1> QED BY <1>2, <1>3, <1>4, <1>5, <1>6

LEMMA TakesSteps ==
  ASSUME NEW h \in Host, EngineEnded(h), ~ h.closed
  PROVE  /\ h.outbox = <<>> => \A m \in Requests : JobStep(h, Takes(h, m))
         /\ ShutdownStep(h, Takes(h, "destroy"))
<1>1. ASSUME h.outbox = <<>>, NEW m \in Requests PROVE JobStep(h, Takes(h, m))
  <2>1. CASE m = "initialize" \/ (h.connection /\ h.database)
    BY <1>1, <2>1 DEF Takes, Requests, JobStep, Host, EngineEnded
  <2>2. CASE m # "initialize" /\ ~ (h.connection /\ h.database)
    BY <1>1, <2>2, DestroyDatabaseSteps DEF Takes, Requests, Throw
  <2> QED BY <2>1, <2>2
<1>2. ShutdownStep(h, Takes(h, "destroy"))
  BY DestroyDatabaseSteps DEF Takes
<1> QED BY <1>1, <1>2

-----------------------------------------------------------------------------
(* A worker's step *)

\* A step of the job: it takes its request, or goes on with it.
JobMoves(w) ==
  /\ host[w].outbox = <<>> /\ JobStep(host[w], host'[w])
  /\ \/ Working(w) /\ client'[w].inbox = client[w].inbox
     \/ Asking(w) /\ client'[w].inbox \in {<<>>, <<"destroy">>}
        /\ (client'[w].inbox # <<>> => Stopping(w))

\* A step of the destroy handler: it takes its message, or goes on.
ShutdownMoves(w) ==
  /\ ShutdownStep(host[w], host'[w])
  /\ \/ host[w].shutdown \in {"closing", "terminating"} /\ client'[w].inbox = client[w].inbox
     \/ client[w].inbox = <<"destroy">> /\ client'[w].inbox = <<>>

\* What a worker's step leaves alone.
OnlyMailbox(w) ==
  /\ page' = page
  /\ \A v \in Workers : /\ client'[v].failed = client[v].failed
                        /\ client'[v].reply = client[v].reply
                        /\ client'[v].terminated = client[v].terminated
                        /\ v # w => client'[v] = client[v] /\ host'[v] = host[v]

LEMMA HostStepMoves ==
  ASSUME ViewerInv, NEW w \in Workers, HostStep(w)
  PROVE  /\ w <= page.created /\ ~ host[w].closed
         /\ client' \in [Workers -> Client] /\ host' \in [Workers -> Host]
         /\ OnlyMailbox(w)
         /\ JobMoves(w) \/ ShutdownMoves(w)
<1> USE DEF ViewerInv
<1>1. ~ host[w].closed
  BY DEF HostStep, Take, Goes, Awaiting, Rejects, Destroys, Running
<1>2. w <= page.created
  <2>1. ASSUME w > page.created PROVE FALSE
    <3>1. client[w] = NoClient /\ host[w] = NewHost
      BY <2>1 DEF Numbered
    <3>2. client[w].inbox = <<>> /\ host[w].job = "idle" /\ host[w].shutdown = "none"
      BY <3>1 DEF NoClient, NewClient, NewHost
    <3> QED BY <3>2 DEF HostStep, Take, Goes, Awaiting, Rejects, Destroys
  <2> QED BY <2>1 DEF Page, Workers, none
<1>3. host[w] \in Host /\ EngineEnded(host[w])
  OBVIOUS
<1>4. ~ Parting(w)
  BY <1>1 DEF OneRequest
<1>5. ASSUME Working(w) \/ Asking(w) PROVE host[w].outbox = <<>>
  BY <1>4, <1>5 DEF OneRequest
<1>6. CASE Take(w)
  <2>1. /\ client[w].inbox # <<>> /\ page' = page
        /\ client' = [client EXCEPT ![w].inbox = Tail(client[w].inbox)]
        /\ host' = [host EXCEPT ![w] = Takes(host[w], Head(client[w].inbox))]
    BY <1>6 DEF Take
  <2>2. ASSUME NEW m \in Requests, client[w].inbox \in {<<m>>, <<m, "destroy">>}
        PROVE  /\ client' \in [Workers -> Client] /\ host' \in [Workers -> Host]
               /\ OnlyMailbox(w)
               /\ JobMoves(w)
    <3>1. Asking(w)
      BY <2>2 DEF Asking
    <3>2. Head(client[w].inbox) = m
      BY <2>2, ShortSequences
    <3>3. \/ Tail(client[w].inbox) = <<>>
          \/ Tail(client[w].inbox) = <<"destroy">> /\ Stopping(w)
      <4>1. CASE client[w].inbox = <<m>>
        BY <4>1, ShortSequences
      <4>2. CASE client[w].inbox = <<m, "destroy">>
        <5>1. Tail(client[w].inbox) = <<"destroy">>
          BY <4>2, ShortSequences
        <5>2. Stopping(w)
          BY <4>2 DEF Stopping
        <5> QED BY <5>1, <5>2
      <4> QED BY <2>2, <4>1, <4>2
    <3>4. JobStep(host[w], Takes(host[w], m))
      BY <1>1, <1>3, <1>5, <3>1, TakesSteps
    <3>5. Tail(client[w].inbox) \in Seq({"initialize", "load", "viewport", "destroy"})
      BY <3>3, ShortSequenceTypes
    <3>6. Takes(host[w], m) \in Host
      BY <3>4 DEF JobStep
    <3>7. client' \in [Workers -> Client] /\ host' \in [Workers -> Host]
      BY <2>1, <3>2, <3>5, <3>6 DEF Client
    <3>8. host'[w] = Takes(host[w], m) /\ client'[w].inbox = Tail(client[w].inbox)
      BY <2>1, <3>2 DEF Client
    <3>9. OnlyMailbox(w)
      BY <2>1 DEF OnlyMailbox, Client
    <3> QED BY <1>5, <3>1, <3>3, <3>4, <3>7, <3>8, <3>9 DEF JobMoves
  <2>3. ASSUME client[w].inbox = <<"destroy">>
        PROVE  /\ client' \in [Workers -> Client] /\ host' \in [Workers -> Host]
               /\ OnlyMailbox(w)
               /\ ShutdownMoves(w)
    <3>1. Head(client[w].inbox) = "destroy" /\ Tail(client[w].inbox) = <<>>
      BY <2>3, ShortSequences
    <3>2. ShutdownStep(host[w], Takes(host[w], "destroy"))
      BY <1>1, <1>3, TakesSteps
    <3>3. <<>> \in Seq({"initialize", "load", "viewport", "destroy"})
      BY ShortSequenceTypes
    <3>4. Takes(host[w], "destroy") \in Host
      BY <3>2 DEF ShutdownStep
    <3>5. client' \in [Workers -> Client] /\ host' \in [Workers -> Host]
      BY <2>1, <3>1, <3>3, <3>4 DEF Client
    <3>6. host'[w] = Takes(host[w], "destroy") /\ client'[w].inbox = <<>>
      BY <2>1, <3>1 DEF Client
    <3>7. OnlyMailbox(w)
      BY <2>1 DEF OnlyMailbox, Client
    <3> QED BY <2>3, <3>2, <3>5, <3>6, <3>7 DEF ShutdownMoves
  <2>4. Asking(w) \/ client[w].inbox = <<"destroy">>
    BY <2>1 DEF OneRequest, Asking, Stopping
  <2> QED BY <1>1, <1>2, <2>2, <2>3, <2>4 DEF Asking
<1>7. CASE ~ Take(w)
  <2>1. page' = page /\ client' = client
    BY <1>7 DEF HostStep, Goes, Rejects, Destroys
  <2>2. \A v \in Workers \ {w} : host'[v] = host[v]
    BY <1>7 DEF HostStep, Goes, Rejects, Destroys
  <2>3. OnlyMailbox(w)
    BY <2>1, <2>2 DEF OnlyMailbox
  <2>4. ASSUME Goes(w) \/ Rejects(w) \/ Destroys(w, "job") PROVE JobMoves(w)
    <3>1. Working(w)
      BY <2>4 DEF Goes, Rejects, Destroys, Awaiting, Working, Active
    <3>2. JobStep(host[w], host'[w])
      <4>1. CASE Goes(w)
        <5>1. host'[w] = Resolves(host[w])
          BY <4>1 DEF Goes
        <5> QED BY <1>1, <1>3, <1>5, <3>1, <4>1, <5>1, ResolvesSteps DEF Goes, Awaiting
      <4>2. CASE Rejects(w)
        <5>1. host'[w] = DestroyDatabase(host[w], "job")
          BY <4>2 DEF Rejects, Throw
        <5> QED BY <1>1, <1>3, <1>5, <3>1, <5>1, DestroyDatabaseSteps
      <4>3. CASE Destroys(w, "job")
        BY <1>3, <1>5, <3>1, <4>3, DestroySteps
      <4> QED BY <2>4, <4>1, <4>2, <4>3
    <3> QED BY <1>5, <2>1, <3>1, <3>2 DEF JobMoves
  <2>5. ASSUME Destroys(w, "shutdown") PROVE ShutdownMoves(w)
    <3>1. ShutdownStep(host[w], host'[w])
      BY <1>3, <2>5, DestroySteps
    <3>2. host[w].shutdown \in {"closing", "terminating"}
      BY <2>5 DEF Destroys
    <3> QED BY <2>1, <3>1, <3>2 DEF ShutdownMoves
  <2>6. JobMoves(w) \/ ShutdownMoves(w)
    BY <1>7, <2>4, <2>5 DEF HostStep
  <2>7. host'[w] \in Host
    BY <2>6 DEF JobMoves, ShutdownMoves, JobStep, ShutdownStep
  <2>8. host' \in [Workers -> Host]
    <3>1. \E g : host' = [host EXCEPT ![w] = g]
      BY <1>7 DEF HostStep, Goes, Rejects, Destroys
    <3> QED BY <2>7, <3>1
  <2> QED BY <1>1, <1>2, <2>1, <2>3, <2>6, <2>8
<1> QED BY <1>6, <1>7

\* The one request moves on, or is dropped; destroy comes once, after it.
LEMMA HostStepMailboxes ==
  ASSUME ViewerInv, NEW w \in Workers, HostStep(w)
  PROVE  /\ OneRequest(w)' /\ EngineEnded(host[w])'
         /\ (Asking(w) \/ Working(w) \/ Answering(w))' => Asking(w) \/ Working(w) \/ Answering(w)
<1> USE DEF ViewerInv
<1>1. /\ ~ host[w].closed /\ client'[w].failed = client[w].failed
      /\ JobMoves(w) \/ ShutdownMoves(w)
  BY HostStepMoves DEF OnlyMailbox
<1>2. OneRequest(w)
  OBVIOUS
<1>3. ASSUME JobMoves(w)
      PROVE  /\ OneRequest(w)' /\ EngineEnded(host[w])'
             /\ Asking(w) \/ Working(w) \/ Answering(w)
  <2>1. Asking(w) \/ Working(w)
    BY <1>3 DEF JobMoves
  <2>2. EngineEnded(host[w])' /\ host'[w].shutdown = host[w].shutdown
    BY <1>3 DEF JobMoves, JobStep, EngineEnded
  <2>3. host'[w].outbox = <<>> \/ (~ Working(w)' /\ \E m \in Answers : host'[w].outbox = <<m>>)
    BY <1>3 DEF JobMoves, JobStep, Working
  <2>4. ~ Parting(w)' /\ (host'[w].outbox = <<>> \/ Answering(w)')
        /\ (Answering(w)' => ~ Working(w)')
    <3>1. CASE host'[w].outbox = <<>>
      BY <3>1, ShortSequences DEF Parting, Answering
    <3>2. ASSUME NEW m \in Answers, host'[w].outbox = <<m>>, ~ Working(w)'
          PROVE  ~ Parting(w)' /\ Answering(w)' /\ ~ Working(w)'
      <4>1. \A n \in Answers : host'[w].outbox # <<n, "destroyed">>
        BY <3>2, ShortSequences
      <4>2. host'[w].outbox # <<"destroyed">>
        BY <3>2, ShortSequences DEF Answers
      <4> QED BY <3>2, <4>1, <4>2 DEF Parting, Answering
    <3> QED BY <2>3, <3>1, <3>2
  <2>5. ~ Asking(w)' /\ (client'[w].inbox = <<>> \/ Stopping(w)') /\ (Stopping(w)' => Stopping(w))
    <3>1. CASE Working(w) /\ client'[w].inbox = client[w].inbox
      BY <1>2, <3>1 DEF OneRequest, Asking, Stopping
    <3>2. CASE Asking(w) /\ client'[w].inbox \in {<<>>, <<"destroy">>}
               /\ (client'[w].inbox # <<>> => Stopping(w))
      <4>1. ~ Asking(w)'
        <5>1. \A m \in Requests : client'[w].inbox # <<m>>
          BY <3>2, ShortSequences DEF Requests
        <5>2. ASSUME NEW m \in Requests PROVE client'[w].inbox # <<m, "destroy">>
          <6>1. <<m, "destroy">> # <<>> /\ <<"destroy">> # <<m, "destroy">>
            BY ShortSequences
          <6> QED BY <3>2, <6>1
        <5> QED BY <5>1, <5>2 DEF Asking
      <4>2. Stopping(w)' => client'[w].inbox # <<>>
        BY ShortSequences DEF Stopping
      <4> QED BY <3>2, <4>1, <4>2 DEF Stopping
    <3> QED BY <1>3, <3>1, <3>2 DEF JobMoves
  <2> QED BY <1>1, <1>2, <2>1, <2>2, <2>4, <2>5 DEF OneRequest
<1>4. ASSUME ShutdownMoves(w)
      PROVE  /\ OneRequest(w)' /\ EngineEnded(host[w])'
             /\ (Asking(w) \/ Working(w) \/ Answering(w))'
                  => Asking(w) \/ Working(w) \/ Answering(w)
  <2>1. ~ Parting(w) /\ (host[w].outbox = <<>> \/ \E m \in Answers : host[w].outbox = <<m>>)
    BY <1>1, <1>2 DEF OneRequest, Parting, Answering
  <2>2. EngineEnded(host[w])' /\ (Working(w)' <=> Working(w)) /\ host'[w].shutdown # "none"
    BY <1>4 DEF ShutdownMoves, ShutdownStep, EngineEnded, Working
  <2>3. client[w].failed /\ (Asking(w)' => Asking(w)) /\ ~ Stopping(w)'
        /\ (client'[w].inbox = <<>> \/ Asking(w)')
    <3>1. CASE host[w].shutdown \in {"closing", "terminating"}
               /\ client'[w].inbox = client[w].inbox
      BY <1>2, <3>1 DEF OneRequest, Asking, Stopping
    <3>2. CASE client[w].inbox = <<"destroy">> /\ client'[w].inbox = <<>>
      BY <1>2, <3>2, ShortSequences DEF OneRequest, Asking, Stopping
    <3> QED BY <1>4, <3>1, <3>2 DEF ShutdownMoves
  <2>4. CASE host'[w].outbox = host[w].outbox
    <3>1. ~ Parting(w)' /\ (Answering(w)' <=> Answering(w))
          /\ (host'[w].outbox = <<>> \/ Answering(w)')
      BY <2>1, <2>4 DEF Parting, Answering
    <3> QED BY <1>1, <1>2, <2>2, <2>3, <3>1 DEF OneRequest
  <2>5. CASE host'[w].outbox = Append(host[w].outbox, "destroyed") /\ host'[w].closed
    <3>1. CASE host[w].outbox = <<>>
      <4>1. host'[w].outbox = <<"destroyed">>
        BY <2>5, <3>1, ShortSequences
      <4>2. Parting(w)' /\ ~ Answering(w)'
        BY <4>1, ShortSequences DEF Parting, Answering, Answers
      <4> QED BY <1>1, <1>2, <2>2, <2>3, <2>5, <4>2 DEF OneRequest
    <3>2. ASSUME NEW m \in Answers, host[w].outbox = <<m>>
          PROVE  /\ OneRequest(w)'
                 /\ (Asking(w) \/ Working(w) \/ Answering(w))'
                      => Asking(w) \/ Working(w) \/ Answering(w)
      <4>1. host'[w].outbox = <<m, "destroyed">>
        BY <2>5, <3>2, ShortSequences
      <4>2. Parting(w)' /\ Answering(w)' /\ Answering(w)
        BY <3>2, <4>1 DEF Parting, Answering
      <4> QED BY <1>1, <1>2, <2>2, <2>3, <2>5, <4>2 DEF OneRequest
    <3> QED BY <2>1, <2>2, <3>1, <3>2
  <2> QED BY <1>4, <2>4, <2>5 DEF ShutdownMoves, ShutdownStep
<1> QED BY <1>1, <1>3, <1>4

LEMMA HostStepKeeps ==
  ASSUME ViewerInv, NEW w \in Workers, HostStep(w)
  PROVE  ViewerInv'
<1> USE DEF ViewerInv
<1>1. /\ w <= page.created /\ ~ host[w].closed /\ OnlyMailbox(w)
      /\ client' \in [Workers -> Client] /\ host' \in [Workers -> Host]
  BY HostStepMoves
<1>2. page' = page /\ page \in Page
  BY <1>1 DEF OnlyMailbox
<1>3. \A v \in Workers : /\ client'[v].failed = client[v].failed
                         /\ client'[v].reply = client[v].reply
                         /\ client'[v].terminated = client[v].terminated
                         /\ v # w => client'[v] = client[v] /\ host'[v] = host[v]
  BY <1>1 DEF OnlyMailbox
<1>4. page.worker # none => page.worker \in Workers
  BY <1>2, WorkerNumbers
<1>5. Numbered'
  <2>1. ASSUME NEW v \in Workers, v > page.created PROVE v # w
    BY <1>1, <2>1, WorkerNumbers
  <2> QED BY <1>2, <1>3, <2>1 DEF Numbered
<1>6. CurrentWorker'
  BY <1>2, <1>3, <1>4 DEF CurrentWorker
<1>7. OneLoad'
  BY <1>2, <1>3, <1>4 DEF OneLoad
<1>8. NoWorkerForgotten'
  BY <1>2, <1>3, WorkerNumbers DEF NoWorkerForgotten
<1>9. ASSUME NEW v \in Workers PROVE (Gone(v) /\ OneRequest(v) /\ EngineEnded(host[v]))'
  <2>1. CASE v = w
    <3>1. Gone(w)'
      BY <1>1, <1>2, <1>3 DEF Gone
    <3> QED BY <2>1, <3>1, HostStepMailboxes
  <2>2. CASE v # w
    BY <1>2, <1>3, <2>2
       DEF Gone, OneRequest, Asking, Working, Answering, Stopping, Parting, EngineEnded
  <2> QED BY <2>1, <2>2
<1>10. ReadyForOne'
  <2> SUFFICES ASSUME page.worker # none, page.workerState = "ready",
                      ~ client[page.worker].failed, client[page.worker].reply = "none",
                      (Asking(page.worker) \/ Working(page.worker) \/ Answering(page.worker))'
               PROVE  FALSE
    BY <1>2, <1>3, <1>4 DEF ReadyForOne, Asking, Working, Answering
  <2>1. Asking(page.worker) \/ Working(page.worker) \/ Answering(page.worker)
    <3>1. CASE page.worker = w
      BY <1>2, <3>1, HostStepMailboxes DEF Asking, Working, Answering
    <3>2. CASE page.worker # w
      BY <1>2, <1>3, <1>4, <3>2 DEF Asking, Working, Answering
    <3> QED BY <3>1, <3>2
  <2> QED BY <2>1 DEF ReadyForOne
<1> QED BY <1>1, <1>2, <1>5, <1>6, <1>7, <1>8, <1>9, <1>10

-----------------------------------------------------------------------------
(* What the page's operations make of a state *)

States == [page : Page, client : [Workers -> Client]]

\* Rows that appear are the current worker's.
NoLateReply ==
  page'.viewport # page.viewport /\ page'.viewport # none =>
    page.mounted /\ page'.viewport = page.worker

ClientMessages == {"initialize", "load", "viewport", "destroy"}

LEMMA StateIsTyped == ViewerInv => State \in States /\ State.page = page /\ State.client = client
BY DEF ViewerInv, State, States

\* The client c of a worker that is told to stop, that is terminated, that is asked.
ToldToStop(c) == [Post(c, "destroy") EXCEPT !.failed = TRUE, !.reply = "none"]
Over(c) == [c EXCEPT !.failed = TRUE, !.reply = "none", !.terminated = TRUE]
Asked(c, message, reply) == [Post(c, message) EXCEPT !.reply = reply]

\* What the end of a task makes of a client.
Cleared(c) == IF c.terminated THEN [c EXCEPT !.inbox = <<>>] ELSE c

LEMMA ClientFields ==
  ASSUME NEW c \in Client
  PROVE  /\ ToldToStop(c) \in Client
         /\ ToldToStop(c).failed /\ ToldToStop(c).reply = "none"
         /\ ToldToStop(c).terminated = c.terminated
         /\ ToldToStop(c).inbox = Append(c.inbox, "destroy")
         /\ Over(c) \in Client
         /\ Over(c).failed /\ Over(c).reply = "none" /\ Over(c).terminated
         /\ \A m \in ClientMessages, r \in {"none", "ack", "viewport"} :
              /\ Asked(c, m, r) \in Client
              /\ Asked(c, m, r).failed = c.failed /\ Asked(c, m, r).reply = r
              /\ Asked(c, m, r).terminated = c.terminated
              /\ Asked(c, m, r).inbox = Append(c.inbox, m)
         /\ Cleared(c) \in Client
         /\ Cleared(c).failed = c.failed /\ Cleared(c).reply = c.reply
         /\ Cleared(c).terminated = c.terminated
         /\ c.terminated => Cleared(c).inbox = <<>>
         /\ ~ c.terminated \/ c.inbox = <<>> => Cleared(c) = c
<1>1. <<>> \in Seq(ClientMessages)
  BY ShortSequenceTypes
<1>2. \A m \in ClientMessages : Append(c.inbox, m) \in Seq(ClientMessages)
  BY DEF Client, ClientMessages
<1>3. /\ ToldToStop(c) \in Client
      /\ ToldToStop(c).failed /\ ToldToStop(c).reply = "none"
      /\ ToldToStop(c).terminated = c.terminated
      /\ ToldToStop(c).inbox = Append(c.inbox, "destroy")
  BY <1>2 DEF Client, ClientMessages, ToldToStop, Post
<1>4. Over(c) \in Client /\ Over(c).failed /\ Over(c).reply = "none" /\ Over(c).terminated
  BY DEF Client, Over
<1>5. ASSUME NEW m \in ClientMessages, NEW r \in {"none", "ack", "viewport"}
      PROVE  /\ Asked(c, m, r) \in Client
             /\ Asked(c, m, r).failed = c.failed /\ Asked(c, m, r).reply = r
             /\ Asked(c, m, r).terminated = c.terminated
             /\ Asked(c, m, r).inbox = Append(c.inbox, m)
  BY <1>2 DEF Client, ClientMessages, Asked, Post
<1>6. /\ Cleared(c) \in Client
      /\ Cleared(c).failed = c.failed /\ Cleared(c).reply = c.reply
      /\ Cleared(c).terminated = c.terminated
      /\ c.terminated => Cleared(c).inbox = <<>>
      /\ ~ c.terminated \/ c.inbox = <<>> => Cleared(c) = c
  BY <1>1 DEF Client, ClientMessages, Cleared
<1> QED BY <1>3, <1>4, <1>5, <1>6

LEMMA NewClients ==
  /\ NewClient \in Client /\ NoClient \in Client
  /\ ~ NewClient.failed /\ NewClient.reply = "none" /\ ~ NewClient.terminated
  /\ NewClient.inbox = <<"initialize">>
  /\ NoClient.failed /\ NoClient.reply = "none" /\ NoClient.terminated /\ NoClient.inbox = <<>>
<1>1. <<>> \in Seq(ClientMessages) /\ <<"initialize">> \in Seq(ClientMessages)
  BY ShortSequenceTypes DEF ClientMessages
<1> QED BY <1>1 DEF Client, ClientMessages, NewClient, NoClient

LEMMA DestroyFacts ==
  ASSUME NEW s \in States, NEW w \in Workers
  PROVE  /\ s.client[w].failed => Destroy(s, w) = s
         /\ ~ s.client[w].failed => Destroy(s, w) = [s EXCEPT !.client[w] = ToldToStop(@)]
         /\ Destroy(s, w) \in States
         /\ Destroy(s, w).page = s.page
         /\ Destroy(s, w).client[w].failed
         /\ \A v \in Workers \ {w} : Destroy(s, w).client[v] = s.client[v]
         /\ Destroy(s, none) = s
<1>1. w # none
  BY ViewerAssumption DEF Workers, none
<1>2. s.client[w].failed => Destroy(s, w) = s
  BY <1>1 DEF Destroy
<1>3. ~ s.client[w].failed => Destroy(s, w) = [s EXCEPT !.client[w] = ToldToStop(@)]
  BY <1>1 DEF Destroy, ToldToStop
<1>4. ToldToStop(s.client[w]) \in Client /\ ToldToStop(s.client[w]).failed
  BY ClientFields DEF States
<1>5. DEFINE t == [s EXCEPT !.client[w] = ToldToStop(@)]
<1>6. /\ t \in States /\ t.page = s.page /\ t.client[w] = ToldToStop(s.client[w])
      /\ \A v \in Workers \ {w} : t.client[v] = s.client[v]
  BY <1>4 DEF States
<1>7. Destroy(s, none) = s
  BY DEF Destroy
<1> HIDE DEF t
<1> QED BY <1>2, <1>3, <1>4, <1>6, <1>7 DEF t

LEMMA TerminatedFacts ==
  ASSUME NEW s \in States, NEW w \in Workers
  PROVE  /\ Terminated(s, w) \in States
         /\ Terminated(s, w).page = s.page
         /\ Terminated(s, w).client[w] = Over(s.client[w])
         /\ \A v \in Workers \ {w} : Terminated(s, w).client[v] = s.client[v]
<1>1. Terminated(s, w) = [s EXCEPT !.client[w] = Over(@)]
  BY DEF Terminated, Over
<1>2. Over(s.client[w]) \in Client
  BY ClientFields DEF States
<1> QED BY <1>1, <1>2 DEF States

LEMMA SendFacts ==
  ASSUME NEW s \in States, NEW w \in Workers, ~ s.client[w].failed,
         NEW m \in ClientMessages, NEW r \in {"none", "ack", "viewport"}
  PROVE  /\ Send(s, w, m, r) \in States
         /\ Send(s, w, m, r).page = s.page
         /\ Send(s, w, m, r).client[w] = Asked(s.client[w], m, r)
         /\ \A v \in Workers \ {w} : Send(s, w, m, r).client[v] = s.client[v]
<1>1. Send(s, w, m, r) = [s EXCEPT !.client[w] = Asked(@, m, r)]
  BY DEF Send, Asked
<1>2. Asked(s.client[w], m, r) \in Client
  BY ClientFields DEF States
<1> QED BY <1>1, <1>2 DEF States

LEMMA StartFacts ==
  ASSUME NEW s \in States, s.page.created < MaxWorkers
  PROVE  LET n == s.page.created + 1 IN
         /\ n \in Workers
         /\ StartWorkspace(s) \in States
         /\ StartWorkspace(s).page =
              [s.page EXCEPT !.worker = n, !.created = n, !.workerState = "starting"]
         /\ StartWorkspace(s).client[n] = NewClient
         /\ \A v \in Workers \ {n} :
              StartWorkspace(s).client[v] = Destroy(s, s.page.worker).client[v]
<1> DEFINE n == s.page.created + 1
           d == Destroy(s, s.page.worker)
<1>1. n \in Workers
  BY ViewerAssumption DEF States, Page, Workers
<1>2. d \in States /\ d.page = s.page
  <2>1. s.page.worker = none \/ s.page.worker \in Workers
    BY DEF States, Page
  <2>2. CASE s.page.worker = none
    BY <2>2 DEF Destroy
  <2>3. CASE s.page.worker \in Workers
    BY <2>3, DestroyFacts
  <2> QED BY <2>1, <2>2, <2>3
<1> DEFINE p == [d.page EXCEPT !.worker = n, !.created = n, !.workerState = "starting"]
<1>3. StartWorkspace(s) = [d EXCEPT !.page = p, !.client[n] = NewClient]
  BY DEF StartWorkspace
<1>4. p \in Page /\ p = [s.page EXCEPT !.worker = n, !.created = n, !.workerState = "starting"]
  BY <1>1, <1>2 DEF States, Page
<1> HIDE DEF n, d, p
<1>5. /\ [d EXCEPT !.page = p, !.client[n] = NewClient] \in States
      /\ [d EXCEPT !.page = p, !.client[n] = NewClient].page = p
      /\ [d EXCEPT !.page = p, !.client[n] = NewClient].client[n] = NewClient
      /\ \A v \in Workers \ {n} :
           [d EXCEPT !.page = p, !.client[n] = NewClient].client[v] = d.client[v]
  BY <1>1, <1>2, <1>4, NewClients DEF States
<1> QED BY <1>1, <1>3, <1>4, <1>5 DEF n, d

-----------------------------------------------------------------------------
(* The end of a task *)

\* Nothing is rejected: the page is as the task left it, and its clients too, but for
\* the messages of those it terminated.
Ends(s) ==
  /\ page' = s.page /\ page' \in Page
  /\ client' \in [Workers -> Client]
  /\ \A v \in Workers : client'[v] = Cleared(s.client[v])

\* The load is rejected: the page has a fresh worker n.
Restarts(s, n) ==
  /\ page' = [s.page EXCEPT !.worker = n, !.created = n,
                            !.workerState = "starting", !.loading = none]
  /\ page' \in Page
  /\ client' \in [Workers -> Client]
  /\ client'[n] = NewClient
  /\ \A v \in Workers \ {n} : client'[v] = Cleared(s.client[v])

LEMMA RejectedFacts ==
  ASSUME NEW s \in States, s.page.created < MaxWorkers,
         s.page.loading \in Workers, s.client[s.page.loading].failed,
         s.page.worker \in {s.page.loading, none}
  PROVE  LET n == s.page.created + 1 IN
         /\ n \in Workers
         /\ LoadRejected(s) \in States
         /\ LoadRejected(s).page = [s.page EXCEPT !.worker = n, !.created = n,
                                      !.workerState = "starting", !.loading = none]
         /\ LoadRejected(s).client[n] = NewClient
         /\ \A v \in Workers \ {n} : LoadRejected(s).client[v] = s.client[v]
<1> DEFINE w == s.page.loading
           n == s.page.created + 1
           gone == [s EXCEPT !.page.worker = none]
<1>1. Destroy(s, w) = s
  BY DestroyFacts
<1>2. gone \in States /\ gone.page = [s.page EXCEPT !.worker = none] /\ gone.client = s.client
  BY DEF States, Page
<1>3. s.page.worker = none => gone = s
  BY DEF States, Page
<1>4. (IF s.page.worker = w THEN [Destroy(s, w) EXCEPT !.page.worker = none] ELSE Destroy(s, w))
        = gone
  BY <1>1, <1>3
<1>5. LoadRejected(s) = [StartWorkspace(gone) EXCEPT !.page.loading = none]
  BY <1>4 DEF LoadRejected
<1> HIDE DEF gone
<1>6. gone.page.created = s.page.created /\ gone.page.worker = none
  BY <1>2 DEF States, Page
<1>7. Destroy(gone, gone.page.worker) = gone
  BY <1>6 DEF Destroy
<1> DEFINE t == StartWorkspace(gone)
<1>8. /\ n \in Workers /\ t \in States
      /\ t.page = [gone.page EXCEPT !.worker = n, !.created = n, !.workerState = "starting"]
      /\ t.client[n] = NewClient
      /\ \A v \in Workers \ {n} : t.client[v] = s.client[v]
  <2>1. gone.page.created + 1 = n /\ gone.page.created < MaxWorkers
    BY <1>6
  <2> HIDE DEF n
  <2>2. /\ n \in Workers /\ t \in States
        /\ t.page = [gone.page EXCEPT !.worker = n, !.created = n, !.workerState = "starting"]
        /\ t.client[n] = NewClient
        /\ \A v \in Workers \ {n} : t.client[v] = Destroy(gone, gone.page.worker).client[v]
    BY <1>2, <2>1, StartFacts
  <2> QED BY <1>2, <1>7, <2>2
<1> HIDE DEF t
<1>9. /\ [t EXCEPT !.page.loading = none] \in States
      /\ [t EXCEPT !.page.loading = none].page = [t.page EXCEPT !.loading = none]
      /\ [t EXCEPT !.page.loading = none].client = t.client
  BY <1>8 DEF States, Page
<1>10. [t.page EXCEPT !.loading = none] =
         [s.page EXCEPT !.worker = n, !.created = n, !.workerState = "starting", !.loading = none]
  BY <1>2, <1>8 DEF States, Page
<1> QED BY <1>5, <1>8, <1>9, <1>10 DEF t

LEMMA BecomesFacts ==
  ASSUME NEW s \in States, Becomes(s)
  PROVE  /\ s.page.loading = none => Ends(s)
         /\ s.page.loading # none /\ s.client[s.page.loading].reply # "none" => Ends(s)
         /\ /\ s.page.loading # none /\ s.client[s.page.loading].reply = "none"
            /\ s.client[s.page.loading].failed
            /\ s.page.created < MaxWorkers /\ s.page.worker \in {s.page.loading, none}
            => s.page.created + 1 \in Workers /\ Restarts(s, s.page.created + 1)
<1> DEFINE t == Settled(s)
<1>1. page' = t.page /\ client' = [w \in Workers |-> Cleared(t.client[w])]
  BY DEF Becomes, Cleared
<1>2. ASSUME t \in States
      PROVE  /\ page' \in Page /\ client' \in [Workers -> Client]
             /\ \A v \in Workers : client'[v] = Cleared(t.client[v])
  <2>1. \A w \in Workers : Cleared(t.client[w]) \in Client
    BY <1>2, ClientFields DEF States
  <2>2. t.page \in Page
    BY <1>2 DEF States
  <2> HIDE DEF t
  <2> QED BY <1>1, <2>1, <2>2
<1>3. ASSUME s.page.loading = none \/ s.client[s.page.loading].reply # "none" PROVE Ends(s)
  <2>1. t = s
    BY <1>3 DEF Settled
  <2> QED BY <1>1, <1>2, <2>1 DEF Ends
<1>4. ASSUME s.page.loading # none, s.client[s.page.loading].reply = "none",
             s.client[s.page.loading].failed,
             s.page.created < MaxWorkers, s.page.worker \in {s.page.loading, none}
      PROVE  s.page.created + 1 \in Workers /\ Restarts(s, s.page.created + 1)
  <2>1. t = LoadRejected(s)
    BY <1>4 DEF Settled
  <2>2. s.page.loading \in Workers
    BY <1>4 DEF States, Page
  <2> HIDE DEF t
  <2>3. NewClient = Cleared(NewClient)
    BY NewClients DEF Cleared
  <2>4. /\ s.page.created + 1 \in Workers /\ t \in States
        /\ t.page = [s.page EXCEPT !.worker = s.page.created + 1, !.created = s.page.created + 1,
                                   !.workerState = "starting", !.loading = none]
        /\ t.client[s.page.created + 1] = NewClient
        /\ \A v \in Workers \ {s.page.created + 1} : t.client[v] = s.client[v]
    BY <1>4, <2>1, <2>2, RejectedFacts
  <2> QED BY <1>1, <1>2, <2>3, <2>4 DEF Restarts
<1> QED BY <1>3, <1>4

-----------------------------------------------------------------------------
(* What the page's actions make of one worker *)

Kept(v) == client'[v] = client[v] /\ host'[v] = host[v]

Told(v) ==
  /\ ~ client[v].failed /\ client'[v] = ToldToStop(client[v])
  /\ host'[v] = host[v]

Ended(v) ==
  /\ client'[v].failed /\ client'[v].reply = "none"
  /\ client'[v].terminated /\ client'[v].inbox = <<>>
  /\ host'[v].closed /\ ~ host'[v].engine /\ host'[v].outbox = <<>>
  /\ host'[v].database = host[v].database

Fresh(v) == client'[v] = NewClient /\ host'[v] = NewHost

\* A message of the worker is taken from its mailbox.
Taken(v) == host[v].outbox # <<>> /\ host'[v] = [host[v] EXCEPT !.outbox = Tail(@)]

\* Its client has nothing to send for it.
Heard(v) ==
  /\ Taken(v)
  /\ client'[v].failed = client[v].failed /\ client'[v].terminated = client[v].terminated
  /\ client'[v].inbox = client[v].inbox

\* A worker with nothing under way is asked.
Requested(v) ==
  /\ ~ client[v].failed /\ client[v].inbox = <<>> /\ ~ Working(v)
  /\ \E m \in {"load", "viewport"} :
       /\ client'[v].inbox = <<m>> /\ client'[v].failed = client[v].failed
       /\ client'[v].terminated = client[v].terminated
  /\ host'[v].outbox = <<>> /\ host'[v].job = host[v].job
  /\ host'[v].shutdown = host[v].shutdown /\ EngineEnded(host'[v])

WorkerInv(v) == Gone(v) /\ OneRequest(v) /\ EngineEnded(host[v])

\* A worker that has done something has been created.
LEMMA OnlyCreated ==
  ASSUME ViewerInv, NEW v \in Workers
  PROVE  /\ v <= page.created \/ v > page.created
         /\ ~ client[v].failed \/ ~ client[v].terminated \/ host[v].outbox # <<>> => v <= page.created
         /\ client[v].terminated => client[v].failed /\ client[v].inbox = <<>>
         /\ client[v] \in Client /\ host[v] \in Host
<1>1. v <= page.created \/ v > page.created
  BY WorkerNumbers DEF ViewerInv
<1>2. ASSUME v > page.created
      PROVE  /\ client[v].failed /\ client[v].terminated /\ client[v].inbox = <<>>
             /\ host[v].outbox = <<>>
  <2>1. client[v] = NoClient /\ host[v] = NewHost
    BY <1>2 DEF ViewerInv, Numbered
  <2> QED BY <2>1, NewClients DEF NewHost
<1> QED BY <1>1, <1>2 DEF ViewerInv, Gone

LEMMA KeptKeeps ==
  ASSUME ViewerInv, NEW v \in Workers, Kept(v), v <= page.created \/ v > page'.created,
         page'.created \in Nat
  PROVE  WorkerInv(v)'
BY WorkerNumbers
   DEF ViewerInv, Kept, WorkerInv, Gone, OneRequest, Asking, Working, Answering, Stopping,
       Parting, EngineEnded

LEMMA ToldKeeps ==
  ASSUME ViewerInv, NEW v \in Workers, Told(v)
  PROVE  WorkerInv(v)'
<1>1. /\ client[v] \in Client /\ ~ client[v].terminated
      /\ OneRequest(v) /\ EngineEnded(host[v]) /\ ~ client[v].failed
      /\ client'[v] = ToldToStop(client[v]) /\ host'[v] = host[v]
  BY OnlyCreated DEF ViewerInv, Told
<1>2. /\ client'[v].failed /\ ~ client'[v].terminated
      /\ client'[v].inbox = Append(client[v].inbox, "destroy")
  BY <1>1, ClientFields
<1>3. Gone(v)' /\ EngineEnded(host[v])'
  BY <1>1, <1>2 DEF Gone, EngineEnded
<1>4. /\ (Working(v)' <=> Working(v)) /\ (Answering(v)' <=> Answering(v))
      /\ (Parting(v)' <=> Parting(v))
  BY <1>1 DEF Working, Answering, Parting
<1>5. ~ Stopping(v) /\ host[v].shutdown = "none"
  BY <1>1 DEF OneRequest, Host
<1>6. CASE client[v].inbox = <<>>
  <2>1. client'[v].inbox = <<"destroy">>
    BY <1>2, <1>6, ShortSequences
  <2>2. ~ Asking(v)' /\ Stopping(v)'
    BY <2>1, ShortSequences DEF Asking, Stopping, Requests
  <2> QED BY <1>1, <1>2, <1>3, <1>4, <1>5, <2>2 DEF WorkerInv, OneRequest
<1>7. ASSUME NEW m \in Requests, client[v].inbox = <<m>> PROVE WorkerInv(v)'
  <2>1. client'[v].inbox = <<m, "destroy">>
    BY <1>2, <1>7, ShortSequences
  <2>2. Asking(v) /\ Asking(v)' /\ Stopping(v)'
    BY <1>7, <2>1 DEF Asking, Stopping
  <2> QED BY <1>1, <1>2, <1>3, <1>4, <1>5, <2>2 DEF WorkerInv, OneRequest
<1>8. client[v].inbox = <<>> \/ \E m \in Requests : client[v].inbox = <<m>>
  BY <1>1, <1>5 DEF OneRequest, Asking, Stopping
<1> QED BY <1>6, <1>7, <1>8

LEMMA EndedKeeps ==
  ASSUME ViewerInv, NEW v \in Workers, Ended(v)
  PROVE  WorkerInv(v)'
<1>1. Gone(v)' /\ EngineEnded(host[v])'
  BY DEF Ended, Gone, EngineEnded
<1>2. ~ Asking(v)' /\ ~ Stopping(v)' /\ ~ Answering(v)' /\ ~ Parting(v)'
  BY ShortSequences DEF Ended, Asking, Stopping, Answering, Parting
<1> QED BY <1>1, <1>2 DEF WorkerInv, OneRequest, Ended

LEMMA FreshKeeps ==
  ASSUME NEW v \in Workers, Fresh(v)
  PROVE  WorkerInv(v)'
<1>1. ~ client'[v].terminated /\ client'[v].inbox = <<"initialize">> /\ host'[v] = NewHost
  BY NewClients DEF Fresh
<1>2. Asking(v)' /\ ~ Stopping(v)' /\ ~ Answering(v)' /\ ~ Parting(v)' /\ ~ Working(v)'
  <2>1. \A m \in Requests : <<"initialize">> # <<m, "destroy">>
    BY ShortSequences
  <2>2. <<"initialize">> # <<"destroy">>
    BY ShortSequences
  <2>3. host'[v].outbox = <<>> /\ host'[v].job = "idle"
    BY <1>1 DEF NewHost
  <2> QED BY <1>1, <2>1, <2>2, <2>3, ShortSequences
          DEF Asking, Stopping, Answering, Parting, Working, Active, Requests
<1> QED BY <1>1, <1>2 DEF WorkerInv, OneRequest, Gone, EngineEnded, NewHost

\* What is left when a message is taken: the last one of a worker told to stop.
LEMMA TakenFacts ==
  ASSUME ViewerInv, NEW v \in Workers, Taken(v)
  PROVE  /\ v <= page.created /\ ~ client[v].terminated /\ OneRequest(v)
         /\ host'[v].job = host[v].job /\ host'[v].shutdown = host[v].shutdown
         /\ host'[v].closed = host[v].closed /\ EngineEnded(host'[v])
         /\ ~ Answering(v)' /\ (Parting(v)' => Parting(v)) /\ (Working(v)' <=> Working(v))
         /\ host'[v].outbox = <<>> \/ Parting(v)'
         /\ ~ client[v].failed =>
              /\ client[v].inbox = <<>> /\ host'[v].outbox = <<>>
              /\ ~ Asking(v) /\ ~ Working(v)
<1>1. /\ OneRequest(v) /\ EngineEnded(host[v]) /\ host[v] \in Host
      /\ v <= page.created /\ ~ client[v].terminated
  BY OnlyCreated DEF ViewerInv, Taken, Gone
<1>2. /\ host'[v].job = host[v].job /\ host'[v].shutdown = host[v].shutdown
      /\ host'[v].closed = host[v].closed /\ host'[v].outbox = Tail(host[v].outbox)
      /\ EngineEnded(host'[v])
  BY <1>1 DEF Taken, ViewerInv, Host, EngineEnded
<1>3. \/ Tail(host[v].outbox) = <<>> /\ (Answering(v) \/ Parting(v))
      \/ Tail(host[v].outbox) = <<"destroyed">> /\ Parting(v)
  <2>1. Answering(v) \/ Parting(v)
    BY <1>1 DEF OneRequest, Taken
  <2>2. ASSUME NEW m \in Answers, host[v].outbox = <<m, "destroyed">>
        PROVE  Tail(host[v].outbox) = <<"destroyed">> /\ Parting(v)
    BY <2>2, ShortSequences DEF Parting
  <2>3. ASSUME NEW m, host[v].outbox = <<m>> PROVE Tail(host[v].outbox) = <<>>
    BY <2>3, ShortSequences
  <2> QED BY <2>1, <2>2, <2>3 DEF Answering, Parting
<1>4. ~ Answering(v)' /\ (Parting(v)' => Parting(v)) /\ (host'[v].outbox = <<>> \/ Parting(v)')
  <2>1. CASE Tail(host[v].outbox) = <<>>
    BY <1>2, <2>1, ShortSequences DEF Answering, Parting
  <2>2. CASE Tail(host[v].outbox) = <<"destroyed">>
    <3>1. \A m \in Answers : <<"destroyed">> # <<m>>
      BY ShortSequences DEF Answers
    <3>2. \A m \in Answers : <<"destroyed">> # <<m, "destroyed">>
      BY ShortSequences
    <3> QED BY <1>2, <1>3, <2>2, <3>1, <3>2, ShortSequences DEF Answering, Parting
  <2> QED BY <1>3, <2>1, <2>2
<1>5. ASSUME ~ client[v].failed
      PROVE  client[v].inbox = <<>> /\ host'[v].outbox = <<>> /\ ~ Asking(v) /\ ~ Working(v)
  <2>1. ~ Parting(v) /\ ~ Stopping(v)
    BY <1>1, <1>5 DEF OneRequest
  <2> QED BY <1>1, <1>2, <1>3, <2>1 DEF OneRequest
<1> QED BY <1>1, <1>2, <1>4, <1>5 DEF Working

LEMMA HeardKeeps ==
  ASSUME ViewerInv, NEW v \in Workers, Heard(v)
  PROVE  WorkerInv(v)' /\ ~ Answering(v)' /\ (~ client[v].failed => ~ Asking(v)' /\ ~ Working(v)')
<1>1. Taken(v) /\ (Asking(v)' <=> Asking(v)) /\ (Stopping(v)' <=> Stopping(v))
  BY DEF Heard, Asking, Stopping
<1> QED BY <1>1, TakenFacts DEF WorkerInv, OneRequest, Gone, Heard

LEMMA RequestedKeeps ==
  ASSUME ViewerInv, NEW v \in Workers, Requested(v)
  PROVE  WorkerInv(v)'
<1>1. OneRequest(v) /\ ~ client[v].terminated
  BY OnlyCreated DEF ViewerInv, Requested
<1>2. PICK m \in {"load", "viewport"} :
        /\ client'[v].inbox = <<m>> /\ client'[v].failed = client[v].failed
        /\ client'[v].terminated = client[v].terminated
  BY DEF Requested
<1>3. Asking(v)' /\ ~ Stopping(v)'
  <2>1. <<m>> # <<"destroy">> /\ \A n \in Requests : <<m>> # <<n, "destroy">>
    BY ShortSequences
  <2> QED BY <1>2, <2>1 DEF Asking, Stopping, Requests
<1>4. ~ Answering(v)' /\ ~ Parting(v)' /\ ~ Working(v)'
  BY ShortSequences DEF Requested, Answering, Parting, Working
<1> QED BY <1>1, <1>2, <1>3, <1>4 DEF WorkerInv, OneRequest, Gone, Requested

-----------------------------------------------------------------------------
(* What the page's actions make of the page *)

Typed == page \in Page /\ client \in [Workers -> Client] /\ host \in [Workers -> Host]

\* One worker, and the page's variables, change; none is created.
LEMMA SameWorkers ==
  ASSUME ViewerInv, Typed', NEW w \in Workers, w <= page.created,
         page'.created = page.created, page'.worker \in {page.worker, none},
         page'.worker # page.worker => client'[page.worker].failed,
         client[w].failed => client'[w].failed,
         \A v \in Workers \ {w} : Kept(v), WorkerInv(w)',
         CurrentWorker', OneLoad', ReadyForOne'
  PROVE  ViewerInv'
<1>1. /\ page.worker <= page.created /\ page.worker \in Nat /\ page.created \in Nat
      /\ \A v \in Workers : v \in Nat
      /\ \A v \in 1 .. page.created : v \in Workers
  BY WorkerNumbers DEF ViewerInv, Numbered
<1>2. Numbered'
  <2>1. page'.worker <= page'.created
    BY <1>1 DEF none
  <2>2. ASSUME NEW v \in Workers, v > page.created PROVE client'[v] = NoClient /\ host'[v] = NewHost
    <3>1. v # w
      BY <1>1, <2>2
    <3> QED BY <2>2, <3>1 DEF ViewerInv, Numbered, Kept
  <2> QED BY <2>1, <2>2 DEF Numbered
<1>3. NoWorkerForgotten'
  <2>1. ASSUME NEW v \in 1 .. page.created, v # page'.worker PROVE client'[v].failed
    <3>1. CASE v = page.worker
      BY <2>1, <3>1
    <3>2. CASE v # page.worker
      <4>1. client[v].failed /\ v \in Workers
        BY <1>1, <3>2 DEF ViewerInv, NoWorkerForgotten
      <4> QED BY <4>1 DEF Kept
    <3> QED BY <3>1, <3>2
  <2> QED BY <2>1 DEF NoWorkerForgotten
<1>4. ASSUME NEW v \in Workers PROVE WorkerInv(v)'
  <2>1. CASE v # w
    BY <1>1, <2>1, KeptKeeps, OnlyCreated
  <2> QED BY <2>1
<1> QED BY <1>2, <1>3, <1>4 DEF ViewerInv, WorkerInv, Typed

\* The page has a fresh worker n; the one before has been told to stop, or is gone.
LEMMA NextWorker ==
  ASSUME ViewerInv, Typed', NEW n \in Workers, n = page.created + 1,
         page'.worker = n, page'.created = n, page'.workerState = "starting",
         page'.loading = none, Fresh(n),
         \A v \in Workers \ {n} :
           /\ Kept(v) \/ (v <= page.created /\ (Told(v) \/ Ended(v)))
           /\ client'[v].reply = "none"
           /\ v = page.worker => client'[v].failed
  PROVE  ViewerInv'
<1>1. /\ page.worker <= page.created /\ page.created \in Nat
      /\ \A v \in Workers : v \in Nat
      /\ \A v \in 1 .. page.created : v \in Workers
  BY WorkerNumbers DEF ViewerInv, Numbered
<1>2. ~ client'[n].failed /\ client'[n].reply = "none"
  BY NewClients DEF Fresh
<1>3. Numbered'
  <2>1. ASSUME NEW v \in Workers, v > n PROVE client'[v] = NoClient /\ host'[v] = NewHost
    <3>1. v # n /\ v > page.created /\ ~ (v <= page.created)
      BY <1>1, <2>1
    <3> QED BY <3>1 DEF ViewerInv, Numbered, Kept
  <2> QED BY <1>1, <2>1 DEF Numbered
<1>4. NoWorkerForgotten'
  <2>1. ASSUME NEW v \in 1 .. n, v # n PROVE client'[v].failed
    <3>1. v \in 1 .. page.created /\ v \in Workers \ {n}
      BY <1>1, <2>1
    <3>2. CASE v = page.worker
      BY <3>1, <3>2
    <3>3. CASE v # page.worker
      <4>1. client[v].failed
        BY <3>1, <3>3 DEF ViewerInv, NoWorkerForgotten
      <4> QED BY <3>1, <4>1 DEF Kept, Told, Ended
    <3> QED BY <3>2, <3>3
  <2> QED BY <2>1 DEF NoWorkerForgotten
<1>5. ASSUME NEW v \in Workers PROVE WorkerInv(v)'
  <2>1. CASE v = n
    BY <2>1, FreshKeeps
  <2>2. CASE v # n
    <3>1. v <= page.created \/ v > page'.created
      BY <1>1, <2>2
    <3> QED BY <1>1, <2>2, <3>1, KeptKeeps, ToldKeeps, EndedKeeps
  <2> QED BY <2>1, <2>2
<1>6. CurrentWorker'
  BY <1>1, <1>2 DEF CurrentWorker, none
<1>7. OneLoad'
  BY <1>2 DEF OneLoad
<1>8. ReadyForOne'
  BY DEF ReadyForOne
<1> QED BY <1>3, <1>4, <1>5, <1>6, <1>7, <1>8 DEF ViewerInv, WorkerInv, Typed

LEMMA ClearedSame ==
  ASSUME ViewerInv, NEW v \in Workers
  PROVE  Cleared(client[v]) = client[v]
BY OnlyCreated, ClientFields

LEMMA HostOfFacts ==
  ASSUME ViewerInv, NEW w \in Workers, NEW s, NEW h \in Host,
         host' = [host EXCEPT ![w] = HostOf(w, h, s)]
  PROVE  /\ host' \in [Workers -> Host]
         /\ \A v \in Workers \ {w} : host'[v] = host[v]
         /\ s.client[w].terminated =>
              /\ host'[w].closed /\ ~ host'[w].engine /\ host'[w].outbox = <<>>
              /\ host'[w].database = h.database
         /\ ~ s.client[w].terminated => host'[w] = h
<1>1. <<>> \in Seq({"ready", "ack", "viewport", "failed", "destroyed"})
  BY ShortSequenceTypes
<1>2. [h EXCEPT !.closed = TRUE, !.engine = FALSE, !.outbox = <<>>] \in Host
  BY <1>1 DEF Host
<1> QED BY <1>2 DEF HostOf, ViewerInv, Host

LEMMA TailTyped ==
  ASSUME NEW h \in Host, h.outbox # <<>>
  PROVE  [h EXCEPT !.outbox = Tail(@)] \in Host /\ Head(h.outbox) \in HostMessages
BY DEF Host, HostMessages

-----------------------------------------------------------------------------
(* The page's actions *)

\* The page's worker is asked when nothing is under way.
LEMMA OpenKeeps ==
  ASSUME ViewerInv, OpenResult
  PROVE  ViewerInv' /\ NoLateReply
<1> USE DEF ViewerInv
<1>0. PICK w \in Workers : w = page.worker
  BY WorkerNumbers DEF OpenResult
<1> DEFINE s == [State EXCEPT !.page.loading = w]
           t == Send(s, w, "load", "ack")
<1>1. /\ page.mounted /\ w # none /\ page.workerState = "ready" /\ page.loading = none
      /\ page.viewport = none /\ page.created < MaxWorkers /\ Becomes(t) /\ host' = host
  BY <1>0 DEF OpenResult
<1>2. w = page.worker /\ w <= page.created /\ page.created \in Nat
  BY <1>0, WorkerNumbers DEF Numbered
<1>3. ~ client[w].failed /\ client[w].reply = "none"
  BY <1>1, <1>2 DEF CurrentWorker, OneLoad
<1>4. client[w] \in Client /\ ~ client[w].terminated /\ OneRequest(w)
  BY <1>2, <1>3, OnlyCreated
<1>5. ~ Asking(w) /\ ~ Working(w) /\ ~ Answering(w) /\ ~ Stopping(w) /\ ~ Parting(w)
  BY <1>1, <1>2, <1>3, <1>4 DEF ReadyForOne, OneRequest
<1>6. client[w].inbox = <<>> /\ host[w].outbox = <<>>
  BY <1>4, <1>5 DEF OneRequest
<1>7. /\ s \in States /\ s.page = [page EXCEPT !.loading = w] /\ s.client = client
      /\ s.page \in Page /\ s.page.loading = w
  BY <1>2, StateIsTyped DEF States, Page
<1> HIDE DEF s
<1>8. /\ t \in States /\ t.page = s.page /\ t.client[w] = Asked(client[w], "load", "ack")
      /\ \A v \in Workers \ {w} : t.client[v] = client[v]
  BY <1>2, <1>3, <1>7, SendFacts DEF ClientMessages
<1> HIDE DEF t
<1>9. /\ Asked(client[w], "load", "ack") \in Client
      /\ Asked(client[w], "load", "ack").failed = client[w].failed
      /\ Asked(client[w], "load", "ack").reply = "ack"
      /\ Asked(client[w], "load", "ack").terminated = client[w].terminated
      /\ Asked(client[w], "load", "ack").inbox = <<"load">>
  BY <1>3, <1>4, <1>6, ClientFields, ShortSequences DEF ClientMessages
<1>10. Ends(t)
  BY <1>1, <1>7, <1>8, <1>9, BecomesFacts
<1>11. /\ page' = [page EXCEPT !.loading = w] /\ page' \in Page /\ client' \in [Workers -> Client]
       /\ client'[w] = Asked(client[w], "load", "ack")
       /\ \A v \in Workers \ {w} : client'[v] = client[v]
  <2>1. Cleared(Asked(client[w], "load", "ack")) = Asked(client[w], "load", "ack")
    BY <1>4, <1>9, ClientFields
  <2>2. page' = t.page /\ page' \in Page /\ client' \in [Workers -> Client]
        /\ \A v \in Workers : client'[v] = Cleared(t.client[v])
    BY <1>10 DEF Ends
  <2>3. \A v \in Workers \ {w} : client'[v] = client[v]
    BY <1>8, <2>2, ClearedSame
  <2> QED BY <1>7, <1>8, <2>1, <2>2, <2>3
<1>12. /\ page'.worker = w /\ page'.created = page.created /\ page'.mounted = page.mounted
       /\ page'.viewport = page.viewport /\ page'.workerState = page.workerState
       /\ page'.loading = w
  BY <1>2, <1>11 DEF Page
<1>13. Typed' /\ \A v \in Workers \ {w} : Kept(v)
  BY <1>1, <1>11 DEF Typed, Kept
<1>14. WorkerInv(w)'
  <2>1. host'[w] = host[w] /\ EngineEnded(host'[w])
    BY <1>1
  <2>2. /\ client'[w].inbox = <<"load">> /\ client'[w].failed = client[w].failed
        /\ client'[w].terminated = client[w].terminated
    BY <1>9, <1>11
  <2>3. Requested(w)
    BY <1>3, <1>5, <1>6, <2>1, <2>2 DEF Requested
  <2> QED BY <2>3, RequestedKeeps
<1>15. CurrentWorker' /\ ReadyForOne'
  BY <1>1, <1>3, <1>9, <1>11, <1>12 DEF CurrentWorker, ReadyForOne
<1>16. OneLoad'
  <2>1. \A v \in Workers \ {w} : client'[v].reply = "none"
    BY <1>1, <1>11, WorkerNumbers DEF OneLoad
  <2> QED BY <1>1, <1>3, <1>9, <1>11, <1>12, <2>1 DEF OneLoad
<1> QED BY <1>2, <1>3, <1>12, <1>13, <1>14, <1>15, <1>16, SameWorkers DEF NoLateReply

\* A workspace that replaces another.
LEMMA StartKeeps ==
  ASSUME ViewerInv, page.mounted, page.loading = none, page.created < MaxWorkers,
         NEW p \in Page, p.worker = page.worker, p.created = page.created, p.loading = none,
         p.viewport \in {page.viewport, none},
         Becomes(StartWorkspace([page |-> p, client |-> client])), host' = host
  PROVE  ViewerInv' /\ NoLateReply
<1> USE DEF ViewerInv
<1> DEFINE s == [page |-> p, client |-> client]
           t == StartWorkspace(s)
           w == page.worker
           n == page.created + 1
<1>1. /\ w \in Workers /\ w <= page.created /\ page.created \in Nat
      /\ \A v \in Workers : v \in Nat
  BY WorkerNumbers DEF Numbered, CurrentWorker
<1>2. s \in States /\ s.page = p /\ s.client = client
  BY DEF States
<1> HIDE DEF s
<1>3. /\ n \in Workers /\ t \in States
      /\ t.page = [p EXCEPT !.worker = n, !.created = n, !.workerState = "starting"]
      /\ t.client[n] = NewClient
      /\ \A v \in Workers \ {n} : t.client[v] = Destroy(s, w).client[v]
  <2>1. s.page.created = page.created /\ s.page.worker = w /\ s.page.created < MaxWorkers
    BY <1>2
  <2> HIDE DEF w
  <2>2. n = s.page.created + 1
    BY <2>1
  <2> HIDE DEF n
  <2> QED BY <1>2, <2>1, <2>2, StartFacts
<1>4. /\ client[w].failed => Destroy(s, w).client[w] = client[w]
      /\ ~ client[w].failed => Destroy(s, w).client[w] = ToldToStop(client[w])
      /\ \A v \in Workers \ {w} : Destroy(s, w).client[v] = client[v]
  BY <1>1, <1>2, DestroyFacts DEF States
<1> HIDE DEF t
<1>5. Ends(t)
  <2>1. t.page.loading = none
    BY <1>3 DEF Page
  <2> QED BY <1>2, <1>3, <2>1, BecomesFacts DEF s, t
<1>6. client' \in [Workers -> Client] /\ page' \in Page /\ host' \in [Workers -> Host]
  BY <1>5 DEF Ends
<1>7. page'.worker = n /\ page'.created = n /\ page'.workerState = "starting" /\ page'.loading = none
      /\ page'.viewport \in {page.viewport, none}
  BY <1>3, <1>5 DEF Ends, Page
<1>8. Fresh(n)
  <2>1. host[n] = NewHost
    BY <1>1, <1>3 DEF Numbered
  <2>2. Cleared(NewClient) = NewClient
    BY NewClients, ClientFields
  <2> QED BY <1>3, <1>5, <2>1, <2>2 DEF Fresh, Ends
<1>9. w # n /\ w \in Workers \ {n}
  BY <1>1
<1>10. (client[w].failed /\ Kept(w)) \/ Told(w)
  <2>1. CASE client[w].failed
    BY <1>1, <1>3, <1>4, <1>5, <1>9, <2>1, ClearedSame DEF Kept, Ends
  <2>2. CASE ~ client[w].failed
    <3>1. ~ client[w].terminated
      BY <1>1, <2>2, OnlyCreated
    <3>2. Cleared(ToldToStop(client[w])) = ToldToStop(client[w])
      BY <1>1, <3>1, ClientFields
    <3> QED BY <1>1, <1>3, <1>4, <1>5, <1>9, <2>2, <3>2 DEF Told, Ends
  <2> QED BY <2>1, <2>2
<1>11. client'[w].failed /\ client'[w].reply = "none"
  <2>1. client[w] \in Client /\ client[w].reply = "none"
    BY <1>1 DEF OneLoad, none, Workers
  <2> QED BY <1>10, <2>1, ClientFields DEF Kept, Told
<1>12. ASSUME NEW v \in Workers \ {n}, v # w PROVE Kept(v) /\ client'[v].reply = "none"
  <2>1. Kept(v)
    BY <1>3, <1>4, <1>5, <1>12, ClearedSame DEF Kept, Ends
  <2>2. client[v].reply = "none"
    BY WorkerNumbers DEF OneLoad
  <2> QED BY <2>1, <2>2 DEF Kept
<1> HIDE DEF w, n
<1>13. \A v \in Workers \ {n} :
         /\ Kept(v) \/ (v <= page.created /\ (Told(v) \/ Ended(v)))
         /\ client'[v].reply = "none"
         /\ v = page.worker => client'[v].failed
  BY <1>1, <1>10, <1>11, <1>12 DEF w
<1> QED BY <1>3, <1>6, <1>7, <1>8, <1>13, NextWorker DEF n, Typed, NoLateReply

LEMMA ReplaceKeeps ==
  ASSUME ViewerInv, CloseResult \/ Retry
  PROVE  ViewerInv' /\ NoLateReply
<1> USE DEF ViewerInv
<1>1. page.mounted /\ page.created < MaxWorkers /\ host' = host
  BY DEF CloseResult, Retry
<1>2. page.loading = none
  BY DEF CloseResult, Retry, OneLoad
<1>3. CASE CloseResult
  <2> DEFINE p == [page EXCEPT !.viewport = none]
  <2>1. p \in Page /\ p.worker = page.worker /\ p.created = page.created /\ p.loading = page.loading
        /\ p.viewport = none
    BY DEF Page
  <2>2. [State EXCEPT !.page.viewport = none] = [page |-> p, client |-> client]
    BY DEF State
  <2>3. Becomes(StartWorkspace([page |-> p, client |-> client]))
    BY <1>3, <2>2 DEF CloseResult
  <2> HIDE DEF p
  <2> QED BY <1>1, <1>2, <2>1, <2>3, StartKeeps
<1>4. CASE Retry
  BY <1>1, <1>2, <1>4, StartKeeps DEF Retry, State
<1> QED BY <1>3, <1>4

\* Unmounting rejects the load there is: the page, though gone, has a fresh worker.
LEMMA UnmountKeeps ==
  ASSUME ViewerInv, Unmount
  PROVE  ViewerInv' /\ NoLateReply
<1> USE DEF ViewerInv
<1>1. PICK w \in Workers : w = page.worker
  BY WorkerNumbers DEF Unmount, CurrentWorker
<1> DEFINE d == Destroy(State, w)
           s == [d EXCEPT !.page = [@ EXCEPT !.mounted = FALSE, !.worker = none]]
           n == page.created + 1
<1>2. page.mounted /\ Becomes(s) /\ host' = host
  BY <1>1 DEF Unmount
<1>3. /\ w <= page.created /\ page.created \in Nat /\ w # none
      /\ \A v \in Workers : v \in Nat /\ v # none
  BY <1>1, WorkerNumbers DEF Numbered
<1>4. /\ d \in States /\ d.page = page
      /\ client[w].failed => d.client[w] = client[w]
      /\ ~ client[w].failed => d.client[w] = ToldToStop(client[w])
      /\ \A v \in Workers \ {w} : d.client[v] = client[v]
  BY StateIsTyped, DestroyFacts DEF States
<1> HIDE DEF d
<1>5. /\ s \in States /\ s.page = [page EXCEPT !.mounted = FALSE, !.worker = none]
      /\ s.client = d.client
  BY <1>4 DEF States, Page
<1> HIDE DEF s
<1>6. /\ s.page.worker = none /\ s.page.created = page.created /\ ~ s.page.mounted
      /\ s.page.loading = page.loading /\ s.page.viewport = page.viewport
  BY <1>5 DEF Page
<1>7. client[w] \in Client /\ (client[w].terminated => client[w].failed)
  BY OnlyCreated
<1>8. /\ ~ client[w].failed => Cleared(d.client[w]) = ToldToStop(client[w])
      /\ client[w].failed => Cleared(d.client[w]) = client[w]
      /\ \A v \in Workers \ {w} : Cleared(d.client[v]) = client[v]
  BY <1>4, <1>7, ClearedSame, ClientFields
<1>9. CASE page.loading = none
  <2>1. Ends(s)
    BY <1>2, <1>5, <1>6, <1>9, BecomesFacts
  <2>2. /\ page' = s.page /\ page' \in Page /\ client' \in [Workers -> Client]
        /\ \A v \in Workers : client'[v] = Cleared(d.client[v])
    BY <1>5, <2>1 DEF Ends
  <2>3. (client[w].failed /\ Kept(w)) \/ Told(w)
    BY <1>2, <1>8, <2>2 DEF Kept, Told
  <2>4. \A v \in Workers \ {w} : Kept(v)
    BY <1>2, <1>8, <2>2 DEF Kept
  <2>5. client[w].reply = "none" /\ \A v \in Workers : client[v].reply = "none"
    BY <1>3, <1>9 DEF OneLoad
  <2>6. client'[w].failed /\ client'[w].reply = "none"
    BY <1>7, <2>3, <2>5, ClientFields DEF Kept, Told
  <2>7. \A v \in Workers : client'[v].reply = "none"
    BY <2>4, <2>5, <2>6 DEF Kept
  <2>8. /\ page'.worker = none /\ page'.created = page.created /\ ~ page'.mounted
        /\ page'.loading = none /\ page'.viewport = page.viewport
    BY <1>6, <1>9, <2>2
  <2>9. WorkerInv(w)'
    BY <1>3, <2>3, <2>8, KeptKeeps, ToldKeeps
  <2>10. Typed'
    BY <1>2, <2>2 DEF Typed
  <2>11. CurrentWorker' /\ OneLoad' /\ ReadyForOne'
    BY <2>7, <2>8 DEF CurrentWorker, OneLoad, ReadyForOne
  <2> QED BY <1>1, <1>3, <2>4, <2>6, <2>8, <2>9, <2>10, <2>11, SameWorkers DEF NoLateReply
<1>10. CASE page.loading # none
  <2>1. page.loading = w /\ ~ client[w].failed /\ page.created < MaxWorkers
    BY <1>1, <1>10 DEF OneLoad
  <2>2. s.client[w].reply = "none" /\ s.client[w].failed
    BY <1>4, <1>5, <1>7, <2>1, ClientFields
  <2>3. n \in Workers /\ Restarts(s, n)
    <3>1. /\ s.page.loading # none /\ s.page.created < MaxWorkers
          /\ s.page.worker \in {s.page.loading, none}
          /\ s.client[s.page.loading].reply = "none" /\ s.client[s.page.loading].failed
      BY <1>3, <1>6, <2>1, <2>2
    <3>2. s.page.created + 1 \in Workers /\ Restarts(s, s.page.created + 1)
      BY <1>2, <1>5, <3>1, BecomesFacts
    <3> QED BY <1>6, <3>2
  <2> HIDE DEF n
  <2>4. /\ page' \in Page /\ client' \in [Workers -> Client] /\ client'[n] = NewClient
        /\ \A v \in Workers \ {n} : client'[v] = Cleared(d.client[v])
    BY <1>5, <2>3 DEF Restarts
  <2>5. page'.worker = n /\ page'.created = n /\ page'.workerState = "starting"
        /\ page'.loading = none /\ page'.viewport = page.viewport
    BY <1>5, <2>3 DEF Restarts, States, Page
  <2>6. w # n /\ n > page.created
    BY <1>3, <2>3 DEF n
  <2>7. Fresh(n)
    BY <1>2, <2>3, <2>4, <2>6 DEF Fresh, Numbered
  <2>8. Told(w) /\ client'[w].failed /\ client'[w].reply = "none"
    BY <1>2, <1>7, <1>8, <2>1, <2>4, <2>6, ClientFields DEF Told
  <2>9. \A v \in Workers \ {n} : v # w => Kept(v) /\ client'[v].reply = "none"
    BY <1>2, <1>8, <2>1, <2>4 DEF Kept, OneLoad
  <2> QED BY <1>1, <1>2, <1>3, <2>3, <2>4, <2>5, <2>7, <2>8, <2>9, NextWorker DEF Typed, n, NoLateReply
<1> QED BY <1>9, <1>10

\* A worker that fails is the page's: the page says so, or has a fresh one.
LEMMA FailKeeps ==
  ASSUME ViewerInv, NEW w \in Workers, w <= page.created, ~ client[w].failed,
         Becomes(Fail(State, w)), host' \in [Workers -> Host],
         \A v \in Workers \ {w} : host'[v] = host[v],
         host'[w].closed, ~ host'[w].engine, host'[w].outbox = <<>>,
         host'[w].database = host[w].database
  PROVE  ViewerInv' /\ NoLateReply
<1> USE DEF ViewerInv
<1>1. w = page.worker
  BY WorkerNumbers DEF NoWorkerForgotten
<1>2. /\ page.created \in Nat /\ w # none /\ \A v \in Workers : v \in Nat /\ v # none
  BY WorkerNumbers
<1> DEFINE t == Terminated(State, w)
           s == [t EXCEPT !.page.workerState = "failed"]
           n == page.created + 1
<1>3. /\ t \in States /\ t.page = page /\ t.client[w] = Over(client[w])
      /\ \A v \in Workers \ {w} : t.client[v] = client[v]
  BY StateIsTyped, TerminatedFacts
<1>4. Becomes(s)
  BY <1>1, <1>3, StateIsTyped DEF Fail, Report
<1> HIDE DEF t
<1>5. /\ s \in States /\ s.page = [page EXCEPT !.workerState = "failed"] /\ s.client = t.client
  BY <1>3 DEF States, Page
<1> HIDE DEF s
<1>6. /\ s.page.worker = w /\ s.page.created = page.created /\ s.page.mounted = page.mounted
      /\ s.page.loading = page.loading /\ s.page.workerState = "failed"
      /\ s.page.viewport = page.viewport
  BY <1>1, <1>5 DEF Page
<1>7. /\ Over(client[w]) \in Client
      /\ Cleared(Over(client[w])).failed /\ Cleared(Over(client[w])).reply = "none"
      /\ Cleared(Over(client[w])).terminated /\ Cleared(Over(client[w])).inbox = <<>>
      /\ s.client[w].failed /\ s.client[w].reply = "none"
  BY <1>3, <1>5, ClientFields
<1>8. \A v \in Workers \ {w} : Cleared(s.client[v]) = client[v]
  BY <1>3, <1>5, ClearedSame
<1>9. CASE page.loading = none
  <2>1. Ends(s)
    BY <1>4, <1>5, <1>6, <1>9, BecomesFacts
  <2>2. /\ page' = s.page /\ page' \in Page /\ client' \in [Workers -> Client]
        /\ \A v \in Workers : client'[v] = Cleared(s.client[v])
    BY <2>1 DEF Ends
  <2>3. Ended(w)
    BY <1>3, <1>5, <1>7, <2>2 DEF Ended
  <2>4. \A v \in Workers \ {w} : Kept(v)
    BY <1>8, <2>2 DEF Kept
  <2>5. \A v \in Workers : client'[v].reply = "none"
    BY <1>2, <1>9, <2>3, <2>4 DEF OneLoad, Ended, Kept
  <2>6. /\ page'.worker = w /\ page'.created = page.created /\ page'.workerState = "failed"
        /\ page'.loading = none /\ page'.viewport = page.viewport
    BY <1>6, <1>9, <2>2
  <2>7. WorkerInv(w)'
    BY <2>3, EndedKeeps
  <2>8. CurrentWorker' /\ OneLoad' /\ ReadyForOne'
    BY <1>2, <2>3, <2>5, <2>6 DEF CurrentWorker, OneLoad, ReadyForOne, Ended
  <2>9. client'[w].failed /\ page'.worker = page.worker
    BY <1>1, <2>3, <2>6 DEF Ended
  <2> QED BY <1>1, <2>2, <2>4, <2>6, <2>7, <2>8, <2>9, SameWorkers DEF Typed, NoLateReply
<1>10. CASE page.loading # none
  <2>1. page.loading = w /\ page.created < MaxWorkers
    BY <1>1, <1>10 DEF OneLoad
  <2>2. n \in Workers /\ Restarts(s, n)
    <3>1. /\ s.page.loading # none /\ s.page.created < MaxWorkers
          /\ s.page.worker \in {s.page.loading, none}
          /\ s.client[s.page.loading].reply = "none" /\ s.client[s.page.loading].failed
      BY <1>2, <1>6, <1>7, <2>1
    <3>2. s.page.created + 1 \in Workers /\ Restarts(s, s.page.created + 1)
      BY <1>4, <1>5, <3>1, BecomesFacts
    <3> QED BY <1>6, <3>2
  <2> HIDE DEF n
  <2>3. /\ page' \in Page /\ client' \in [Workers -> Client] /\ client'[n] = NewClient
        /\ \A v \in Workers \ {n} : client'[v] = Cleared(s.client[v])
    BY <2>2 DEF Restarts
  <2>4. page'.worker = n /\ page'.created = n /\ page'.workerState = "starting"
        /\ page'.loading = none /\ page'.viewport = page.viewport
    BY <1>5, <2>2 DEF Restarts, States, Page
  <2>5. w # n /\ n > page.created
    BY <1>2, <2>2 DEF n
  <2>6. Fresh(n)
    BY <2>2, <2>3, <2>5 DEF Fresh, Numbered
  <2>7. Ended(w)
    BY <1>3, <1>5, <1>7, <2>3, <2>5 DEF Ended
  <2>8. \A v \in Workers \ {n} : v # w => Kept(v) /\ client'[v].reply = "none"
    BY <1>8, <2>1, <2>3 DEF Kept, OneLoad
  <2>9. client'[w].failed /\ client'[w].reply = "none"
    BY <2>7 DEF Ended
  <2> QED BY <1>1, <2>2, <2>3, <2>4, <2>6, <2>7, <2>8, <2>9, NextWorker DEF Typed, n, NoLateReply
<1> QED BY <1>9, <1>10

\* A task that changes nothing of the page's leaves a load waiting.
LEMMA NothingEnds ==
  ASSUME ViewerInv, Becomes(State)
  PROVE  page' = page /\ client' = client
<1>1. State \in States /\ State.page = page /\ State.client = client
  BY StateIsTyped
<1>2. Ends(State)
  BY <1>1, BecomesFacts DEF ViewerInv, OneLoad
<1>3. page' = page /\ client' \in [Workers -> Client] /\ \A v \in Workers : client'[v] = client[v]
  BY <1>1, <1>2, ClearedSame DEF Ends
<1> QED BY <1>3 DEF ViewerInv

LEMMA FailEnds ==
  ASSUME ViewerInv, NEW w \in Workers
  PROVE  /\ client[w].failed => Fail(State, w) = State
         /\ ~ client[w].failed => Fail(State, w).client[w].terminated
<1>1. State \in States /\ State.client = client
  BY StateIsTyped
<1>2. client[w] \in Client
  BY DEF ViewerInv
<1>3. Terminated(State, w) \in States /\ Terminated(State, w).client[w].terminated
  BY <1>1, <1>2, TerminatedFacts, ClientFields
<1>4. Report(Terminated(State, w), w, "failed").client = Terminated(State, w).client
  BY <1>3 DEF Report, States
<1> QED BY <1>1, <1>3, <1>4 DEF Fail

LEMMA WorkerErrorKeeps ==
  ASSUME ViewerInv, NEW w \in Workers, WorkerError(w)
  PROVE  ViewerInv' /\ NoLateReply
<1> DEFINE s == Fail(State, w)
<1>1. /\ ~ client[w].terminated /\ Becomes(s)
      /\ host' = [host EXCEPT ![w] = HostOf(w, host[w], s)]
  BY DEF WorkerError
<1>2. w <= page.created /\ host[w] \in Host
  BY <1>1, OnlyCreated
<1>3. /\ host' \in [Workers -> Host]
      /\ \A v \in Workers \ {w} : host'[v] = host[v]
      /\ s.client[w].terminated => /\ host'[w].closed /\ ~ host'[w].engine
                                   /\ host'[w].outbox = <<>>
                                   /\ host'[w].database = host[w].database
      /\ ~ s.client[w].terminated => host'[w] = host[w]
  BY <1>1, <1>2, HostOfFacts
<1>4. CASE client[w].failed
  <2>1. s = State
    BY <1>4, FailEnds
  <2>2. page' = page /\ client' = client
    BY <1>1, <2>1, NothingEnds
  <2>3. ~ s.client[w].terminated
    BY <1>1, <2>1, StateIsTyped
  <2>4. host' = host
    BY <1>3, <2>3 DEF ViewerInv
  <2> QED BY <2>2, <2>4
          DEF NoLateReply, ViewerInv, Numbered, CurrentWorker, OneLoad, ReadyForOne, NoWorkerForgotten,
              Gone, OneRequest, Asking, Working, Answering, Stopping, Parting, EngineEnded
<1>5. CASE ~ client[w].failed
  <2>1. s.client[w].terminated
    BY <1>5, FailEnds
  <2> QED BY <1>1, <1>2, <1>3, <1>5, <2>1, FailKeeps
<1> QED BY <1>4, <1>5

-----------------------------------------------------------------------------
(* The messages of a worker *)

\* What a message comes to when its client is not terminated by it.
LEMMA HeardOnly ==
  ASSUME ViewerInv, Typed', NEW w \in Workers, w <= page.created, Heard(w), client' = client,
         \A v \in Workers \ {w} : host'[v] = host[v],
         \/ page' = page
         \/ page' = [page EXCEPT !.workerState = "ready"] /\ w = page.worker
  PROVE  ViewerInv' /\ NoLateReply
<1> USE DEF ViewerInv
<1>1. /\ page'.worker = page.worker /\ page'.created = page.created
      /\ page'.mounted = page.mounted /\ page'.loading = page.loading
      /\ page'.viewport = page.viewport /\ (page' = page \/ w = page.worker)
      /\ page'.workerState \in {page.workerState, "ready"}
  BY DEF Page
<1>2. /\ WorkerInv(w)' /\ ~ Answering(w)' /\ ~ client[w].terminated
      /\ ~ client[w].failed => ~ Asking(w)' /\ ~ Working(w)'
  BY HeardKeeps, TakenFacts DEF Heard
<1>3. \A v \in Workers \ {w} : Kept(v)
  BY DEF Kept
<1>4. CurrentWorker'
  <2>1. w = page.worker => ~ client[w].failed
    BY <1>2, WorkerNumbers DEF CurrentWorker
  <2> QED BY <1>1, <2>1 DEF CurrentWorker
<1>5. OneLoad'
  <2>1. page'.loading # none => page'.workerState = "ready"
    BY <1>1 DEF OneLoad
  <2> QED BY <1>1, <2>1 DEF OneLoad
<1>6. ReadyForOne'
  <2> SUFFICES ASSUME page.worker # none, page'.workerState = "ready"
               PROVE  \/ client[page.worker].failed \/ client[page.worker].reply # "none"
                      \/ ~ (Asking(page.worker) \/ Working(page.worker) \/ Answering(page.worker))'
    BY <1>1 DEF ReadyForOne
  <2>1. CASE page.worker = w
    BY <1>1, <1>2, <2>1 DEF Asking, Working, Answering
  <2>2. CASE page.worker # w
    <3>1. page.worker \in Workers \ {w}
      BY <2>2, WorkerNumbers
    <3> QED BY <1>1, <1>3, <2>2, <3>1 DEF ReadyForOne, Kept, Asking, Working, Answering
  <2> QED BY <2>1, <2>2
<1> QED BY <1>1, <1>2, <1>3, <1>4, <1>5, <1>6, SameWorkers DEF NoLateReply

\* The page's load goes on: its worker is asked for the first rows.
LEMMA AckKeeps ==
  ASSUME ViewerInv, NEW w \in Workers, Taken(w), client[w].reply # "none",
         Becomes(Send(State, w, "viewport", "viewport")), host' \in [Workers -> Host],
         \A v \in Workers \ {w} : host'[v] = host[v]
  PROVE  ViewerInv' /\ NoLateReply
<1> USE DEF ViewerInv
<1> DEFINE t == Send(State, w, "viewport", "viewport")
<1>1. /\ page.loading = w /\ w # none /\ page.mounted /\ w = page.worker
      /\ page.viewport = none /\ page.workerState = "ready" /\ page.created < MaxWorkers
      /\ ~ client[w].failed /\ client[w] \in Client /\ ~ client[w].terminated
      /\ w <= page.created
  BY WorkerNumbers, OnlyCreated DEF OneLoad, Numbered
<1>2. /\ t \in States /\ t.page = page /\ t.client[w] = Asked(client[w], "viewport", "viewport")
      /\ \A v \in Workers \ {w} : t.client[v] = client[v]
  BY <1>1, StateIsTyped, SendFacts DEF ClientMessages
<1> HIDE DEF t
<1>3. client[w].inbox = <<>> /\ ~ Working(w) /\ host'[w].outbox = <<>>
  BY <1>1, TakenFacts
<1> DEFINE c == Asked(client[w], "viewport", "viewport")
<1>4. /\ c \in Client /\ c.failed = client[w].failed /\ c.terminated = client[w].terminated
      /\ c.reply = "viewport" /\ c.inbox = <<"viewport">> /\ Cleared(c) = c
  BY <1>1, <1>3, ClientFields, ShortSequences DEF ClientMessages
<1> HIDE DEF c
<1>5. Ends(t)
  BY <1>1, <1>2, <1>4, BecomesFacts DEF t, c
<1>6. /\ page' = page /\ client' \in [Workers -> Client] /\ client'[w] = c
      /\ \A v \in Workers \ {w} : client'[v] = client[v]
  BY <1>2, <1>4, <1>5, ClearedSame DEF Ends, c
<1>7. WorkerInv(w)'
  <2>1. /\ host'[w].job = host[w].job /\ host'[w].shutdown = host[w].shutdown
        /\ EngineEnded(host'[w])
    BY TakenFacts
  <2>2. Requested(w)
    BY <1>1, <1>3, <1>4, <1>6, <2>1 DEF Requested
  <2> QED BY <2>2, RequestedKeeps
<1>8. (\A v \in Workers \ {w} : Kept(v)) /\ Typed'
  BY <1>6 DEF Kept, Typed
<1>9. CurrentWorker' /\ ReadyForOne' /\ OneLoad'
  BY <1>1, <1>4, <1>6 DEF CurrentWorker, ReadyForOne, OneLoad
<1> QED BY <1>1, <1>4, <1>6, <1>7, <1>8, <1>9, SameWorkers DEF NoLateReply

\* The page's load is over: the rows are those of its worker.
LEMMA ShownKeeps ==
  ASSUME ViewerInv, NEW w \in Workers, Taken(w), client[w].reply # "none",
         Becomes([State EXCEPT !.client[w].reply = "none",
                               !.page = [@ EXCEPT !.viewport = w, !.loading = none]]),
         host' \in [Workers -> Host],
         \A v \in Workers \ {w} : host'[v] = host[v]
  PROVE  ViewerInv' /\ NoLateReply
<1> USE DEF ViewerInv
<1> DEFINE t == [State EXCEPT !.client[w].reply = "none",
                               !.page = [@ EXCEPT !.viewport = w, !.loading = none]]
           c == [client[w] EXCEPT !.reply = "none"]
<1>1. /\ page.loading = w /\ w # none /\ page.mounted /\ w = page.worker
      /\ page.workerState = "ready"
      /\ ~ client[w].failed /\ client[w] \in Client /\ ~ client[w].terminated
      /\ w <= page.created
  BY WorkerNumbers, OnlyCreated DEF OneLoad, Numbered
<1>2. /\ c \in Client /\ c.failed = client[w].failed /\ c.terminated = client[w].terminated
      /\ c.reply = "none" /\ c.inbox = client[w].inbox
  BY <1>1 DEF Client
<1> DEFINE p == [page EXCEPT !.viewport = w, !.loading = none]
<1>3. p \in Page /\ p.loading = none /\ p.viewport = w
      /\ p.worker = page.worker /\ p.created = page.created /\ p.mounted = page.mounted
      /\ p.workerState = page.workerState
  BY DEF Page
<1>4. t = [State EXCEPT !.client[w] = c, !.page = p]
  BY StateIsTyped DEF State
<1> HIDE DEF c, p, t
<1>5. /\ t \in States /\ t.page = p /\ t.client[w] = c
      /\ \A v \in Workers \ {w} : t.client[v] = client[v]
  BY <1>2, <1>3, <1>4, StateIsTyped DEF States
<1>6. Ends(t)
  BY <1>3, <1>5, BecomesFacts DEF t
<1>7. /\ page' = p /\ client' \in [Workers -> Client] /\ client'[w] = c
      /\ \A v \in Workers \ {w} : client'[v] = client[v]
  <2>1. Cleared(c) = c
    BY <1>1, <1>2, ClientFields
  <2> QED BY <1>5, <1>6, <2>1, ClearedSame DEF Ends
<1>8. WorkerInv(w)' /\ ~ Answering(w)' /\ ~ Asking(w)' /\ ~ Working(w)'
  <2>1. Heard(w)
    BY <1>2, <1>7 DEF Heard
  <2> QED BY <1>1, <2>1, HeardKeeps
<1>9. (\A v \in Workers \ {w} : Kept(v)) /\ Typed'
  BY <1>3, <1>7 DEF Kept, Typed
<1>10. \A v \in Workers : client'[v].reply = "none"
  BY <1>1, <1>2, <1>7 DEF OneLoad
<1>11. CurrentWorker' /\ OneLoad'
  BY <1>1, <1>2, <1>3, <1>7, <1>10 DEF CurrentWorker, OneLoad
<1>12. ReadyForOne'
  BY <1>1, <1>3, <1>7, <1>8 DEF ReadyForOne, Asking, Working, Answering
<1> QED BY <1>1, <1>2, <1>3, <1>7, <1>8, <1>9, <1>11, <1>12, SameWorkers DEF NoLateReply

\* A worker's last message: only a worker told to stop, and not the page's, sends it.
LEMMA DestroyedKeeps ==
  ASSUME ViewerInv, NEW w \in Workers, host[w].outbox # <<>>,
         Head(host[w].outbox) = "destroyed",
         Becomes(Terminated(State, w)), host' \in [Workers -> Host],
         \A v \in Workers \ {w} : host'[v] = host[v],
         host'[w].closed, ~ host'[w].engine, host'[w].outbox = <<>>,
         host'[w].database = host[w].database
  PROVE  ViewerInv' /\ NoLateReply
<1> DEFINE t == Terminated(State, w)
<1>1. /\ w <= page.created /\ ~ client[w].terminated /\ client[w] \in Client
      /\ OneRequest(w) /\ page \in Page /\ w # none
  BY OnlyCreated, WorkerNumbers DEF ViewerInv, Gone
<1>2. client[w].failed
  <2>1. ASSUME NEW m \in Answers, host[w].outbox \in {<<m>>, <<m, "destroyed">>} PROVE FALSE
    <3>1. Head(host[w].outbox) = m
      BY <2>1, ShortSequences
    <3> QED BY <3>1 DEF Answers
  <2>2. Parting(w)
    BY <1>1, <2>1 DEF OneRequest, Answering
  <2> QED BY <1>1, <2>2 DEF OneRequest
<1>3. w # page.worker
  BY <1>1, <1>2 DEF ViewerInv, CurrentWorker
<1>4. page.loading # w /\ client[w].reply = "none"
  BY <1>1, <1>3 DEF ViewerInv, OneLoad
<1>5. /\ t \in States /\ t.page = page /\ t.client[w] = Over(client[w])
      /\ \A v \in Workers \ {w} : t.client[v] = client[v]
  BY StateIsTyped, TerminatedFacts
<1>6. /\ Cleared(Over(client[w])).failed /\ Cleared(Over(client[w])).reply = "none"
      /\ Cleared(Over(client[w])).terminated /\ Cleared(Over(client[w])).inbox = <<>>
  BY <1>1, ClientFields
<1> HIDE DEF t
<1>7. Ends(t)
  <2>1. page.loading # none =>
          page.loading \in Workers \ {w} /\ client[page.loading].reply # "none"
    BY <1>1, <1>4, WorkerNumbers DEF ViewerInv, OneLoad
  <2> QED BY <1>5, <2>1, BecomesFacts DEF t
<1>8. /\ page' = page /\ client' \in [Workers -> Client] /\ client'[w] = Cleared(Over(client[w]))
      /\ \A v \in Workers \ {w} : client'[v] = client[v]
  BY <1>5, <1>7, ClearedSame DEF Ends
<1>9. Ended(w) /\ \A v \in Workers \ {w} : Kept(v)
  BY <1>6, <1>8 DEF Ended, Kept
<1>10. WorkerInv(w)' /\ Typed'
  BY <1>1, <1>8, <1>9, EndedKeeps DEF Typed
<1>11. page.worker # none => page.worker \in Workers \ {w}
  BY <1>1, <1>3, WorkerNumbers
<1>12. CurrentWorker'
  BY <1>8, <1>11 DEF ViewerInv, CurrentWorker
<1>13. OneLoad'
  BY <1>6, <1>8, <1>11 DEF ViewerInv, OneLoad
<1>14. ReadyForOne'
  BY <1>8, <1>9, <1>11 DEF ViewerInv, ReadyForOne, Kept, Asking, Working, Answering
<1> QED BY <1>1, <1>8, <1>9, <1>10, <1>12, <1>13, <1>14, SameWorkers DEF Ended, NoLateReply

LEMMA ReceiveKeeps ==
  ASSUME ViewerInv, NEW w \in Workers, Receive(w)
  PROVE  ViewerInv' /\ NoLateReply
<1> DEFINE m == Head(host[w].outbox)
           s == Received(w, m)
           h == [host[w] EXCEPT !.outbox = Tail(@)]
<1>1. host[w].outbox # <<>> /\ Becomes(s) /\ host' = [host EXCEPT ![w] = HostOf(w, h, s)]
  BY DEF Receive
<1>2. /\ w <= page.created /\ ~ client[w].terminated /\ client[w] \in Client
      /\ host[w] \in Host /\ page \in Page
  BY <1>1, OnlyCreated DEF ViewerInv, Gone
<1>3. h \in Host /\ m \in HostMessages /\ h.database = host[w].database
  BY <1>1, <1>2, TailTyped DEF Host
<1> HIDE DEF h, m
<1>4. /\ host' \in [Workers -> Host]
      /\ \A v \in Workers \ {w} : host'[v] = host[v]
      /\ s.client[w].terminated => /\ host'[w].closed /\ ~ host'[w].engine
                                   /\ host'[w].outbox = <<>>
                                   /\ host'[w].database = host[w].database
      /\ ~ s.client[w].terminated => host'[w] = h
  BY <1>1, <1>3, HostOfFacts
<1>5. host'[w] = h => Taken(w)
  BY <1>1 DEF Taken, h
<1>6. State \in States /\ State.page = page /\ State.client = client
  BY StateIsTyped
<1>7. CASE m = "ready"
  <2>1. s = Report(State, w, "ready")
    BY <1>7 DEF Received
  <2>2. /\ s \in States /\ s.client = client /\ s.page.loading = page.loading
        /\ s.page = page \/ (s.page = [page EXCEPT !.workerState = "ready"] /\ w = page.worker)
    BY <1>2, <1>6, <2>1 DEF Report, States, Page
  <2> HIDE DEF s
  <2>3. Ends(s)
    BY <1>1, <2>2, BecomesFacts DEF ViewerInv, OneLoad, s
  <2>4. page' = s.page /\ page' \in Page /\ client' = client
    BY <2>2, <2>3, ClearedSame DEF Ends, ViewerInv
  <2>5. Heard(w) /\ Typed'
    BY <1>2, <1>4, <1>5, <2>2, <2>4 DEF Heard, Typed, ViewerInv
  <2> QED BY <1>2, <1>4, <2>2, <2>4, <2>5, HeardOnly
<1>8. CASE m \in {"ack", "viewport"} /\ client[w].reply = m
  <2>1. ASSUME m = "ack" PROVE ViewerInv' /\ NoLateReply
    <3>1. s = Send(State, w, "viewport", "viewport")
      BY <1>8, <2>1 DEF Received, Replied
    <3>2. client[w].reply # "none" /\ ~ client[w].failed
      BY <1>2, <1>8, <2>1, WorkerNumbers DEF ViewerInv, OneLoad
    <3>3. ~ s.client[w].terminated /\ s \in States /\ s.page = page
          /\ s.client[w] = Asked(client[w], "viewport", "viewport")
      BY <1>2, <1>6, <3>1, <3>2, SendFacts, ClientFields DEF ClientMessages
    <3>4. Taken(w)
      BY <1>2, <1>4, <1>5, <3>3, ClientFields DEF ClientMessages
    <3> QED BY <1>1, <1>4, <3>1, <3>2, <3>4, AckKeeps
  <2>2. ASSUME m = "viewport" PROVE ViewerInv' /\ NoLateReply
    <3> DEFINE u == [State EXCEPT !.client[w].reply = "none",
                                  !.page = [@ EXCEPT !.viewport = w, !.loading = none]]
    <3>1. s = u
      BY <1>8, <2>2 DEF Received, Replied
    <3>2. client[w].reply # "none"
      BY <1>8, <2>2
    <3>3. u.client[w].terminated = client[w].terminated
      BY <1>6 DEF States, Client
    <3> HIDE DEF s, u
    <3>4. Taken(w)
      BY <1>2, <1>4, <1>5, <3>1, <3>3
    <3> QED BY <1>1, <1>4, <3>1, <3>2, <3>4, ShownKeeps DEF u
  <2> QED BY <1>8, <2>1, <2>2
<1>9. CASE m = "failed" \/ (m \in {"ack", "viewport"} /\ client[w].reply # m)
  <2>1. s = Fail(State, w)
    BY <1>9 DEF Received, Replied
  <2>2. CASE client[w].failed
    <3>1. s = State
      BY <2>1, <2>2, FailEnds
    <3>2. page' = page /\ client' = client
      BY <1>1, <3>1, NothingEnds
    <3>3. host'[w] = h
      BY <1>2, <1>4, <1>6, <3>1
    <3> QED BY <1>2, <1>4, <1>5, <3>2, <3>3, HeardOnly DEF Heard, Typed, ViewerInv
  <2>3. CASE ~ client[w].failed
    BY <1>1, <1>2, <1>4, <2>1, <2>3, FailEnds, FailKeeps
  <2> QED BY <2>2, <2>3
<1>10. CASE m = "destroyed"
  <2>1. s = Terminated(State, w)
    BY <1>10 DEF Received
  <2>2. s.client[w].terminated
    BY <1>2, <1>6, <2>1, TerminatedFacts, ClientFields
  <2> QED BY <1>1, <1>4, <1>10, <2>1, <2>2, DestroyedKeeps DEF m
<1> QED BY <1>3, <1>7, <1>8, <1>9, <1>10 DEF HostMessages

-----------------------------------------------------------------------------
(* The invariant holds *)

LEMMA InitInvariant == Init => ViewerInv
<1> SUFFICES ASSUME Init PROVE ViewerInv
  OBVIOUS
<1>1. /\ page = [mounted |-> TRUE, worker |-> 1, workerState |-> "starting",
                 loading |-> none, viewport |-> none, created |-> 1]
      /\ client = [w \in Workers |-> IF w = 1 THEN NewClient ELSE NoClient]
      /\ host = [w \in Workers |-> NewHost]
  BY DEF Init
<1>2. 1 \in Workers /\ \A w \in Workers : w \in Nat /\ w # none
  BY ViewerAssumption DEF Workers, none
<1>3. page \in Page /\ client \in [Workers -> Client] /\ host \in [Workers -> Host]
  <2>1. NewHost \in Host
    BY ShortSequenceTypes DEF NewHost, Host
  <2> QED BY <1>1, <1>2, <2>1, NewClients DEF Page, none
<1>4. Numbered /\ NoWorkerForgotten /\ ReadyForOne
  BY <1>1, <1>2 DEF Numbered, NoWorkerForgotten, ReadyForOne
<1>5. CurrentWorker /\ OneLoad
  BY <1>1, <1>2, NewClients DEF CurrentWorker, OneLoad, none
<1>6. ASSUME NEW w \in Workers PROVE Gone(w) /\ OneRequest(w) /\ EngineEnded(host[w])
  <2>1. host[w].job = "idle" /\ host[w].outbox = <<>> /\ host[w].shutdown = "none"
        /\ ~ host[w].engine /\ ~ host[w].closed
    BY <1>1 DEF NewHost
  <2>2. ~ Working(w) /\ ~ Answering(w) /\ ~ Parting(w) /\ EngineEnded(host[w])
    BY <2>1, ShortSequences DEF Working, Active, Answering, Parting, EngineEnded
  <2>3. CASE w = 1
    <3>1. client[w].inbox = <<"initialize">> /\ ~ client[w].terminated
      BY <1>1, <2>3, NewClients
    <3>2. Asking(w) /\ ~ Stopping(w)
      <4>1. \A m \in Requests : <<"initialize">> # <<m, "destroy">>
        BY ShortSequences
      <4>2. <<"initialize">> # <<"destroy">>
        BY ShortSequences
      <4> QED BY <3>1, <4>1, <4>2 DEF Asking, Stopping, Requests
    <3> QED BY <2>1, <2>2, <3>1, <3>2 DEF Gone, OneRequest
  <2>4. CASE w # 1
    <3>1. client[w].inbox = <<>> /\ client[w].failed /\ ~ (w <= page.created)
      BY <1>1, <1>2, <2>4, NewClients DEF Workers
    <3>2. ~ Asking(w) /\ ~ Stopping(w)
      BY <3>1, ShortSequences DEF Asking, Stopping
    <3> QED BY <2>1, <2>2, <3>1, <3>2 DEF Gone, OneRequest
  <2> QED BY <2>3, <2>4
<1> QED BY <1>3, <1>4, <1>5, <1>6 DEF ViewerInv

LEMMA NextInvariant ==
  ASSUME ViewerInv, [Next]_vars
  PROVE  ViewerInv' /\ NoLateReply
<1>1. CASE Analyst
  BY <1>1, OpenKeeps, ReplaceKeeps, UnmountKeeps DEF Analyst
<1>2. ASSUME NEW w \in Workers, HostStep(w) PROVE ViewerInv' /\ NoLateReply
  <2>1. page' = page
    BY <1>2, HostStepMoves DEF OnlyMailbox
  <2> QED BY <1>2, <2>1, HostStepKeeps DEF NoLateReply
<1>3. ASSUME NEW w \in Workers, Receive(w) \/ WorkerError(w) PROVE ViewerInv' /\ NoLateReply
  BY <1>3, ReceiveKeeps, WorkerErrorKeeps
<1>4. CASE UNCHANGED vars
  BY <1>4
     DEF vars, NoLateReply, ViewerInv, Numbered, CurrentWorker, OneLoad, ReadyForOne,
         NoWorkerForgotten, Gone, OneRequest, Asking, Working, Answering, Stopping, Parting,
         EngineEnded
<1> QED BY <1>1, <1>2, <1>3, <1>4 DEF Next

LEMMA ViewerInvariant == Spec => []ViewerInv
<1>1. ViewerInv /\ [Next]_vars => ViewerInv'
  BY NextInvariant
<1> QED BY <1>1, InitInvariant, PTL DEF Spec

-----------------------------------------------------------------------------
(* What the invariant says *)

\* No mailbox of a worker ever holds more than a message and a farewell, however
\* many workers a page creates.
THEOREM ViewerTypes == Spec => []ViewerTypeOK
<1>1. ViewerInv => ViewerTypeOK
  <2> SUFFICES ASSUME ViewerInv PROVE ViewerTypeOK
    OBVIOUS
  <2>1. ASSUME NEW w \in Workers PROVE Len(client[w].inbox) <= 2 /\ Len(host[w].outbox) <= 2
    <3>1. OneRequest(w)
      BY DEF ViewerInv
    <3>2. Len(<<>>) <= 2 /\ Len(<<"destroy">>) <= 2 /\ Len(<<"destroyed">>) <= 2
      OBVIOUS
    <3>3. \A m \in Requests : Len(<<m>>) <= 2 /\ Len(<<m, "destroy">>) <= 2
      OBVIOUS
    <3>4. \A m \in Answers : Len(<<m>>) <= 2 /\ Len(<<m, "destroyed">>) <= 2
      OBVIOUS
    <3> QED BY <3>1, <3>2, <3>3, <3>4 DEF OneRequest, Asking, Stopping, Answering, Parting
  <2> QED BY <2>1 DEF ViewerTypeOK, ViewerInv
<1> QED BY <1>1, ViewerInvariant, PTL

\* startWorkspace, closing, retrying, a load that fails and unmounting each tell the
\* worker they leave behind to stop, or find it ended.
THEOREM NoWorkerIsForgotten == Spec => []NoWorkerForgotten
<1>1. ViewerInv => NoWorkerForgotten
  BY DEF ViewerInv
<1> QED BY <1>1, ViewerInvariant, PTL

\* A "ready" page has a worker that accepts requests: onState, filtered by the
\* current worker, never reports a state of one that was replaced.
THEOREM ReadyIsUsable == Spec => []ReadyMeansUsable
<1>1. ViewerInv => ReadyMeansUsable
  BY DEF ViewerInv, CurrentWorker, ReadyMeansUsable
<1> QED BY <1>1, ViewerInvariant, PTL

\* A worker that closed itself has terminated its engine, in whichever of its
\* handlers, or had none.
THEOREM ClosedWorkersHaveNoEngine == Spec => []ClosedWithoutEngine
<1>1. ViewerInv => ClosedWithoutEngine
  BY DEF ViewerInv, EngineEnded, ClosedWithoutEngine
<1> QED BY <1>1, ViewerInvariant, PTL

\* A reply that arrives when its load is no longer wanted shows nothing.
THEOREM LateRepliesDropped == Spec => LateRepliesAreDropped
<1>1. ViewerInv /\ [Next]_vars =>
        [page'.viewport # page.viewport /\ page'.viewport # none =>
           page.mounted /\ page'.viewport = page.worker]_vars
  BY NextInvariant DEF NoLateReply
<1> QED BY <1>1, ViewerInvariant, PTL DEF Spec, LateRepliesAreDropped

=============================================================================
