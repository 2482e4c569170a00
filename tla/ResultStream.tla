---------------------------- MODULE ResultStream ----------------------------
(***************************************************************************)
(* One result on its way from the server to the table the viewer shows:    *)
(*   - the framing generator of src/snowglobe/result_api.py over the IPC   *)
(*     chunks of arrow_stream.py, which looks the request up before every  *)
(*     frame it sends;                                                     *)
(*   - the connection, which delivers the bytes in pieces of any size and  *)
(*     may break at any byte;                                              *)
(*   - the database worker's load: the frame parser and the provisional    *)
(*     result (apps/viewer/src/result-stream.ts), the Arrow ingestion that *)
(*     runs beside it (arrow-ingest.ts), and the renaming that publishes   *)
(*     the table (duckdb.worker.ts).                                       *)
(*                                                                         *)
(* A byte is a record of its role.  The 23 bytes of magic are abstracted   *)
(* to two, and so is a frame's header: its type, then its length.          *)
(***************************************************************************)
EXTENDS Integers, Sequences, SequencesExt

CONSTANTS
  MaxBytes,   \* maximum_arrow_bytes and maximumResultBytes, which are equal
  MaxChunks   \* bound: the IPC chunks of a result

ASSUME StreamAssumption == MaxBytes \in Nat \ {0} /\ MaxChunks \in Nat \ {0}

VARIABLES
  source,     \* the length of every IPC chunk of the admitted result
  available,  \* whether a lookup finds the request complete
  server,     \* _framed_stream: "idle", "streaming", "ended" or "confirmed"
  next,       \* the chunk it serializes next
  wire,       \* the bytes sent and not yet read
  link,       \* the connection: "open", "ended" by the server, or "broken"
  phase,      \* the load: what it waits for, and how it ended
  parser,     \* the fields of ResultStreamParser, and whether it has thrown
  todo,       \* the chunks of the last push still to be inserted
  queue,      \* chunks written to the transform stream, not read by ingestion
  table,      \* the chunks ingested into the pending table
  ingestion   \* "running", "succeeded" or "failed"

serverVars == <<source, server, next>>
sinkVars   == <<queue, table, ingestion>>
vars == <<serverVars, available, wire, link, phase, parser, todo, sinkVars>>

-----------------------------------------------------------------------------
(* The bytes *)

Byte == [kind : {"magic", "arrow", "complete", "length", "data"}, a : Nat, b : Nat]

B(kind, a, b) == [kind |-> kind, a |-> a, b |-> b]

STREAM_MAGIC == <<B("magic", 1, 0), B("magic", 2, 0)>>
FRAME_HEADER_BYTES == 2

Header(type, length) == <<B(type, 0, 0), B("length", length, 0)>>

\* The k-th IPC chunk of a source.
Chunk(k) == [j \in 1 .. source[k] |-> B("data", k, j)]

\* The sums of the first lengths of s
Sums(s) == LET sum[k \in 0 .. Len(s)] == IF k = 0 THEN 0 ELSE sum[k - 1] + s[k] IN sum

Total(s) == Sums(s)[Len(s)]

\* What admission lets through: the whole serialization is within the limit.
Admitted == {s \in BoundedSeq(1 .. MaxBytes, MaxChunks) : s # <<>> /\ Total(s) <= MaxBytes}

-----------------------------------------------------------------------------
(* ResultStreamParser *)

NewParser == [buffer |-> <<>>, magicRead |-> FALSE, complete |-> FALSE,
              arrowBytes |-> 0, thrown |-> FALSE, chunks |-> <<>>]

Parser == [buffer : Seq(Byte), magicRead : BOOLEAN, complete : BOOLEAN,
           arrowBytes : Nat, thrown : BOOLEAN, chunks : Seq(Seq(Byte))]

\* Mutant: the limit forgets that a chunk of one byte has a header of its own.
BufferLimitWithoutHeaders == Len(STREAM_MAGIC) + FRAME_HEADER_BYTES + MaxBytes

maximumBufferedBytes ==
  Len(STREAM_MAGIC) + FRAME_HEADER_BYTES + MaxBytes * (FRAME_HEADER_BYTES + 1)

Throw(p) == [p EXCEPT !.thrown = TRUE, !.chunks = <<>>]

\* The loop of push stops: for good, or until the rest of a frame arrives.
Stops(p) ==
  \/ p.thrown
  \/ p.complete
  \/ Len(p.buffer) < FRAME_HEADER_BYTES
  \/ /\ p.buffer[1].kind = "arrow"
     /\ p.buffer[2].a \in 1 .. MaxBytes
     /\ p.buffer[2].a > Len(p.buffer) - FRAME_HEADER_BYTES

\* One turn of the loop: one frame.
ReadFrame(p) ==
  LET type   == p.buffer[1].kind
      length == p.buffer[2].a
      rest   == SubSeq(p.buffer, FRAME_HEADER_BYTES + 1, Len(p.buffer))
  IN CASE type = "complete" ->
            IF length # 0 \/ rest # <<>> THEN Throw(p)
            ELSE [p EXCEPT !.buffer = <<>>, !.complete = TRUE]
       [] type = "arrow" /\ length \in 1 .. MaxBytes
                         /\ p.arrowBytes + length <= MaxBytes ->
            [p EXCEPT !.buffer = SubSeq(rest, length + 1, Len(rest)),
                      !.arrowBytes = @ + length,
                      !.chunks = Append(@, SubSeq(rest, 1, length))]
       [] OTHER -> Throw(p)

ReadFrames[p \in Parser] == IF Stops(p) THEN p ELSE ReadFrames[ReadFrame(p)]

ReadMagic(p) ==
  IF p.magicRead \/ Len(p.buffer) < Len(STREAM_MAGIC) THEN p
  ELSE IF SubSeq(p.buffer, 1, Len(STREAM_MAGIC)) # STREAM_MAGIC THEN Throw(p)
  ELSE [p EXCEPT !.magicRead = TRUE,
                 !.buffer = SubSeq(@, Len(STREAM_MAGIC) + 1, Len(@))]

\* push; the chunks it returns are left in the parser's record.
Pushed(p, bytes) ==
  LET start == [p EXCEPT !.buffer = @ \o bytes, !.chunks = <<>>]
      ready == ReadMagic(start)
  IN IF p.complete \/ Len(start.buffer) > maximumBufferedBytes THEN Throw(p)
     ELSE IF ready.magicRead THEN ReadFrames[ready] ELSE ready

\* Mutant: the end of the stream is taken for the end of the result.
TruncationAccepted(p) == p.magicRead /\ p.buffer = <<>>

\* finish
Finishes(p) == p.magicRead /\ p.complete /\ p.buffer = <<>>

-----------------------------------------------------------------------------
StreamTypeOK ==
  /\ source \in Admitted
  /\ available \in BOOLEAN
  /\ server \in {"idle", "streaming", "ended", "confirmed"}
  /\ next \in 1 .. Len(source) + 1
  /\ wire \in Seq(Byte)
  /\ link \in {"open", "ended", "broken"}
  /\ phase \in {"opening", "reading", "inserting", "closing", "published", "failed"}
  /\ parser \in Parser
  /\ todo \in Seq(Seq(Byte))
  /\ queue \in Seq(Seq(Byte)) /\ Len(queue) <= 1
  /\ table \in Seq(Seq(Byte))
  /\ ingestion \in {"running", "succeeded", "failed"}

Init ==
  /\ source \in Admitted
  /\ available = TRUE
  /\ server = "idle"
  /\ next = 1
  /\ wire = <<>>
  /\ link = "open"
  /\ phase = "opening"
  /\ parser = NewParser
  /\ todo = <<>>
  /\ queue = <<>>
  /\ table = <<>>
  /\ ingestion = "running"

-----------------------------------------------------------------------------
(* The server *)

\* The request expires, is cancelled or is evicted.
Revoke ==
  /\ available
  /\ available' = FALSE
  /\ UNCHANGED <<serverVars, wire, link, phase, parser, todo, sinkVars>>

\* stream_request and openResultStream: the answer is the stream, or 404.
Open ==
  /\ phase = "opening"
  /\ link = "open"
  /\ IF available
     THEN phase' = "reading" /\ server' = "streaming" /\ wire' = STREAM_MAGIC
     ELSE phase' = "failed" /\ UNCHANGED <<server, wire>>
  /\ UNCHANGED <<available, source, next, link, parser, todo, sinkVars>>

\* Mutant: the request is looked up once, when the stream is opened.
LookedUpOnce == TRUE

\* open_source finds the request complete, and with the same source.
StillAvailable == available

\* Mutant: a result of exactly the limit is refused.
BelowLimit == Sums(source)[next] < MaxBytes

WithinLimit == Sums(source)[next] <= MaxBytes

\* One chunk, framed; an unavailable request or an error ends the stream short.
SendChunk ==
  /\ server = "streaming"
  /\ next <= Len(source)
  /\ IF StillAvailable /\ WithinLimit
     THEN /\ wire' = IF link = "broken" THEN <<>>
                     ELSE wire \o Header("arrow", source[next]) \o Chunk(next)
          /\ next' = next + 1
          /\ UNCHANGED <<server, link>>
     ELSE /\ server' = "ended"
          /\ link' = IF link = "open" THEN "ended" ELSE link
          /\ UNCHANGED <<wire, next>>
  /\ UNCHANGED <<available, source, phase, parser, todo, sinkVars>>

\* The completion frame, after one more lookup.
SendComplete ==
  /\ server = "streaming"
  /\ next > Len(source)
  /\ link' = IF link = "open" THEN "ended" ELSE link
  /\ IF StillAvailable
     THEN /\ wire' = IF link = "broken" THEN <<>> ELSE wire \o Header("complete", 0)
          /\ server' = "confirmed"
     ELSE UNCHANGED wire /\ server' = "ended"
  /\ UNCHANGED <<available, source, next, phase, parser, todo, sinkVars>>

\* The connection breaks, or the load is aborted: what is in flight is lost.
Break ==
  /\ phase \notin {"published", "failed"}
  /\ link # "broken"
  /\ link' = "broken"
  /\ wire' = <<>>
  /\ UNCHANGED <<serverVars, available, phase, parser, todo, sinkVars>>

-----------------------------------------------------------------------------
(* The load *)

Load(newPhase) == phase' = newPhase /\ UNCHANGED <<serverVars, available>>

\* reader.read and push of a piece of n bytes
Read(n) ==
  /\ phase = "reading"
  /\ n <= Len(wire)
  /\ LET p == Pushed(parser, SubSeq(wire, 1, n)) IN
       /\ parser' = [p EXCEPT !.chunks = <<>>]
       /\ todo' = p.chunks
       /\ Load(IF p.thrown THEN "failed"
               ELSE IF p.chunks # <<>> THEN "inserting" ELSE "reading")
  /\ wire' = SubSeq(wire, n + 1, Len(wire))
  /\ UNCHANGED <<link, sinkVars>>

\* Mutants: the write is queued behind a full queue; a failed ingestion leaves the
\* write waiting.
InsertWithoutBackpressure ==
  /\ phase = "inserting"
  /\ queue' = Append(queue, Head(todo))
  /\ todo' = Tail(todo)
  /\ Load(IF Len(todo) > 1 THEN "inserting" ELSE "reading")
  /\ UNCHANGED <<wire, link, parser, table, ingestion>>

InsertIgnoringFailure ==
  /\ queue = <<>>
  /\ InsertWithoutBackpressure

\* sink.insert: the write waits until ingestion has taken the chunk before, and
\* is refused once ingestion has failed.
Insert ==
  /\ phase = "inserting"
  /\ IF ingestion = "failed"
     THEN Load("failed") /\ UNCHANGED <<todo, queue>>
     ELSE /\ queue = <<>>
          /\ queue' = <<Head(todo)>>
          /\ todo' = Tail(todo)
          /\ Load(IF Len(todo) > 1 THEN "inserting" ELSE "reading")
  /\ UNCHANGED <<wire, link, parser, table, ingestion>>

\* Ingestion reads one chunk and inserts its batch, or fails; it runs on while
\* the load reads, until the database is destroyed.
Ingest ==
  /\ ingestion = "running"
  /\ phase # "failed"
  /\ queue # <<>>
  /\ \/ table' = Append(table, Head(queue)) /\ queue' = <<>> /\ UNCHANGED ingestion
     \/ ingestion' = "failed" /\ UNCHANGED <<table, queue>>
  /\ UNCHANGED <<serverVars, available, wire, link, phase, parser, todo>>

\* The reader is done: parser.finish, then the writer is closed.
EndOfStream ==
  /\ phase = "reading"
  /\ wire = <<>> /\ link = "ended"
  /\ Load(IF Finishes(parser) THEN "closing" ELSE "failed")
  /\ UNCHANGED <<wire, link, parser, todo, sinkVars>>

\* fetch or reader.read rejects.
ReadFails ==
  /\ phase \in {"opening", "reading"}
  /\ link = "broken"
  /\ Load("failed")
  /\ UNCHANGED <<wire, link, parser, todo, sinkVars>>

\* Ingestion sees the end of its input.
IngestionEnds ==
  /\ ingestion = "running"
  /\ phase = "closing" /\ queue = <<>>
  /\ ingestion' \in {"succeeded", "failed"}
  /\ UNCHANGED <<serverVars, available, wire, link, phase, parser, todo, queue, table>>

\* Mutant: publish does not await ingestion.
PublishWithoutAwait ==
  /\ phase = "closing"
  /\ ingestion # "failed"
  /\ Load("published")
  /\ UNCHANGED <<wire, link, parser, todo, sinkVars>>

\* publish: the pending table is renamed, unless ingestion or the renaming failed.
Publish ==
  /\ phase = "closing"
  /\ ingestion # "running"
  /\ \/ ingestion = "succeeded" /\ Load("published")
     \/ Load("failed")
  /\ UNCHANGED <<wire, link, parser, todo, sinkVars>>

ServerStep == Open \/ SendChunk \/ SendComplete
LoadStep ==
  \/ \E n \in 1 .. Len(wire) : Read(n)
  \/ Insert \/ EndOfStream \/ ReadFails \/ Publish
IngestionStep == Ingest \/ IngestionEnds

Next == Revoke \/ Break \/ ServerStep \/ LoadStep \/ IngestionStep

\* The server, the load and the ingestion go on; nobody has to revoke or break.
Spec ==
  /\ Init /\ [][Next]_vars
  /\ WF_vars(ServerStep) /\ WF_vars(LoadStep) /\ WF_vars(IngestionStep)

-----------------------------------------------------------------------------
(* Properties *)

WholeTable == [k \in 1 .. Len(source) |-> Chunk(k)]

\* The table the viewer shows holds every chunk of the result, once and in order.
PublishedWhole == phase = "published" => table = WholeTable

\* Whatever the pieces it arrives in, no admitted result is refused by the parser:
\* server and viewer agree on framing and limits.
ParserAcceptsTheServer == ~ parser.thrown

\* Every load ends; one that nothing disturbs ends with the result shown.
EveryLoadEnds == <>(phase \in {"published", "failed"})

UndisturbedLoadPublishes ==
  <>(phase = "published" \/ ~ available \/ link = "broken"
       \/ ingestion = "failed" \/ (phase = "failed" /\ ingestion = "succeeded"))

\* All or nothing, and nothing of a request that was gone before the last frame.
Shown ==
  CASE phase = "published" -> IF table = WholeTable THEN "result" ELSE "part"
    [] phase = "failed"    -> "refused"
    [] OTHER               -> "nothing"

Whole == INSTANCE WholeResult WITH confirmed <- (server = "confirmed"), shown <- Shown

ImplementsWholeResult == Whole!Spec
=============================================================================
