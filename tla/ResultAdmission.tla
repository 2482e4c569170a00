--------------------------- MODULE ResultAdmission ---------------------------
(***************************************************************************)
(* From a statement to a result that may be opened:                        *)
(*   - the policy authorizes the statement and caps its rows (SqlPolicy);  *)
(*   - _fetch_admitted_result (src/snowglobe/snowflake_executor.py) takes  *)
(*     the connector's tables one by one, or recovers an empty one;        *)
(*   - _AdmissionState (src/snowglobe/arrow_stream.py) counts rows and     *)
(*     bytes batch by batch and refuses at the first limit;                *)
(*   - ipc_chunks serializes what was admitted, with its own count.        *)
(*                                                                         *)
(* A row is its position in the view the statement reads, and has one      *)
(* cell; where it ends in the column's buffer is its offset, as in Arrow.  *)
(* A table of several batches is several tables of one.                    *)
(***************************************************************************)
EXTENDS SqlPolicy, Sequences, SequencesExt

CONSTANTS
  MaxColumns, MaxCell, MaxArrow, MaxDecoded,  \* ArrowAdmissionLimits
  MaxViewRows, MaxViewBytes,                  \* bounds: of the view
  MaxTables                                   \* bound: the tables of a result

ASSUME AdmissionAssumption ==
  {MaxColumns, MaxCell, MaxArrow, MaxDecoded, MaxViewRows, MaxViewBytes, MaxTables} \subseteq Nat \ {0}

VARIABLES
  statement,  \* what was submitted
  view,       \* the offset of every row it would return without a limit
  phase,      \* how far the request is, and how it ended
  left,       \* the rows the connector has still to deliver
  state,      \* the counts of _AdmissionState; writer: "none", "open" or "closed"
  admitted,   \* the batches retained
  stream      \* ipc_chunks: the next batch, what is written, its writer

vars == <<statement, view, phase, left, state, admitted, stream>>

Phases == {"submitted", "rejected", "fetching", "admitting", "failed", "published",
           "confirmed", "cut", "abandoned"}
Writer == {"none", "open", "closed"}

Views == {v \in BoundedSeq(0 .. MaxViewBytes, MaxViewRows) :
            \A j, k \in DOMAIN v : j <= k => v[j] <= v[k]}

\* A batch: the rows from .. to
Batch == {b \in [from : 1 .. MaxViewRows, to : 1 .. MaxViewRows] : b.from <= b.to}

Rows(b) == b.to - b.from + 1
Offset(k) == IF k = 0 THEN 0 ELSE view[k]
Bytes(b) == Offset(b.to) - Offset(b.from - 1)

\* The Arrow writer: the schema goes with the first batch, or with the end.
SchemaBytes == 1
SchemaIf(first) == IF first THEN SchemaBytes ELSE 0
BatchBytes == 2
Serialized(b) == BatchBytes + Bytes(b)
EndBytes == 1

\* _maximum_cell_bytes, by the offsets
WithinCells(b) == \A k \in b.from .. b.to : Offset(k) - Offset(k - 1) <= MaxCell

AdmissionTypeOK ==
  /\ statement \in Statements
  /\ view \in Views
  /\ phase \in Phases
  /\ left \in 0 .. MaxRows + 1
  /\ state \in [rows : Nat, decoded : Nat, arrow : Nat, writer : Writer]
  /\ admitted \in Seq(Batch) /\ Len(admitted) <= MaxTables
  /\ stream \in [next : 1 .. MaxTables + 1, written : Nat, writer : Writer]
  /\ state.rows <= MaxRows /\ state.decoded <= MaxDecoded /\ state.arrow <= MaxArrow
  /\ \A n \in DOMAIN admitted : admitted[n].to <= Len(view) /\ WithinCells(admitted[n])

Init ==
  /\ statement \in Statements
  /\ view = <<>> /\ left = 0 /\ phase = "submitted"
  /\ state = [rows |-> 0, decoded |-> 0, arrow |-> 0, writer |-> "none"]
  /\ admitted = <<>>
  /\ stream = [next |-> 1, written |-> 0, writer |-> "none"]

-----------------------------------------------------------------------------
(* Authorization and execution *)

Reject ==
  /\ phase = "submitted"
  /\ ~ Authorizes(statement)
  /\ phase' = "rejected"
  /\ UNCHANGED <<statement, view, left, state, admitted, stream>>

Lesser(a, b) == IF a < b THEN a ELSE b

\* Snowflake evaluates the governed statement: its limit is a literal.
Answered == Lesser(Governed(statement).limit.count, Len(view))

Execute ==
  /\ phase = "submitted"
  /\ Authorizes(statement)
  /\ phase' = "fetching"
  /\ view' \in Views
  /\ UNCHANGED <<statement, left, state, admitted, stream>>

-----------------------------------------------------------------------------
(* Fetching and admission *)

\* The finally of admit_record_batches, after whatever was raised; the counts are of no
\* use any more, and stay what they were before the batch.
Failed ==
  /\ phase' = "failed"
  /\ state' = [state EXCEPT !.writer = IF @ = "open" THEN "closed" ELSE @]
  /\ UNCHANGED <<statement, view, admitted, stream>>

\* Mutant: metadata that names any batches is taken for an empty result's.
EmptyUnchecked(listed) == listed

\* _empty_result_table: the connector lists batches, and none of them has rows.
EmptyRecovered(listed) == listed /\ Answered = 0

\* _validate_schema
Admissible(columns, supported) == columns <= MaxColumns /\ supported

\* The first table is there, or can be recovered, and its schema is admissible.
Begin(yields, listed, columns, supported) ==
  /\ phase = "fetching"
  /\ left' = IF yields THEN Answered ELSE 0
  /\ IF /\ yields \/ EmptyRecovered(listed)
        /\ Admissible(columns, supported)
     THEN /\ phase' = "admitting"
          /\ state' = [state EXCEPT !.writer = "open"]
          /\ UNCHANGED <<statement, view, admitted, stream>>
     ELSE Failed

\* The table of the next n rows
NextBatch(n) == [from |-> Answered - left + 1, to |-> Answered - left + n]

\* The counts with b
Counted(b) ==
  [rows |-> state.rows + Rows(b), decoded |-> state.decoded + Bytes(b),
   arrow |-> state.arrow + SchemaIf(admitted = <<>>) + Serialized(b),
   writer |-> state.writer]

\* Mutant: what the rows come to in memory is not limited.
ExceedsEncoded(s) == s.rows > MaxRows \/ s.arrow > MaxArrow

Exceeds(s) == s.rows > MaxRows \/ s.decoded > MaxDecoded \/ s.arrow > MaxArrow

\* Mutant: a failure at a later batch leaves the writer to nobody.
AdmitLeaking(n, same) ==
  /\ phase = "admitting"
  /\ left' = left - n
  /\ LET b == NextBatch(n) IN
       IF ~ same \/ Exceeds(Counted(b)) \/ ~ WithinCells(b)
       THEN /\ phase' = "failed"
            /\ UNCHANGED <<statement, view, state, admitted, stream>>
       ELSE /\ admitted' = Append(admitted, b) /\ state' = Counted(b)
            /\ UNCHANGED <<statement, view, phase, stream>>

\* A table of another schema, and admit; an empty table has no batches.
Admit(n, same) ==
  /\ phase = "admitting"
  /\ left' = left - n
  /\ LET b == NextBatch(n) IN
       IF ~ same \/ Exceeds(Counted(b)) \/ ~ WithinCells(b)
       THEN Failed
       ELSE /\ admitted' = Append(admitted, b)
            /\ state' = Counted(b)
            /\ UNCHANGED <<statement, view, phase, stream>>

\* The connector's iteration may raise.
FetchFails ==
  /\ phase \in {"fetching", "admitting"}
  /\ Failed
  /\ UNCHANGED left

\* Mutant: the bytes that end the stream are not counted.
EndUncounted == [state EXCEPT !.writer = "closed"]

Finished ==
  [state EXCEPT !.writer = "closed", !.arrow = @ + SchemaIf(admitted = <<>>) + EndBytes]

\* finish: the iteration is over, and the source is published.
Finish ==
  /\ phase = "admitting"
  /\ left = 0
  /\ UNCHANGED left
  /\ IF Exceeds(Finished) THEN Failed
     ELSE /\ phase' = "published"
          /\ state' = Finished
          /\ UNCHANGED <<statement, view, admitted, stream>>

-----------------------------------------------------------------------------
(* Serialization for a viewer *)

\* ipc_chunks goes on with bytes more, in the schema's company where it is the first.
Writes(bytes) == stream.written + SchemaIf(stream.next = 1) + bytes

SendBatch ==
  /\ phase = "published"
  /\ stream.next <= Len(admitted)
  /\ LET written == Writes(Serialized(admitted[stream.next]))
         over == written > MaxArrow
     IN /\ stream' = [next |-> stream.next + 1, written |-> written,
                      writer |-> IF over THEN "closed" ELSE "open"]
        /\ phase' = IF over THEN "cut" ELSE phase
  /\ UNCHANGED <<statement, view, left, state, admitted>>

SendEnd ==
  /\ phase = "published"
  /\ stream.next > Len(admitted)
  /\ stream' = [stream EXCEPT !.written = Writes(EndBytes), !.writer = "closed"]
  /\ phase' = IF stream'.written > MaxArrow THEN "cut" ELSE "confirmed"
  /\ UNCHANGED <<statement, view, left, state, admitted>>

\* The reader goes, or the request does: the generator is closed.
Abandon ==
  /\ phase = "published"
  /\ phase' = "abandoned"
  /\ stream' = [stream EXCEPT !.writer = "closed"]
  /\ UNCHANGED <<statement, view, left, state, admitted>>

Next ==
  \/ Reject \/ Execute
  \/ \E yields, listed, supported \in BOOLEAN, columns \in 1 .. MaxColumns + 1 :
       Begin(yields, listed, columns, supported)
  \/ \E n \in 1 .. left, same \in BOOLEAN : Len(admitted) < MaxTables /\ Admit(n, same)
  \/ FetchFails \/ Finish
  \/ SendBatch \/ SendEnd \/ Abandon

Spec == Init /\ [][Next]_vars

-----------------------------------------------------------------------------
(* Properties *)

\* What reaches Snowflake is a query over configured views, by Snowflake's own reading
\* of names, and returns at most one row more than may be shown: whatever the
\* submitted text was read as before it was rendered.
ExecutesOnlyTheGoverned ==
  phase \notin {"submitted", "rejected"} =>
    LET s == Governed(statement) IN
      /\ s.query /\ ~ s.unknown
      /\ \A t \in s.tables : t.qualified /\ ~ (t.quoted /\ t.case = "lower")
      /\ s.limit.kind = "literal" /\ s.limit.count <= MaxRows + 1

\* The rows the statement asks for; of a percentage and of ties, at most these.
Asked ==
  IF statement.limit.kind = "literal" THEN Lesser(statement.limit.count, Len(view))
  ELSE Len(view)

\* The rows of the admitted batches, one after another, are the first n of the view.
AdmittedAre(n) ==
  /\ \A k \in DOMAIN admitted :
       admitted[k].from = IF k = 1 THEN 1 ELSE admitted[k - 1].to + 1
  /\ n = IF admitted = <<>> THEN 0 ELSE admitted[Len(admitted)].to

\* A published result has every row its statement asks for, in order, and is not one
\* that the server's cap, a limit, an iteration that yielded nothing or a failure at a
\* later batch has cut short.
PublishedIsComplete ==
  phase \in {"published", "confirmed", "cut", "abandoned"} => AdmittedAre(Asked)

\* The two byte counts agree: what was admitted is never cut off by the limit when it
\* is serialized for the viewer.
AdmittedIsStreamable == phase # "cut"

\* No writer is left open, whichever limit, failure or reader ends its use.
WritersAreClosed ==
  /\ phase \in {"failed", "published", "confirmed", "abandoned"} => state.writer # "open"
  /\ phase \in {"confirmed", "cut", "abandoned"} => stream.writer # "open"
=============================================================================
