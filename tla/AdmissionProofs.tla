--------------------------- MODULE AdmissionProofs ---------------------------
(***************************************************************************)
(* What ResultAdmission guarantees whatever the limits, the statement and  *)
(* the view: only governed statements are executed, what is published is   *)
(* complete and within every limit, what is admitted can be streamed, and  *)
(* no writer is left open.                                                 *)
(***************************************************************************)
EXTENDS ResultAdmission, TLAPS

-----------------------------------------------------------------------------
(* The policy *)

\* The cap leaves a literal limit of at most one row too many; a dynamic one, which the
\* code refuses here, is refused by Authorizes.
LEMMA CapIsLiteral ==
  ASSUME NEW s \in Statement
  PROVE  /\ Capped(s).limit.kind = "literal"
         /\ Capped(s).limit.count \in Nat /\ Capped(s).limit.count <= MaxRows + 1
         /\ Capped(s) \in [query : BOOLEAN, into : BOOLEAN, unknown : BOOLEAN,
                           tables : SUBSET Table,
                           limit : [kind : {"literal"}, count : Nat]]
<1>1. s.limit \in Limit
  BY DEF Statement
<1>2. CASE s.limit.kind = "literal" /\ s.limit.count <= MaxRows + 1
  <2>1. s.limit \in [kind : {"literal"}, count : 0 .. MaxCount]
    BY <1>1, <1>2 DEF Limit
  <2>. QED
    BY <1>2, <2>1, PolicyAssumption DEF Capped, Statement
<1>3. CASE ~ (s.limit.kind = "literal" /\ s.limit.count <= MaxRows + 1)
  <2>1. Literal(MaxRows + 1) \in [kind : {"literal"}, count : Nat]
    BY PolicyAssumption DEF Literal
  <2>2. Capped(s) = [s EXCEPT !.limit = Literal(MaxRows + 1)]
    BY <1>3 DEF Capped
  <2>. QED
    BY <2>1, <2>2, PolicyAssumption DEF Statement, Literal
<1>. QED
  BY <1>2, <1>3

\* What the rendering is read as keeps the limit of what was rendered.
LEMMA RereadingKeepsTheLimit ==
  ASSUME NEW s \in Statement
  PROVE  Governed(s).limit = Capped(s).limit
BY CapIsLiteral DEF Governed, Reread

\* The text that is executed: a query over configured views, capped.
IsGoverned(s) ==
  /\ s.query /\ ~ s.unknown
  /\ \A t \in s.tables : t.qualified /\ ~ (t.quoted /\ t.case = "lower")
  /\ s.limit.kind = "literal" /\ s.limit.count <= MaxRows + 1

LEMMA AuthorizedIsGoverned ==
  ASSUME NEW s \in Statement, Authorizes(s)
  PROVE  IsGoverned(Governed(s))
<1>1. Validated(Governed(s))
  BY DEF Authorizes
<1>2. \A t \in Governed(s).tables : t.qualified /\ ~ (t.quoted /\ t.case = "lower")
  BY <1>1 DEF Validated, CanonicalIdentifier, allowed_views
<1>. QED
  BY <1>1, <1>2, CapIsLiteral, RereadingKeepsTheLimit DEF IsGoverned, Validated

-----------------------------------------------------------------------------
(* Execution *)

\* The statement never changes, and goes no further than its rejection unless authorized.
AuthorizedInv ==
  /\ statement \in Statement
  /\ phase \notin {"submitted", "rejected"} => Authorizes(statement)

LEMMA AuthorizationIsKept == Spec => []AuthorizedInv
<1>1. Init => AuthorizedInv
  BY DEF Init, AuthorizedInv, Statements
<1>2. AuthorizedInv /\ [Next]_vars => AuthorizedInv'
  <2>. SUFFICES ASSUME AuthorizedInv, [Next]_vars
                PROVE  AuthorizedInv'
    OBVIOUS
  <2>1. statement' = statement
    BY DEF Next, vars, Reject, Execute, Begin, Admit, FetchFails, Failed, Finish,
           SendBatch, SendEnd, Abandon
  <2>2. phase \in {"submitted", "rejected"} /\ phase' \notin {"submitted", "rejected"}
          => Authorizes(statement)
    BY DEF Next, vars, Reject, Execute, Begin, Admit, FetchFails, Failed, Finish,
           SendBatch, SendEnd, Abandon
  <2>. QED
    BY <2>1, <2>2 DEF AuthorizedInv, Authorizes
<1>. QED
  BY <1>1, <1>2, PTL DEF Spec

\* ExecutesOnlyTheGoverned for every number of rows and relations: _execute is reached
\* only with a text whose own reading is governed, whatever SQLGlot makes of it.
THEOREM OnlyTheGovernedIsExecuted == Spec => []ExecutesOnlyTheGoverned
<1>1. AuthorizedInv => ExecutesOnlyTheGoverned
  BY AuthorizedIsGoverned DEF AuthorizedInv, ExecutesOnlyTheGoverned, IsGoverned
<1>. QED
  BY <1>1, AuthorizationIsKept, PTL

-----------------------------------------------------------------------------
(* Sizes *)

\* Offsets are numbers and do not decrease.
LEMMA ViewFacts ==
  ASSUME view \in Views
  PROVE  /\ Len(view) \in 0 .. MaxViewRows
         /\ \A k \in 0 .. Len(view) : Offset(k) \in Nat
         /\ \A j, k \in 0 .. Len(view) : j <= k => Offset(j) <= Offset(k)
<1>1. PICK n \in 0 .. MaxViewRows : view \in [1 .. n -> 0 .. MaxViewBytes]
  BY DEF Views, BoundedSeq, SeqOf
<1>2. Len(view) = n /\ DOMAIN view = 1 .. n
  BY <1>1, AdmissionAssumption
<1>3. \A j, k \in 1 .. n : j <= k => view[j] <= view[k]
  BY <1>2 DEF Views
<1>4. \A k \in 1 .. n : view[k] \in Nat
  BY <1>1, AdmissionAssumption
<1>. QED
  BY <1>2, <1>3, <1>4, AdmissionAssumption DEF Offset

\* The bytes of a batch of the view are a number.
LEMMA SerializedIsNat ==
  ASSUME view \in Views, NEW b \in Batch, b.to <= Len(view)
  PROVE  Bytes(b) \in Nat /\ Serialized(b) \in Nat
<1>1. b.from - 1 \in 0 .. Len(view) /\ b.to \in 0 .. Len(view) /\ b.from - 1 <= b.to
  BY ViewFacts, AdmissionAssumption DEF Batch
<1>2. Offset(b.from - 1) \in Nat /\ Offset(b.to) \in Nat /\ Offset(b.from - 1) <= Offset(b.to)
  BY <1>1, ViewFacts
<1>. QED
  BY <1>2 DEF Bytes, Serialized, BatchBytes

\* Snowflake answers an authorized statement with rows of the view, one too many at most.
LEMMA AnsweredFacts ==
  ASSUME AuthorizedInv, view \in Views, phase \notin {"submitted", "rejected"}
  PROVE  /\ Answered \in 0 .. MaxRows + 1 /\ Answered <= Len(view)
         /\ Answered <= MaxRows => Answered = Asked
<1>1. /\ Governed(statement).limit.count \in Nat
      /\ Governed(statement).limit.count <= MaxRows + 1
  BY CapIsLiteral, RereadingKeepsTheLimit DEF AuthorizedInv
<1>2. Len(view) \in Nat
  BY ViewFacts, AdmissionAssumption
<1>3. Answered \in 0 .. MaxRows + 1 /\ Answered <= Len(view)
  BY <1>1, <1>2, PolicyAssumption DEF Answered, Lesser
<1>4. ASSUME Answered <= MaxRows PROVE Answered = Asked
  <2>1. statement.limit \in Limit
    BY DEF AuthorizedInv, Statement
  <2>2. CASE statement.limit.kind = "literal" /\ statement.limit.count <= MaxRows + 1
    BY <2>2, RereadingKeepsTheLimit DEF AuthorizedInv, Capped, Answered, Asked
  <2>3. CASE ~ (statement.limit.kind = "literal" /\ statement.limit.count <= MaxRows + 1)
    <3>1. Governed(statement).limit.count = MaxRows + 1
      <4>1. Capped(statement) = [statement EXCEPT !.limit = Literal(MaxRows + 1)]
        BY <2>3 DEF Capped
      <4>2. Capped(statement).limit = Literal(MaxRows + 1)
        BY <4>1 DEF AuthorizedInv, Statement
      <4>. QED
        BY <4>2, RereadingKeepsTheLimit DEF AuthorizedInv, Literal
    <3>2. Answered = Len(view)
      BY <3>1, <1>2, <1>4, PolicyAssumption DEF Answered, Lesser
    <3>3. statement.limit.kind = "literal" =>
            statement.limit.count \in Nat /\ statement.limit.count > MaxRows + 1
      BY <2>1, <2>3, PolicyAssumption DEF Limit
    <3>. QED
      BY <1>2, <1>4, <3>2, <3>3, PolicyAssumption DEF Asked, Lesser
  <2>. QED
    BY <2>2, <2>3
<1>. QED
  BY <1>3, <1>4

-----------------------------------------------------------------------------
(* The inductive invariant *)

\* p[k] is the sum of the first k of n sizes.
AreSums(p, sizes, n) ==
  /\ p \in [0 .. n -> Nat]
  /\ p[0] = 0
  /\ \A k \in 1 .. n : p[k] = p[k - 1] + sizes[k]
  /\ \A k \in 0 .. n : p[k] <= p[n]

Sizes == [k \in 1 .. Len(admitted) |-> Serialized(admitted[k])]

\* p[k] is what the first k admitted batches come to in the stream.
Sums(p) == AreSums(p, Sizes, Len(admitted))

SchemaWith(n) == IF n = 0 THEN 0 ELSE SchemaBytes

Sent == {"published", "confirmed", "abandoned"}

\* The counts are those of the batches admitted, and the stream has what they come to.
CountsInv ==
  \E p : /\ Sums(p)
         /\ phase = "admitting" => state.arrow = p[Len(admitted)] + SchemaWith(Len(admitted))
         /\ phase = "published" =>
              /\ state.arrow = p[Len(admitted)] + SchemaBytes + EndBytes
              /\ stream.written = p[stream.next - 1] + SchemaWith(stream.next - 1)

\* The rows admitted and the rows left are the answer's.
RowsInv ==
  /\ phase = "admitting" => AdmittedAre(state.rows) /\ state.rows + left = Answered
  /\ phase \in Sent => AdmittedAre(state.rows) /\ state.rows = Answered

\* Before the first batch there is nothing, and before publication no stream.
EarlyInv ==
  /\ phase \in {"submitted", "rejected", "fetching"} =>
       /\ admitted = <<>> /\ left = 0
       /\ state = [rows |-> 0, decoded |-> 0, arrow |-> 0, writer |-> "none"]
  /\ phase \notin Sent => stream = [next |-> 1, written |-> 0, writer |-> "none"]
  /\ stream.next <= Len(admitted) + 1

\* Who may hold which writer open
WriterInv ==
  /\ state.writer = "open" => phase = "admitting"
  /\ phase = "admitting" => state.writer = "open"
  /\ stream.writer = "open" => phase = "published"

AdmissionInv ==
  /\ AuthorizedInv /\ AdmissionTypeOK
  /\ EarlyInv /\ RowsInv /\ CountsInv /\ WriterInv
  /\ phase # "cut"

LEMMA InitInv == Init => AdmissionInv
<1>. SUFFICES ASSUME Init PROVE AdmissionInv
  OBVIOUS
<1>1. <<>> \in Views
  <2>1. <<>> \in [1 .. 0 -> 0 .. MaxViewBytes] /\ 0 \in 0 .. MaxViewRows
    BY AdmissionAssumption
  <2>. QED
    BY <2>1 DEF Views, BoundedSeq, SeqOf
<1>2. AuthorizedInv
  BY DEF Init, AuthorizedInv, Statements
<1>3. AdmissionTypeOK
  BY <1>1, AdmissionAssumption, PolicyAssumption DEF Init, AdmissionTypeOK, Phases, Writer
<1>4. CountsInv
  <2>1. Sums([k \in 0 .. 0 |-> 0])
    BY DEF Init, Sums, AreSums, Sizes
  <2>. QED
    BY <2>1 DEF Init, CountsInv
<1>. QED
  BY <1>2, <1>3, <1>4 DEF Init, AdmissionInv, EarlyInv, RowsInv, WriterInv, Sent

\* A step that leaves statement, view and batches leaves what is said of them.
LEMMA SameData ==
  ASSUME UNCHANGED <<statement, view, admitted>>
  PROVE  /\ Answered' = Answered /\ Asked' = Asked
         /\ \A n : AdmittedAre(n)' <=> AdmittedAre(n)
         /\ \A p : Sums(p)' <=> Sums(p)
         /\ \A b : WithinCells(b)' <=> WithinCells(b)
BY DEF Answered, Asked, AdmittedAre, Sums, Sizes, WithinCells, Serialized, Bytes, Offset, Governed,
       Capped, Reread

\* Reject keeps the invariant: nothing is executed.
LEMMA RejectInv == ASSUME AdmissionInv, Reject PROVE AdmissionInv'
<1>1. AdmissionTypeOK'
  BY SameData DEF Reject, AdmissionInv, AdmissionTypeOK, Phases
<1>. QED
  BY <1>1, SameData DEF Reject, AdmissionInv, AuthorizedInv, EarlyInv, RowsInv, CountsInv,
     WriterInv, Sent

\* Execute keeps the invariant: the view is read, and no batch is of it yet.
LEMMA ExecuteInv == ASSUME AdmissionInv, Execute PROVE AdmissionInv'
<1>1. admitted = <<>> /\ admitted' = <<>> /\ DOMAIN admitted = {}
  BY DEF Execute, AdmissionInv, EarlyInv
<1>2. AdmissionTypeOK'
  BY <1>1 DEF Execute, AdmissionInv, AdmissionTypeOK, Phases
<1>3. CountsInv'
  <2>1. PICK p : Sums(p)
    BY DEF AdmissionInv, CountsInv
  <2>2. Sums(p)'
    BY <1>1, <2>1 DEF Sums, AreSums, Sizes
  <2>. QED
    BY <2>2 DEF Execute, CountsInv
<1>. QED
  BY <1>2, <1>3 DEF Execute, AdmissionInv, AuthorizedInv, EarlyInv, RowsInv, WriterInv, Sent

\* A failure keeps the invariant: the writer is closed and the batches are of no use.
LEMMA FailedInv ==
  ASSUME AdmissionInv, Failed, phase \in {"fetching", "admitting"},
         left' \in 0 .. MaxRows + 1
  PROVE  AdmissionInv'
<1>1. /\ state' = [state EXCEPT !.writer = IF @ = "open" THEN "closed" ELSE @]
      /\ phase' = "failed"
      /\ UNCHANGED <<statement, view, admitted, stream>>
  BY DEF Failed
<1>2. /\ state'.rows = state.rows /\ state'.decoded = state.decoded
      /\ state'.arrow = state.arrow /\ state'.writer \in {"none", "closed"}
      /\ state' \in [rows : Nat, decoded : Nat, arrow : Nat, writer : Writer]
  BY <1>1 DEF AdmissionInv, AdmissionTypeOK, Writer
<1>3. AdmissionTypeOK'
  BY <1>1, <1>2, SameData DEF AdmissionInv, AdmissionTypeOK, Phases
<1>. QED
  BY <1>1, <1>2, <1>3, SameData DEF AdmissionInv, AuthorizedInv, EarlyInv, RowsInv, CountsInv,
     WriterInv, Sent

\* Begin keeps the invariant: all of the answer is left, or there is none of it.
LEMMA BeginInv ==
  ASSUME AdmissionInv, NEW yields \in BOOLEAN, NEW listed \in BOOLEAN,
         NEW columns, NEW supported, Begin(yields, listed, columns, supported)
  PROVE  AdmissionInv'
<1>1. /\ Answered \in 0 .. MaxRows + 1
      /\ admitted = <<>> /\ state = [rows |-> 0, decoded |-> 0, arrow |-> 0, writer |-> "none"]
      /\ phase = "fetching" /\ left' = IF yields THEN Answered ELSE 0
  BY AnsweredFacts DEF Begin, AdmissionInv, AdmissionTypeOK, EarlyInv
<1>2. left' \in 0 .. MaxRows + 1
  BY <1>1, PolicyAssumption
<1>3. CASE Failed
  BY <1>1, <1>2, <1>3, FailedInv
<1>4. CASE ~ Failed
  <2>1. /\ yields \/ EmptyRecovered(listed)
        /\ phase' = "admitting" /\ state' = [state EXCEPT !.writer = "open"]
        /\ UNCHANGED <<statement, view, admitted, stream>>
    BY <1>4 DEF Begin
  <2>2. state' = [rows |-> 0, decoded |-> 0, arrow |-> 0, writer |-> "open"]
    BY <1>1, <2>1
  <2>3. left' = Answered'
    BY <1>1, <2>1, SameData DEF EmptyRecovered
  <2>4. AdmissionTypeOK'
    BY <1>2, <2>1, <2>2, SameData DEF AdmissionInv, AdmissionTypeOK, Phases, Writer
  <2>5. RowsInv'
    BY <1>1, <2>1, <2>2, <2>3 DEF RowsInv, AdmittedAre, Sent
  <2>6. CountsInv'
    <3>1. PICK p : Sums(p)
      BY DEF AdmissionInv, CountsInv
    <3>2. Sums(p)'
      BY <2>1, <3>1, SameData
    <3>. QED
      BY <1>1, <2>1, <2>2, <3>2 DEF CountsInv, Sums, AreSums, SchemaWith
  <2>. QED
    BY <1>1, <2>1, <2>2, <2>4, <2>5, <2>6 DEF AdmissionInv, AuthorizedInv, EarlyInv,
       WriterInv, Sent
<1>. QED
  BY <1>3, <1>4

\* The sums with one more batch
LEMMA OneMoreSum ==
  ASSUME AdmissionInv, NEW b \in Batch, b.to <= Len(view), NEW p, Sums(p),
         UNCHANGED view, admitted' = Append(admitted, b)
  PROVE  \E q : /\ Sums(q)'
                /\ q[Len(admitted')] = p[Len(admitted)] + Serialized(b)
<1>1. admitted \in Seq(Batch) /\ view \in Views
  BY DEF AdmissionInv, AdmissionTypeOK
<1>2. PICK n \in Nat : n = Len(admitted)
  BY <1>1
<1>3. /\ DOMAIN admitted = 1 .. n /\ Len(admitted') = n + 1 /\ DOMAIN admitted' = 1 .. n + 1
      /\ admitted'[n + 1] = b /\ \A k \in 1 .. n : admitted'[k] = admitted[k]
  BY <1>1, <1>2
<1>4. PICK size \in Nat : size = Serialized(b)
  BY <1>1, SerializedIsNat
<1>5. /\ p \in [0 .. n -> Nat] /\ p[0] = 0
      /\ \A k \in 1 .. n : p[k] = p[k - 1] + Serialized(admitted[k])
      /\ \A k \in 0 .. n : p[k] <= p[n]
  BY <1>2, <1>3 DEF Sums, AreSums, Sizes
<1>. DEFINE q == [k \in 0 .. n + 1 |-> IF k = n + 1 THEN p[n] + size ELSE p[k]]
<1>6. q \in [0 .. n + 1 -> Nat] /\ q[0] = 0 /\ q[n + 1] = p[n] + size
  BY <1>2, <1>4, <1>5
<1>7. \A k \in 1 .. n + 1 : q[k] = q[k - 1] + Serialized(admitted'[k])
  <2>. TAKE k \in 1 .. n + 1
  <2>1. CASE k = n + 1
    BY <1>2, <1>3, <1>4, <1>5, <2>1
  <2>2. CASE k \in 1 .. n
    BY <1>2, <1>3, <1>4, <1>5, <2>2
  <2>. QED
    BY <1>2, <2>1, <2>2
<1>8. \A k \in 0 .. n + 1 : q[k] <= q[n + 1]
  <2>. TAKE k \in 0 .. n + 1
  <2>1. p[n] \in Nat
    BY <1>2, <1>5
  <2>2. CASE k = n + 1
    BY <1>4, <1>6, <2>1, <2>2
  <2>3. CASE k \in 0 .. n
    <3>1. q[k] = p[k] /\ p[k] \in Nat /\ p[k] <= p[n]
      BY <1>2, <1>5, <2>3
    <3>. QED
      BY <1>4, <1>6, <2>1, <3>1
  <2>. QED
    BY <1>2, <2>2, <2>3
<1>9. Sums(q)'
  <2>. HIDE DEF q
  <2>1. \A k \in 1 .. n + 1 : Sizes'[k] = Serialized(admitted'[k])
    BY <1>3 DEF Sizes, Serialized, Bytes, Offset
  <2>2. AreSums(q, Sizes', n + 1)
    BY <1>6, <1>7, <1>8, <2>1 DEF AreSums
  <2>. QED
    BY <1>3, <2>2 DEF Sums
<1>. QED
  BY <1>2, <1>3, <1>4, <1>6, <1>9

\* Admit keeps the invariant: the batch is the next of the answer, and counted.
LEMMA AdmitInv ==
  ASSUME AdmissionInv, NEW n \in 1 .. left, NEW same, Admit(n, same), Len(admitted) < MaxTables
  PROVE  AdmissionInv'
<1>. DEFINE b == NextBatch(n)
<1>1. /\ phase = "admitting" /\ left' = left - n /\ left \in 0 .. MaxRows + 1
      /\ admitted \in Seq(Batch) /\ view \in Views
      /\ state \in [rows : Nat, decoded : Nat, arrow : Nat, writer : Writer]
  BY DEF Admit, AdmissionInv, AdmissionTypeOK
<1>2. left' \in 0 .. MaxRows + 1
  BY <1>1, PolicyAssumption
<1>3. CASE Failed
  BY <1>1, <1>2, <1>3, FailedInv
<1>4. CASE ~ Failed
  <2>1. /\ same /\ ~ Exceeds(Counted(b)) /\ WithinCells(b)
        /\ admitted' = Append(admitted, b) /\ state' = Counted(b)
        /\ UNCHANGED <<statement, view, phase, stream>>
    BY <1>4 DEF Admit
  <2>2. /\ AdmittedAre(state.rows) /\ state.rows + left = Answered
        /\ Answered \in 0 .. MaxRows + 1 /\ Answered <= Len(view)
        /\ Len(view) \in 0 .. MaxViewRows
    BY <1>1, AnsweredFacts, ViewFacts DEF AdmissionInv, RowsInv
  <2>3. b = [from |-> state.rows + 1, to |-> state.rows + n]
    BY <1>1, <2>2, PolicyAssumption DEF NextBatch
  <2>. HIDE DEF b
  <2>4. b \in Batch /\ b.to <= Len(view) /\ Rows(b) = n
    <3>1. n \in Nat /\ 1 <= n /\ n <= left /\ left \in Nat /\ state.rows \in Nat
      BY <1>1, PolicyAssumption
    <3>2. /\ state.rows + 1 \in 1 .. MaxViewRows /\ state.rows + n \in 1 .. MaxViewRows
          /\ state.rows + n <= Len(view)
      <4>1. /\ MaxViewRows \in Nat /\ Len(view) \in Nat /\ Len(view) <= MaxViewRows
            /\ Answered \in Nat
        BY <2>2, AdmissionAssumption, PolicyAssumption
      <4>. QED
        BY <2>2, <3>1, <4>1
    <3>. QED
      BY <2>3, <3>1, <3>2 DEF Batch, Rows
  <2>5. Bytes(b) \in Nat /\ Serialized(b) \in Nat
    BY <1>1, <2>4, SerializedIsNat
  <2>6. /\ state'.rows = state.rows + n /\ state'.writer = state.writer
        /\ state'.decoded = state.decoded + Bytes(b)
        /\ state'.arrow = state.arrow + SchemaIf(admitted = <<>>) + Serialized(b)
        /\ state' \in [rows : Nat, decoded : Nat, arrow : Nat, writer : Writer]
    <3>1. n \in Nat /\ SchemaIf(admitted = <<>>) \in Nat
      BY <1>1, PolicyAssumption DEF SchemaIf, SchemaBytes
    <3>. DEFINE bytes == state.arrow + SchemaIf(admitted = <<>>) + Serialized(b)
                decoded == state.decoded + Bytes(b)
                rows == state.rows + n
    <3>2. state' = [rows |-> rows, decoded |-> decoded, arrow |-> bytes, writer |-> state.writer]
      BY <2>1, <2>4 DEF Counted
    <3>3. rows \in Nat /\ decoded \in Nat /\ bytes \in Nat /\ state.writer \in Writer
      BY <1>1, <2>5, <3>1
    <3>. HIDE DEF bytes, decoded, rows
    <3>4. /\ state'.rows = rows /\ state'.writer = state.writer
          /\ state'.decoded = decoded /\ state'.arrow = bytes
          /\ state' \in [rows : Nat, decoded : Nat, arrow : Nat, writer : Writer]
      BY <3>2, <3>3
    <3>. QED
      BY <3>4 DEF bytes, decoded, rows
  <2>7. Len(admitted) \in Nat /\ admitted' \in Seq(Batch) /\ Len(admitted') = Len(admitted) + 1
    BY <1>1, <2>1, <2>4
  <2>8. AdmissionTypeOK'
    <3>1. /\ \A k \in DOMAIN admitted' : admitted'[k] = IF k = Len(admitted') THEN b ELSE admitted[k]
          /\ \A k \in DOMAIN admitted' : k # Len(admitted') => k \in DOMAIN admitted
      BY <1>1, <2>1, <2>4
    <3>2. /\ b.to <= Len(view) /\ WithinCells(b)
          /\ \A k \in DOMAIN admitted : admitted[k].to <= Len(view) /\ WithinCells(admitted[k])
      BY <2>1, <2>4 DEF AdmissionInv, AdmissionTypeOK
    <3>3. \A k \in DOMAIN admitted' : admitted'[k].to <= Len(view) /\ WithinCells(admitted'[k])
      BY <3>1, <3>2
    <3>4. \A k \in DOMAIN admitted' : admitted'[k].to <= Len(view') /\ WithinCells(admitted[k])'
      BY <2>1, <3>3 DEF WithinCells, Offset
    <3>5. state'.rows <= MaxRows /\ state'.decoded <= MaxDecoded /\ state'.arrow <= MaxArrow
      BY <2>1, <2>6, PolicyAssumption, AdmissionAssumption DEF Exceeds
    <3>6. Len(admitted') <= MaxTables
      BY <2>7, AdmissionAssumption
    <3>. QED
      BY <1>2, <2>1, <2>6, <2>7, <3>4, <3>5, <3>6 DEF AdmissionInv, AdmissionTypeOK
  <2>9. RowsInv'
    <3>1. AdmittedAre(state.rows)'
      <4>1. /\ b.from = state.rows + 1 /\ b.to = state.rows + n
            /\ state.rows = IF admitted = <<>> THEN 0 ELSE admitted[Len(admitted)].to
            /\ \A k \in DOMAIN admitted :
                 admitted[k].from = IF k = 1 THEN 1 ELSE admitted[k - 1].to + 1
        BY <2>2, <2>3 DEF AdmittedAre
      <4>2. PICK m \in Nat : m = Len(admitted) /\ (admitted = <<>> <=> m = 0)
        BY <1>1
      <4>3. /\ DOMAIN admitted = 1 .. m /\ DOMAIN admitted' = 1 .. m + 1 /\ admitted' # <<>>
            /\ admitted'[m + 1] = b /\ \A k \in 1 .. m : admitted'[k] = admitted[k]
            /\ Len(admitted') = m + 1
        BY <1>1, <2>1, <4>2
      <4>4. b.from = IF m + 1 = 1 THEN 1 ELSE admitted'[m].to + 1
        BY <4>1, <4>2, <4>3
      <4>5. \A k \in 1 .. m : admitted'[k].from = IF k = 1 THEN 1 ELSE admitted'[k - 1].to + 1
        BY <4>1, <4>2, <4>3
      <4>6. \A k \in 1 .. m + 1 : admitted'[k].from = IF k = 1 THEN 1 ELSE admitted'[k - 1].to + 1
        BY <4>2, <4>3, <4>4, <4>5
      <4>7. state'.rows = state.rows + n
        BY <2>6
      <4>. QED
        BY <4>1, <4>3, <4>6, <4>7 DEF AdmittedAre
    <3>2. Answered' = Answered
      BY <2>1 DEF Answered, Governed, Capped, Reread
    <3>. QED
      <4>1. state'.rows + left' = Answered
        BY <1>1, <2>2, <2>6, PolicyAssumption
      <4>. QED
        BY <1>1, <2>1, <3>1, <3>2, <4>1 DEF RowsInv, Sent
  <2>10. CountsInv'
    <3>1. PICK p : Sums(p) /\ state.arrow = p[Len(admitted)] + SchemaWith(Len(admitted))
      BY <1>1 DEF AdmissionInv, CountsInv
    <3>2. PICK q : Sums(q)' /\ q[Len(admitted')] = p[Len(admitted)] + Serialized(b)
      BY <2>1, <2>4, <3>1, OneMoreSum
    <3>3. p[Len(admitted)] \in Nat
      BY <2>7, <3>1 DEF Sums, AreSums, Sizes
    <3>4. state'.arrow = q[Len(admitted')] + SchemaWith(Len(admitted'))
      <4>1. admitted = <<>> <=> Len(admitted) = 0
        BY <1>1
      <4>. QED
        BY <2>5, <2>6, <2>7, <3>1, <3>2, <3>3, <4>1 DEF SchemaIf, SchemaWith, SchemaBytes
    <3>. QED
      BY <1>1, <2>1, <3>2, <3>4 DEF CountsInv
  <2>. QED
    BY <1>1, <2>1, <2>6, <2>7, <2>8, <2>9, <2>10 DEF AdmissionInv, AuthorizedInv, EarlyInv,
       WriterInv, Sent
<1>. QED
  BY <1>3, <1>4

\* Finish keeps the invariant: all of the answer has been admitted.
LEMMA FinishInv == ASSUME AdmissionInv, Finish PROVE AdmissionInv'
<1>1. /\ phase = "admitting" /\ left = 0 /\ left' = left
      /\ state \in [rows : Nat, decoded : Nat, arrow : Nat, writer : Writer]
  BY DEF Finish, AdmissionInv, AdmissionTypeOK
<1>2. CASE Failed
  BY <1>1, <1>2, FailedInv DEF AdmissionInv, AdmissionTypeOK
<1>3. CASE ~ Failed
  <2>1. /\ ~ Exceeds(Finished) /\ phase' = "published" /\ state' = Finished
        /\ UNCHANGED <<statement, view, admitted, stream>>
    BY <1>3 DEF Finish
  <2>2. /\ state'.rows = state.rows /\ state'.decoded = state.decoded
        /\ state'.arrow = state.arrow + SchemaIf(admitted = <<>>) + EndBytes
        /\ state'.writer = "closed"
        /\ state' \in [rows : Nat, decoded : Nat, arrow : Nat, writer : Writer]
    <3>1. SchemaIf(admitted = <<>>) \in Nat /\ EndBytes \in Nat
      BY DEF SchemaIf, SchemaBytes, EndBytes
    <3>. DEFINE bytes == state.arrow + SchemaIf(admitted = <<>>) + EndBytes
    <3>2. state' = [state EXCEPT !.writer = "closed", !.arrow = bytes] /\ bytes \in Nat
      BY <1>1, <2>1, <3>1 DEF Finished
    <3>. HIDE DEF bytes
    <3>3. /\ state'.rows = state.rows /\ state'.decoded = state.decoded
          /\ state'.arrow = bytes /\ state'.writer = "closed"
          /\ state' \in [rows : Nat, decoded : Nat, arrow : Nat, writer : Writer]
      BY <1>1, <3>2 DEF Writer
    <3>. QED
      BY <3>3 DEF bytes
  <2>3. AdmissionTypeOK'
    <3>1. state'.rows <= MaxRows /\ state'.decoded <= MaxDecoded /\ state'.arrow <= MaxArrow
      BY <2>1, <2>2, PolicyAssumption, AdmissionAssumption DEF Exceeds
    <3>. QED
      BY <1>1, <2>1, <2>2, <3>1, SameData DEF AdmissionInv, AdmissionTypeOK, Phases
  <2>4. RowsInv'
    BY <1>1, <2>1, <2>2, SameData DEF AdmissionInv, RowsInv, Sent
  <2>5. CountsInv'
    <3>1. PICK p : Sums(p) /\ state.arrow = p[Len(admitted)] + SchemaWith(Len(admitted))
      BY <1>1 DEF AdmissionInv, CountsInv
    <3>2. Len(admitted) \in Nat /\ (admitted = <<>> <=> Len(admitted) = 0)
      BY DEF AdmissionInv, AdmissionTypeOK
    <3>3. p[Len(admitted)] \in Nat /\ p[0] = 0
      BY <3>1, <3>2 DEF Sums, AreSums, Sizes
    <3>4. state'.arrow = p[Len(admitted)] + SchemaBytes + EndBytes
      BY <2>2, <3>1, <3>2, <3>3 DEF SchemaIf, SchemaWith, SchemaBytes, EndBytes
    <3>5. stream.written = p[stream.next - 1] + SchemaWith(stream.next - 1)
      BY <1>1, <3>3 DEF AdmissionInv, EarlyInv, SchemaWith, Sent
    <3>. QED
      BY <2>1, <3>1, <3>4, <3>5, SameData DEF CountsInv
  <2>. QED
    BY <1>1, <2>1, <2>2, <2>3, <2>4, <2>5 DEF AdmissionInv, AuthorizedInv, EarlyInv, WriterInv,
       Sent
<1>. QED
  BY <1>2, <1>3

-----------------------------------------------------------------------------
(* The stream *)

\* What a published result comes to in the stream never exceeds what was admitted.
LEMMA StreamFits ==
  ASSUME AdmissionInv, phase = "published"
  PROVE  /\ stream.next <= Len(admitted) =>
              Writes(Serialized(admitted[stream.next])) \in 0 .. MaxArrow
         /\ stream.next > Len(admitted) => Writes(EndBytes) \in 0 .. MaxArrow
<1>1. PICK p : /\ Sums(p)
               /\ state.arrow = p[Len(admitted)] + SchemaBytes + EndBytes
               /\ stream.written = p[stream.next - 1] + SchemaWith(stream.next - 1)
  BY DEF AdmissionInv, CountsInv
<1>2. PICK n \in Nat : n = Len(admitted) /\ DOMAIN admitted = 1 .. n
  BY DEF AdmissionInv, AdmissionTypeOK
<1>3. PICK m \in Nat : m = stream.next /\ 1 <= m /\ m <= n + 1
  BY <1>2, AdmissionAssumption DEF AdmissionInv, AdmissionTypeOK, EarlyInv
<1>4. /\ p \in [0 .. n -> Nat] /\ \A k \in 0 .. n : p[k] <= p[n]
      /\ \A k \in 1 .. n : p[k] = p[k - 1] + Serialized(admitted[k])
  BY <1>1, <1>2 DEF Sums, AreSums, Sizes
<1>5. p[n] \in Nat /\ p[m - 1] \in Nat
  BY <1>2, <1>3, <1>4
<1>6. p[n] + 2 <= MaxArrow /\ MaxArrow \in Nat
  <2>1. state.arrow <= MaxArrow
    BY DEF AdmissionInv, AdmissionTypeOK
  <2>2. MaxArrow \in Nat
    BY AdmissionAssumption
  <2>3. state.arrow = p[n] + 1 + 1
    BY <1>1, <1>2 DEF SchemaBytes, EndBytes
  <2>. QED
    BY <1>5, <2>1, <2>2, <2>3
<1>7. stream.written + SchemaIf(stream.next = 1) = p[m - 1] + 1
  BY <1>1, <1>3, <1>5 DEF SchemaIf, SchemaWith, SchemaBytes
<1>8. ASSUME m <= n PROVE Writes(Serialized(admitted[m])) \in 0 .. MaxArrow
  <2>1. p[m] = p[m - 1] + Serialized(admitted[m]) /\ p[m] <= p[n] /\ p[m] \in Nat
    BY <1>2, <1>3, <1>4, <1>8
  <2>2. Serialized(admitted[m]) \in Nat
    BY <1>2, <1>3, <1>8, SerializedIsNat DEF AdmissionInv, AdmissionTypeOK
  <2>3. Writes(Serialized(admitted[m])) = p[m] + 1
    BY <1>5, <1>7, <2>1, <2>2 DEF Writes
  <2>. QED
    BY <1>5, <1>6, <2>1, <2>3
<1>9. ASSUME m > n PROVE Writes(EndBytes) \in 0 .. MaxArrow
  <2>1. m - 1 = n
    BY <1>2, <1>3, <1>9
  <2>2. Writes(EndBytes) = p[n] + 1 + 1
    BY <1>7, <2>1 DEF Writes, EndBytes
  <2>. QED
    BY <1>5, <1>6, <2>2
<1>. QED
  BY <1>2, <1>3, <1>8, <1>9

\* SendBatch keeps the invariant: what is written are the next sums.
LEMMA SendBatchInv == ASSUME AdmissionInv, SendBatch PROVE AdmissionInv'
<1>1. /\ phase = "published" /\ stream.next <= Len(admitted)
      /\ UNCHANGED <<statement, view, left, state, admitted>>
  BY DEF SendBatch
<1>2. PICK n \in Nat : n = Len(admitted) /\ DOMAIN admitted = 1 .. n /\ n <= MaxTables
  BY DEF AdmissionInv, AdmissionTypeOK
<1>3. PICK m \in Nat : m = stream.next /\ 1 <= m /\ m <= n
  BY <1>1, <1>2, AdmissionAssumption DEF AdmissionInv, AdmissionTypeOK
<1>4. Writes(Serialized(admitted[m])) \in 0 .. MaxArrow
  BY <1>1, <1>3, StreamFits
<1>5. /\ phase' = "published"
      /\ stream' = [next |-> m + 1, written |-> Writes(Serialized(admitted[m])), writer |-> "open"]
  BY <1>1, <1>3, <1>4, AdmissionAssumption DEF SendBatch
<1>6. AdmissionTypeOK'
  <2>1. stream' \in [next : 1 .. MaxTables + 1, written : Nat, writer : Writer]
    BY <1>2, <1>3, <1>4, <1>5, AdmissionAssumption DEF Writer
  <2>. QED
    BY <1>1, <1>5, <2>1, SameData DEF AdmissionInv, AdmissionTypeOK
<1>7. CountsInv'
  <2>1. PICK p : /\ Sums(p)
                 /\ state.arrow = p[Len(admitted)] + SchemaBytes + EndBytes
                 /\ stream.written = p[stream.next - 1] + SchemaWith(stream.next - 1)
    BY <1>1 DEF AdmissionInv, CountsInv
  <2>2. p[m] = p[m - 1] + Serialized(admitted[m]) /\ p[m - 1] \in Nat /\ p[m] \in Nat
    BY <1>2, <1>3, <2>1 DEF Sums, AreSums, Sizes
  <2>3. Serialized(admitted[m]) \in Nat
    BY <1>2, <1>3, SerializedIsNat DEF AdmissionInv, AdmissionTypeOK
  <2>4. Writes(Serialized(admitted[m])) = p[m] + SchemaBytes
    <3>1. stream.written + SchemaIf(stream.next = 1) = p[m - 1] + SchemaBytes
      BY <1>3, <2>1, <2>2 DEF SchemaIf, SchemaWith, SchemaBytes
    <3>. QED
      BY <2>2, <2>3, <3>1 DEF Writes, SchemaBytes
  <2>5. stream'.written = p[stream'.next - 1] + SchemaWith(stream'.next - 1)
    BY <1>3, <1>5, <2>4 DEF SchemaWith
  <2>. QED
    BY <1>1, <1>5, <2>1, <2>5, SameData DEF CountsInv
<1>. QED
  BY <1>1, <1>2, <1>3, <1>5, <1>6, <1>7, SameData DEF AdmissionInv, AuthorizedInv, EarlyInv, RowsInv,
     WriterInv, Sent

\* SendEnd and Abandon keep the invariant: the writer is closed, and nothing was cut off.
LEMMA EndInv == ASSUME AdmissionInv, SendEnd \/ Abandon PROVE AdmissionInv'
<1>1. /\ phase = "published" /\ UNCHANGED <<statement, view, left, state, admitted>>
  BY DEF SendEnd, Abandon
<1>2. /\ stream'.next = stream.next /\ stream'.writer = "closed"
      /\ stream' \in [next : 1 .. MaxTables + 1, written : Nat, writer : Writer]
      /\ phase' \in {"confirmed", "abandoned"}
  <2>1. CASE SendEnd
    <3>1. Writes(EndBytes) \in 0 .. MaxArrow /\ MaxArrow \in Nat
      BY <1>1, <2>1, StreamFits, AdmissionAssumption DEF SendEnd
    <3>2. stream' = [stream EXCEPT !.written = Writes(EndBytes), !.writer = "closed"]
      BY <2>1 DEF SendEnd
    <3>3. /\ stream'.next = stream.next /\ stream'.written = Writes(EndBytes)
          /\ stream'.writer = "closed"
          /\ stream' \in [next : 1 .. MaxTables + 1, written : Nat, writer : Writer]
      <4>. DEFINE bytes == Writes(EndBytes)
      <4>1. bytes \in Nat /\ stream' = [stream EXCEPT !.written = bytes, !.writer = "closed"]
        BY <3>1, <3>2
      <4>2. stream \in [next : 1 .. MaxTables + 1, written : Nat, writer : Writer]
        BY DEF AdmissionInv, AdmissionTypeOK
      <4>. HIDE DEF bytes
      <4>3. /\ stream'.next = stream.next /\ stream'.written = bytes /\ stream'.writer = "closed"
            /\ stream' \in [next : 1 .. MaxTables + 1, written : Nat, writer : Writer]
        BY <4>1, <4>2 DEF Writer
      <4>. QED
        BY <4>3 DEF bytes
    <3>. QED
      BY <2>1, <3>1, <3>3 DEF SendEnd
  <2>2. CASE Abandon
    BY <2>2 DEF Abandon, AdmissionInv, AdmissionTypeOK, Writer
  <2>. QED
    BY <2>1, <2>2
<1>3. AdmissionTypeOK'
  BY <1>1, <1>2, SameData DEF AdmissionInv, AdmissionTypeOK, Phases
<1>4. CountsInv'
  BY <1>1, <1>2, SameData DEF AdmissionInv, CountsInv
<1>. QED
  BY <1>1, <1>2, <1>3, <1>4, SameData DEF AdmissionInv, AuthorizedInv, EarlyInv, RowsInv,
     WriterInv, Sent

-----------------------------------------------------------------------------
(* The theorems *)

\* FetchFails keeps the invariant.
LEMMA FetchFailsInv == ASSUME AdmissionInv, FetchFails PROVE AdmissionInv'
BY FailedInv DEF FetchFails, AdmissionInv, AdmissionTypeOK

LEMMA Invariance == Spec => []AdmissionInv
<1>1. AdmissionInv /\ [Next]_vars => AdmissionInv'
  <2>. SUFFICES ASSUME AdmissionInv, [Next]_vars
                PROVE  AdmissionInv'
    OBVIOUS
  <2>1. CASE Reject
    BY <2>1, RejectInv
  <2>2. CASE Execute
    BY <2>2, ExecuteInv
  <2>3. CASE \E yields, listed, supported \in BOOLEAN, columns \in 1 .. MaxColumns + 1 :
               Begin(yields, listed, columns, supported)
    BY <2>3, BeginInv
  <2>4. CASE \E n \in 1 .. left, same \in BOOLEAN : Len(admitted) < MaxTables /\ Admit(n, same)
    BY <2>4, AdmitInv
  <2>5. CASE FetchFails
    BY <2>5, FetchFailsInv
  <2>6. CASE Finish
    BY <2>6, FinishInv
  <2>7. CASE SendBatch
    BY <2>7, SendBatchInv
  <2>8. CASE SendEnd \/ Abandon
    BY <2>8, EndInv
  <2>9. CASE UNCHANGED vars
    <3>1. AdmissionTypeOK'
      BY <2>9, SameData DEF vars, AdmissionInv, AdmissionTypeOK
    <3>2. RowsInv' /\ CountsInv'
      BY <2>9, SameData DEF vars, AdmissionInv, RowsInv, CountsInv
    <3>. QED
      BY <2>9, <3>1, <3>2 DEF vars, AdmissionInv, AuthorizedInv, EarlyInv, WriterInv
  <2>. QED
    BY <2>1, <2>2, <2>3, <2>4, <2>5, <2>6, <2>7, <2>8, <2>9 DEF Next
<1>. QED
  BY InitInv, <1>1, PTL DEF Spec

\* No limit is exceeded by anything admitted, for every limit and every bound.
THEOREM AdmissionTypes == Spec => []AdmissionTypeOK
BY Invariance, PTL DEF AdmissionInv

\* A published result is every row asked for: the row the cap lets through beyond the limit
\* is what has admission refuse a result that the cap has cut short.
THEOREM PublishedResultsAreComplete == Spec => []PublishedIsComplete
<1>1. AdmissionInv => PublishedIsComplete
  <2>. SUFFICES ASSUME AdmissionInv, phase \in Sent
                PROVE  AdmittedAre(Asked)
    BY DEF AdmissionInv, PublishedIsComplete, Sent
  <2>1. AdmittedAre(state.rows) /\ state.rows = Answered /\ state.rows <= MaxRows
    BY DEF AdmissionInv, RowsInv, AdmissionTypeOK
  <2>2. Answered = Asked
    BY <2>1, AnsweredFacts DEF AdmissionInv, AdmissionTypeOK, Sent
  <2>. QED
    BY <2>1, <2>2
<1>. QED
  BY <1>1, Invariance, PTL

\* The limit that admission and streaming share never cuts off a result that was admitted.
THEOREM AdmittedResultsAreStreamable == Spec => []AdmittedIsStreamable
<1>1. AdmissionInv => AdmittedIsStreamable
  BY DEF AdmissionInv, AdmittedIsStreamable
<1>. QED
  BY <1>1, Invariance, PTL

\* Both writers are closed however their use ends.
THEOREM WritersAreNotLeaked == Spec => []WritersAreClosed
<1>1. AdmissionInv => WritersAreClosed
  BY DEF AdmissionInv, WriterInv, WritersAreClosed
<1>. QED
  BY <1>1, Invariance, PTL
=============================================================================
