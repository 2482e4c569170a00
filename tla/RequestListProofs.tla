------------------------- MODULE RequestListProofs -------------------------
(***************************************************************************)
(* The request list shows nothing that was never so, and goes back only    *)
(* where a refresh and a lookup cross, for any number of requests.         *)
(***************************************************************************)
EXTENDS RequestList, SequenceTheorems, FiniteSetTheorems, WellFoundedInduction, TLAPS

-----------------------------------------------------------------------------
(* The invariant *)

\* Each row is one key.
Keyed(rows) ==
  /\ rows \in Seq(Row)
  /\ \A m, n \in DOMAIN rows : rows[m].id = rows[n].id => m = n

\* A row was so, and the request has only moved on since.
WasSo(row) ==
  \/ status[row.id] = "forgotten"
  \/ status[row.id] \in Broker!Known /\ Reaches(row.status, status[row.id])

\* A later answer than the row's
Overtakes(rows, row) ==
  \A q \in ToSet(rows) : q.id = row.id => Reaches(row.status, q.status)

\* What a call may carry
Answer(f) ==
  /\ f.kind = "lookup" /\ f.answer = "none" => f.id \in Ids
  /\ Keyed(f.rows) /\ \A row \in ToSet(f.rows) : WasSo(row)
  /\ f.answer = "given" /\ f.kind = "lookup" => Len(f.rows) = 1

\* An answer that no other has crossed is later than what is shown, and a list misses
\* only what the broker has forgotten.
Later(f) ==
  f.answer = "given" /\ f.crossed \subseteq {f.kind} =>
    \A row \in ToSet(requests) :
      /\ Overtakes(f.rows, row)
      /\ f.kind = "list" => \/ status[row.id] = "forgotten"
                            \/ \E q \in ToSet(f.rows) : q.id = row.id

\* One call of a kind, as the page says
OneOfAKind ==
  /\ \A m, n \in DOMAIN fetches : fetches[m].kind = fetches[n].kind => m = n
  /\ listLoading <=> InFlight("list") # {}
  /\ lookupPending <=> InFlight("lookup") # {}

ListInv ==
  /\ Broker!TypeOK
  /\ {heard, listFailed, lookupFailed, listLoading, lookupPending} \subseteq BOOLEAN
  /\ requests # <<>> => heard
  /\ lookupPending => ~ lookupFailed
  /\ Keyed(requests) /\ \A row \in ToSet(requests) : WasSo(row)
  /\ fetches \in Seq(Fetch)
  /\ OneOfAKind
  /\ \A n \in DOMAIN fetches : Answer(fetches[n]) /\ Later(fetches[n])

-----------------------------------------------------------------------------
(* Induction *)

LEMMA LeastNumber ==
  ASSUME NEW T \in SUBSET Nat, T # {}
  PROVE  \E x \in T : \A y \in T : x <= y
<1> DEFINE R == OpToRel(<, Nat)
<1>1. IsWellFoundedOn(R, Nat)
  BY NatLessThanWellFounded
<1>2. \A x, y \in Nat : y < x => <<y, x>> \in R
  BY DEF OpToRel
<1> HIDE DEF R
<1>3. \E x \in T : \A y \in T : ~ (<<y, x>> \in R)
  BY <1>1, WFMin
<1>4. \A x, y \in T : x \in Nat /\ y \in Nat /\ (y < x \/ x <= y)
  OBVIOUS
<1> QED BY <1>2, <1>3, <1>4

\* A set of numbers that has n whenever it has all smaller ones has all of them.
LEMMA Induction ==
  ASSUME NEW N \in Nat, NEW T \in SUBSET (0 .. N), 0 \in T,
         \A n \in 1 .. N : n - 1 \in T => n \in T
  PROVE  N \in T
<1> DEFINE U == (0 .. N) \ T
<1>1. U \in SUBSET Nat
  OBVIOUS
<1> SUFFICES ASSUME U # {} PROVE FALSE
  OBVIOUS
<1>2. PICK n \in U : \A m \in U : n <= m
  <2> HIDE DEF U
  <2> QED BY <1>1, LeastNumber
<1>3. n \in Nat /\ n \in 1 .. N /\ n - 1 \in 0 .. N /\ ~ (n <= n - 1)
  BY <1>2
<1>4. n - 1 \in T
  BY <1>2, <1>3
<1> QED BY <1>2, <1>3, <1>4

-----------------------------------------------------------------------------
(* Selecting members of a sequence *)

\* How the selection grows
Selects(s, T, f) ==
  /\ f[0] = <<>>
  /\ \A n \in 1 .. Len(s) : f[n] = IF s[n] \in T THEN Append(f[n - 1], s[n]) ELSE f[n - 1]

LEMMA SelectionExists ==
  ASSUME NEW S, NEW s \in Seq(S), NEW T
  PROVE  \E f \in [0 .. Len(s) -> Seq(S)] : Selects(s, T, f)
<1> DEFINE Upto(n) == {f \in [0 .. n -> Seq(S)] :
              /\ f[0] = <<>>
              /\ \A k \in 1 .. n :
                   f[k] = IF s[k] \in T THEN Append(f[k - 1], s[k]) ELSE f[k - 1]}
           U == {n \in 0 .. Len(s) : Upto(n) # {}}
<1>1. Len(s) \in Nat /\ \A k \in 1 .. Len(s) : s[k] \in S
  OBVIOUS
<1>2. 0 \in U
  <2>1. [k \in 0 .. 0 |-> <<>>] \in Upto(0)
    OBVIOUS
  <2> QED BY <1>1, <2>1
<1>3. ASSUME NEW n \in 1 .. Len(s), n - 1 \in U PROVE n \in U
  <2>1. PICK f \in [0 .. n - 1 -> Seq(S)] :
          /\ f[0] = <<>>
          /\ \A k \in 1 .. n - 1 :
               f[k] = IF s[k] \in T THEN Append(f[k - 1], s[k]) ELSE f[k - 1]
    BY <1>3
  <2> DEFINE last == IF s[n] \in T THEN Append(f[n - 1], s[n]) ELSE f[n - 1]
             g == [k \in 0 .. n |-> IF k = n THEN last ELSE f[k]]
  <2>2. n \in Nat /\ 1 <= n /\ n \in 0 .. Len(s) /\ n - 1 \in 0 .. n - 1
    BY <1>1
  <2>3. last \in Seq(S)
    <3>1. f[n - 1] \in Seq(S) /\ s[n] \in S
      BY <1>1, <2>1, <2>2
    <3> QED BY <3>1
  <2>4. g \in [0 .. n -> Seq(S)]
    <3>1. \A k \in 0 .. n : k = n \/ k \in 0 .. n - 1
      BY <2>2
    <3> HIDE DEF last
    <3> QED BY <2>1, <2>3, <3>1
  <2>5. g[0] = <<>>
    BY <2>1, <2>2
  <2>6. ASSUME NEW k \in 1 .. n
        PROVE  g[k] = IF s[k] \in T THEN Append(g[k - 1], s[k]) ELSE g[k - 1]
    <3>1. k - 1 \in 0 .. n - 1 /\ k - 1 # n /\ k - 1 \in 0 .. n /\ (k # n => k \in 1 .. n - 1) /\ k \in 0 .. n
      BY <2>2
    <3>2. g[k - 1] = f[k - 1] /\ (k # n => g[k] = f[k]) /\ (k = n => g[k] = last)
      <4> HIDE DEF last
      <4> QED BY <3>1
    <3> HIDE DEF g
    <3> QED BY <2>1, <3>1, <3>2
  <2>7. g \in Upto(n)
    BY <2>4, <2>5, <2>6
  <2> QED BY <2>2, <2>7
<1>4. Len(s) \in U
  <2>1. U \in SUBSET (0 .. Len(s)) /\ \A n \in 1 .. Len(s) : n - 1 \in U => n \in U
    BY <1>3
  <2> HIDE DEF U
  <2> QED BY <1>1, <1>2, <2>1, Induction
<1> QED BY <1>4 DEF Selects

\* Where picks the members that are in T, and none twice if there is none twice.
LEMMA WhereFacts ==
  ASSUME NEW S, NEW s \in Seq(S), NEW T,
         \A m, n \in 1 .. Len(s) : s[m] = s[n] => m = n
  PROVE  /\ Where(s, T) \in Seq(S)
         /\ \A k \in 1 .. Len(Where(s, T)) :
              Where(s, T)[k] \in T /\ \E n \in 1 .. Len(s) : Where(s, T)[k] = s[n]
         /\ \A n \in 1 .. Len(s) :
              s[n] \in T => \E k \in 1 .. Len(Where(s, T)) : Where(s, T)[k] = s[n]
         /\ \A j, k \in 1 .. Len(Where(s, T)) : Where(s, T)[j] = Where(s, T)[k] => j = k
<1> DEFINE More(f, n) == IF n = 0 THEN <<>>
                         ELSE IF s[n] \in T THEN Append(f[n - 1], s[n]) ELSE f[n - 1]
           chosen == CHOOSE f : f = [n \in 0 .. Len(s) |-> More(f, n)]
<1>1. Len(s) \in Nat /\ \A k \in 1 .. Len(s) : s[k] \in S
  OBVIOUS
<1>2. chosen = [n \in 0 .. Len(s) |-> More(chosen, n)]
  <2>1. PICK f \in [0 .. Len(s) -> Seq(S)] : Selects(s, T, f)
    BY SelectionExists
  <2>2. ASSUME NEW n \in 0 .. Len(s) PROVE f[n] = More(f, n)
    <3>1. n = 0 \/ (n # 0 /\ n \in 1 .. Len(s))
      BY <1>1
    <3> QED BY <2>1, <3>1, Zenon DEF Selects
  <2>3. f = [n \in 0 .. Len(s) |-> More(f, n)]
    <3> HIDE DEF More
    <3> QED BY <2>1, <2>2
  <2> HIDE DEF More
  <2> QED BY <2>3
<1>3. Where(s, T) = chosen[Len(s)]
  BY DEF Where
<1> HIDE DEF chosen
<1>4. \A n \in 0 .. Len(s) : chosen[n] = More(chosen, n)
  <2> HIDE DEF More
  <2> QED BY <1>2
<1>5. /\ chosen[0] = <<>>
      /\ \A n \in 1 .. Len(s) :
           chosen[n] = IF s[n] \in T THEN Append(chosen[n - 1], s[n]) ELSE chosen[n - 1]
  BY <1>1, <1>4
<1> DEFINE Good(n) ==
             LET w == chosen[n] IN
               /\ w \in Seq(S)
               /\ \A k \in 1 .. Len(w) : w[k] \in T /\ \E i \in 1 .. n : w[k] = s[i]
               /\ \A i \in 1 .. n : s[i] \in T => \E k \in 1 .. Len(w) : w[k] = s[i]
               /\ \A j, k \in 1 .. Len(w) : w[j] = w[k] => j = k
           U == {n \in 0 .. Len(s) : Good(n)}
<1>6. 0 \in U
  <2>1. <<>> \in Seq(S) /\ 1 .. Len(<<>>) = {} /\ 1 .. 0 = {} /\ 0 \in 0 .. Len(s)
    BY <1>1
  <2> QED BY <1>5, <2>1
<1>7. ASSUME NEW n \in 1 .. Len(s), n - 1 \in U PROVE n \in U
  <2>1. Good(n - 1)
    BY <1>7
  <2>2. /\ n \in 0 .. Len(s) /\ n \in Nat /\ n - 1 \in Nat /\ s[n] \in S
        /\ \A i \in 1 .. n : i \in 1 .. n - 1 \/ i = n
        /\ \A i \in 1 .. n - 1 : i \in 1 .. n /\ i \in 1 .. Len(s) /\ i # n
        /\ n \in 1 .. n
    BY <1>1
  <2> DEFINE v == chosen[n - 1]
  <2>3. /\ v \in Seq(S)
        /\ \A k \in 1 .. Len(v) : v[k] \in T /\ \E i \in 1 .. n - 1 : v[k] = s[i]
        /\ \A i \in 1 .. n - 1 : s[i] \in T => \E k \in 1 .. Len(v) : v[k] = s[i]
        /\ \A j, k \in 1 .. Len(v) : v[j] = v[k] => j = k
    BY <2>1
  <2>4. chosen[n] = IF s[n] \in T THEN Append(v, s[n]) ELSE v
    BY <1>5
  <2> HIDE DEF v
  <2>5. CASE s[n] \notin T
    <3>1. chosen[n] = v
      BY <2>4, <2>5
    <3>2. \A k \in 1 .. Len(v) : v[k] \in T /\ \E i \in 1 .. n : v[k] = s[i]
      BY <2>2, <2>3
    <3>3. \A i \in 1 .. n : s[i] \in T => \E k \in 1 .. Len(v) : v[k] = s[i]
      BY <2>2, <2>3, <2>5
    <3> QED BY <2>2, <2>3, <3>1, <3>2, <3>3
  <2>6. CASE s[n] \in T
    <3> DEFINE w == Append(v, s[n])
    <3>1. /\ w \in Seq(S) /\ Len(w) = Len(v) + 1 /\ Len(v) \in Nat
          /\ \A k \in 1 .. Len(v) : w[k] = v[k]
          /\ w[Len(v) + 1] = s[n]
      BY <2>2, <2>3
    <3> HIDE DEF w
    <3>2. /\ \A k \in 1 .. Len(w) : k \in 1 .. Len(v) \/ k = Len(v) + 1
          /\ \A k \in 1 .. Len(v) : k \in 1 .. Len(w)
          /\ Len(v) + 1 \in 1 .. Len(w)
      BY <3>1
    <3>3. \A k \in 1 .. Len(v) : v[k] # s[n]
      BY <2>2, <2>3
    <3>4. ASSUME NEW k \in 1 .. Len(w) PROVE w[k] \in T /\ \E i \in 1 .. n : w[k] = s[i]
      <4>1. CASE k \in 1 .. Len(v)
        <5>1. w[k] = v[k] /\ v[k] \in T /\ \E i \in 1 .. n - 1 : v[k] = s[i]
          BY <2>3, <3>1, <4>1
        <5> QED BY <2>2, <5>1
      <4>2. CASE k = Len(v) + 1
        BY <2>2, <2>6, <3>1, <4>2
      <4> QED BY <3>2, <4>1, <4>2
    <3>5. \A i \in 1 .. n : s[i] \in T => \E k \in 1 .. Len(w) : w[k] = s[i]
      BY <2>2, <2>3, <3>1, <3>2
    <3>6. \A j, k \in 1 .. Len(w) : w[j] = w[k] => j = k
      BY <2>3, <3>1, <3>2, <3>3
    <3>7. chosen[n] = w
      BY <2>4, <2>6 DEF w
    <3> QED BY <2>2, <3>1, <3>4, <3>5, <3>6, <3>7
  <2> QED BY <2>5, <2>6
<1>8. Len(s) \in U
  <2>1. U \in SUBSET (0 .. Len(s)) /\ \A n \in 1 .. Len(s) : n - 1 \in U => n \in U
    BY <1>7
  <2> HIDE DEF U
  <2> QED BY <1>1, <1>6, <2>1, Induction
<1> QED BY <1>3, <1>8

-----------------------------------------------------------------------------
(* The broker and its answers *)

\* A request moves on, and what is forgotten stays so.
LEMMA StatusMoves ==
  ASSUME Broker!TypeOK, Broker!Next
  PROVE  /\ Broker!TypeOK'
         /\ \A i \in Ids : status[i] \in Broker!Known =>
              \/ status'[i] = "forgotten"
              \/ status'[i] \in Broker!Known /\ Reaches(status[i], status'[i])
         /\ \A i \in Ids : status[i] = "forgotten" => status'[i] = "forgotten"
<1> DEFINE Moved(st) ==
             /\ st \in [Ids -> Broker!Known \cup {"unsubmitted", "forgotten"}]
             /\ \A i \in Ids : status[i] \in Broker!Known =>
                  \/ st[i] = "forgotten"
                  \/ st[i] \in Broker!Known /\ Reaches(status[i], st[i])
             /\ \A i \in Ids : status[i] = "forgotten" => st[i] = "forgotten"
<1>1. ASSUME NEW S \in SUBSET Broker!WithStatus(status, Broker!Live)
      PROVE  Moved(Broker!Lapsed(S))
  BY <1>1 DEF Broker!TypeOK, Broker!Lapsed, Broker!WithStatus, Broker!Live, Broker!Ended,
              Broker!Known, Reaches
<1>2. ASSUME NEW before, Moved(before), Broker!Admit(before) PROVE Moved(status')
  BY <1>2 DEF Broker!Admit, Broker!WithStatus, Broker!Live, Broker!Ended, Broker!Known, Reaches
<1>3. ASSUME NEW before, Moved(before), NEW i \in Ids,
             Broker!Settle(before, i) \/ Broker!Withdraw(before, i)
      PROVE  Moved(status')
  BY <1>3 DEF Broker!Settle, Broker!Withdraw, Broker!Live, Broker!Ended, Broker!Known, Reaches
<1> HIDE DEF Moved
<1>4. Moved(status')
  BY <1>1, <1>2, <1>3 DEF Broker!Next
<1> QED BY <1>4 DEF Moved, Broker!TypeOK

LEMMA ListedFacts ==
  ASSUME Broker!TypeOK
  PROVE  /\ Keyed(Listed)
         /\ \A row \in ToSet(Listed) : row = RowOf(row.id) /\ status[row.id] \in Broker!Known
         /\ \A i \in Ids : status[i] \in Broker!Known => RowOf(i) \in ToSet(Listed)
<1> DEFINE newest == [n \in Ids |-> MaxRequestIds + 1 - n]
           known  == Broker!WithStatus(status, Broker!Known)
           ids    == Where(newest, known)
<1>1. MaxRequestIds \in Nat
  BY RequestListAssumption
<1>2. /\ newest \in Seq(Ids) /\ Len(newest) = MaxRequestIds
      /\ \A n \in 1 .. MaxRequestIds : newest[n] = MaxRequestIds + 1 - n
  BY <1>1 DEF Ids
<1>3. /\ \A m, n \in 1 .. Len(newest) : newest[m] = newest[n] => m = n
      /\ \A i \in Ids : MaxRequestIds + 1 - i \in 1 .. Len(newest) /\ newest[MaxRequestIds + 1 - i] = i
  BY <1>1, <1>2 DEF Ids
<1> HIDE DEF newest, known
<1>4. /\ ids \in Seq(Ids)
      /\ \A k \in 1 .. Len(ids) : ids[k] \in known
      /\ \A n \in 1 .. Len(newest) : newest[n] \in known => \E k \in 1 .. Len(ids) : ids[k] = newest[n]
      /\ \A j, k \in 1 .. Len(ids) : ids[j] = ids[k] => j = k
  <2> DEFINE W == Where(newest, known)
  <2>1. newest \in Seq(Ids) /\ \A m, n \in 1 .. Len(newest) : newest[m] = newest[n] => m = n
    BY <1>2, <1>3
  <2>2. /\ W \in Seq(Ids)
        /\ \A k \in 1 .. Len(W) : W[k] \in known /\ \E n \in 1 .. Len(newest) : W[k] = newest[n]
        /\ \A n \in 1 .. Len(newest) :
             newest[n] \in known => \E k \in 1 .. Len(W) : W[k] = newest[n]
        /\ \A j, k \in 1 .. Len(W) : W[j] = W[k] => j = k
    BY <2>1, WhereFacts, Zenon
  <2> QED BY <2>2
<1>5. Listed = [n \in DOMAIN ids |-> RowOf(ids[n])]
  BY DEF Listed, newest, known
<1> HIDE DEF ids
<1>6. /\ DOMAIN ids = 1 .. Len(ids) /\ Len(ids) \in Nat
      /\ DOMAIN Listed = 1 .. Len(ids)
      /\ \A n \in 1 .. Len(ids) : Listed[n] = RowOf(ids[n]) /\ ids[n] \in Ids
  BY <1>4, <1>5
<1>7. /\ \A i \in known : i \in Ids /\ status[i] \in Broker!Known
      /\ \A i \in Ids : status[i] \in Broker!Known => i \in known
  BY DEF known, Broker!WithStatus
<1>8. \A i \in Ids : RowOf(i).id = i /\ RowOf(i).status = status[i]
  BY DEF RowOf
<1>9. Keyed(Listed)
  <2>1. \A i \in known : RowOf(i) \in Row
    BY <1>7 DEF RowOf, Row
  <2>2. Listed \in Seq(Row)
    BY <1>4, <1>5, <1>6, <2>1
  <2>3. \A m, n \in DOMAIN Listed : Listed[m].id = Listed[n].id => m = n
    BY <1>4, <1>6, <1>8
  <2> QED BY <2>2, <2>3 DEF Keyed
<1>10. \A row \in ToSet(Listed) : row = RowOf(row.id) /\ status[row.id] \in Broker!Known
  BY <1>4, <1>6, <1>7, <1>8 DEF ToSet
<1>11. ASSUME NEW i \in Ids, status[i] \in Broker!Known PROVE RowOf(i) \in ToSet(Listed)
  <2>1. PICK n \in 1 .. Len(newest) : newest[n] = i
    BY <1>3
  <2>2. PICK k \in 1 .. Len(ids) : ids[k] = i
    BY <1>4, <1>7, <1>11, <2>1
  <2> QED BY <1>6, <2>2 DEF ToSet
<1> QED BY <1>9, <1>10, <1>11

\* The row found is first; of the others only an older row of the same request goes.
LEMMA WithFirstFacts ==
  ASSUME Keyed(requests), NEW row \in Row
  PROVE  /\ Keyed(WithFirst(row))
         /\ WithFirst(row) # <<>>
         /\ ToSet(WithFirst(row)) = {row} \cup {q \in ToSet(requests) : q.id # row.id}
<1> DEFINE others == {q \in Row : q.id # row.id}
           rest   == Where(requests, others)
<1>1. /\ requests \in Seq(Row) /\ Len(requests) \in Nat /\ DOMAIN requests = 1 .. Len(requests)
      /\ \A m, n \in 1 .. Len(requests) : requests[m].id = requests[n].id => m = n
      /\ \A n \in 1 .. Len(requests) : requests[n] \in Row
  BY DEF Keyed
<1>2. /\ rest \in Seq(Row)
      /\ \A k \in 1 .. Len(rest) :
           rest[k] \in others /\ \E n \in 1 .. Len(requests) : rest[k] = requests[n]
      /\ \A n \in 1 .. Len(requests) :
           requests[n] \in others => \E k \in 1 .. Len(rest) : rest[k] = requests[n]
      /\ \A j, k \in 1 .. Len(rest) : rest[j] = rest[k] => j = k
  <2>1. \A m, n \in 1 .. Len(requests) : requests[m] = requests[n] => m = n
    BY <1>1
  <2> HIDE DEF others
  <2> QED BY <1>1, <2>1, WhereFacts
<1>3. WithFirst(row) = <<row>> \o rest
  BY DEF WithFirst
<1> HIDE DEF rest
<1> DEFINE w == <<row>> \o rest
<1>4. /\ w \in Seq(Row) /\ Len(rest) \in Nat /\ Len(w) = Len(rest) + 1 /\ w # <<>>
      /\ w[1] = row /\ \A k \in 1 .. Len(rest) : w[k + 1] = rest[k]
  BY <1>2
<1> HIDE DEF w
<1>5. /\ DOMAIN w = 1 .. Len(rest) + 1
      /\ \A k \in 1 .. Len(rest) + 1 : k = 1 \/ (k - 1 \in 1 .. Len(rest) /\ w[k] = rest[k - 1])
      /\ 1 \in 1 .. Len(rest) + 1 /\ \A k \in 1 .. Len(rest) : k + 1 \in 1 .. Len(rest) + 1
  <2>1. \A k \in 1 .. Len(rest) + 1 : k = 1 \/ (k - 1 \in 1 .. Len(rest) /\ k = (k - 1) + 1)
    BY <1>4
  <2>2. DOMAIN w = 1 .. Len(rest) + 1
    BY <1>4
  <2>3. 1 \in 1 .. Len(rest) + 1 /\ \A k \in 1 .. Len(rest) : k + 1 \in 1 .. Len(rest) + 1
    BY <1>4
  <2> QED BY <1>4, <2>1, <2>2, <2>3
<1>6. \A m, n \in DOMAIN w : w[m].id = w[n].id => m = n
  <2> SUFFICES ASSUME NEW m \in 1 .. Len(rest) + 1, NEW n \in 1 .. Len(rest) + 1, w[m].id = w[n].id
               PROVE  m = n
    BY <1>5
  <2>1. \A k \in 1 .. Len(rest) : rest[k].id # row.id
    BY <1>2
  <2>2. CASE m = 1 \/ n = 1
    <3>1. \A k \in 1 .. Len(rest) + 1 : k # 1 => w[k].id # row.id
      BY <1>5, <2>1
    <3> QED BY <1>4, <2>2, <3>1
  <2>3. CASE m # 1 /\ n # 1
    <3>1. /\ m - 1 \in 1 .. Len(rest) /\ n - 1 \in 1 .. Len(rest)
          /\ rest[m - 1].id = rest[n - 1].id
      BY <1>5, <2>3
    <3>2. PICK a \in 1 .. Len(requests), b \in 1 .. Len(requests) :
            rest[m - 1] = requests[a] /\ rest[n - 1] = requests[b]
      BY <1>2, <3>1
    <3>3. rest[m - 1] = rest[n - 1]
      BY <1>1, <3>1, <3>2
    <3>4. m - 1 = n - 1
      BY <1>2, <3>1, <3>3
    <3>5. m \in Nat /\ n \in Nat
      BY <1>4
    <3> QED BY <3>4, <3>5
  <2> QED BY <2>2, <2>3
<1>7. ToSet(w) = {row} \cup {q \in ToSet(requests) : q.id # row.id}
  <2>1. ASSUME NEW q \in ToSet(w) PROVE q = row \/ (q \in ToSet(requests) /\ q.id # row.id)
    <3>1. PICK k \in 1 .. Len(rest) + 1 : q = w[k]
      BY <1>5 DEF ToSet
    <3>2. CASE k # 1
      <4>1. k - 1 \in 1 .. Len(rest) /\ q = rest[k - 1]
        BY <1>5, <3>1, <3>2
      <4>2. q \in others /\ \E n \in 1 .. Len(requests) : q = requests[n]
        BY <1>2, <4>1
      <4> QED BY <1>1, <4>2 DEF ToSet
    <3> QED BY <1>4, <3>1, <3>2
  <2>2. row \in ToSet(w)
    BY <1>4, <1>5 DEF ToSet
  <2>3. ASSUME NEW q \in ToSet(requests), q.id # row.id PROVE q \in ToSet(w)
    <3>1. PICK n \in 1 .. Len(requests) : q = requests[n]
      BY <1>1 DEF ToSet
    <3>2. PICK k \in 1 .. Len(rest) : rest[k] = q
      BY <1>1, <1>2, <2>3, <3>1
    <3> QED BY <1>4, <1>5, <3>2 DEF ToSet
  <2> QED BY <2>1, <2>2, <2>3
<1> QED BY <1>3, <1>4, <1>6, <1>7 DEF Keyed, w

-----------------------------------------------------------------------------
(* The steps *)

LEMMA RowFacts ==
  ASSUME NEW rows, Keyed(rows)
  PROVE  /\ \A n \in DOMAIN rows : rows[n] \in ToSet(rows)
         /\ \A row \in ToSet(rows) : row \in Row /\ row.id \in Ids /\ row.status \in Broker!Known
         /\ \A q, row \in ToSet(rows) : q.id = row.id => q = row
<1>1. \A n \in DOMAIN rows : rows[n] \in ToSet(rows) /\ rows[n] \in Row
  BY DEF Keyed, ToSet
<1>2. \A row \in ToSet(rows) : \E n \in DOMAIN rows : row = rows[n]
  BY DEF ToSet
<1>3. \A row \in Row : row.id \in Ids /\ row.status \in Broker!Known
  BY DEF Row
<1> QED BY <1>1, <1>2, <1>3 DEF Keyed

LEMMA FetchFacts ==
  ASSUME ListInv, NEW n \in DOMAIN fetches
  PROVE  /\ fetches[n] \in Fetch /\ Answer(fetches[n]) /\ Later(fetches[n])
         /\ fetches[n].kind \in {"list", "lookup"}
         /\ n \in 1 .. Len(fetches) /\ Len(fetches) \in Nat
<1>1. fetches[n] \in Fetch /\ n \in 1 .. Len(fetches) /\ Len(fetches) \in Nat
  BY DEF ListInv
<1> QED BY <1>1 DEF ListInv, Fetch

LEMMA InitList == Init => ListInv
<1> SUFFICES ASSUME Init PROVE ListInv
  OBVIOUS
<1>1. Broker!TypeOK
  BY DEF Init, Broker!Init, Broker!TypeOK
<1>2. fetches = <<Call("list", 0)>> /\ requests = <<>>
  BY DEF Init
<1>3. /\ fetches \in Seq(Fetch) /\ DOMAIN fetches = {1} /\ fetches[1] = Call("list", 0)
  BY <1>2 DEF Fetch, Call
<1>4. OneOfAKind
  BY <1>3 DEF Init, OneOfAKind, InFlight, Call
<1>5. Keyed(<<>>) /\ ToSet(<<>>) = {}
  BY DEF Keyed, ToSet
<1>6. Answer(fetches[1]) /\ Later(fetches[1])
  BY <1>3, <1>5 DEF Answer, Later, Call
<1> QED BY <1>1, <1>2, <1>3, <1>4, <1>5, <1>6 DEF Init, ListInv

LEMMA BrokerMovesKeeps == ASSUME ListInv, BrokerMoves PROVE ListInv'
<1>1. /\ Broker!TypeOK /\ Broker!Next
      /\ UNCHANGED <<heard, requests, listLoading, lookupPending, listFailed, lookupFailed, fetches>>
  BY DEF ListInv, BrokerMoves, page
<1>2. /\ Broker!TypeOK'
      /\ \A i \in Ids : status[i] \in Broker!Known =>
           \/ status'[i] = "forgotten"
           \/ status'[i] \in Broker!Known /\ Reaches(status[i], status'[i])
      /\ \A i \in Ids : status[i] = "forgotten" => status'[i] = "forgotten"
  BY <1>1, StatusMoves
<1>3. ASSUME NEW row \in Row, WasSo(row) PROVE WasSo(row)'
  <2>1. row.id \in Ids /\ row.status \in Broker!Known
    BY DEF Row
  <2> QED BY <1>2, <1>3, <2>1 DEF WasSo, Reaches, Broker!Known, Broker!Live, Broker!Ended
<1>4. Keyed(requests)' /\ \A row \in ToSet(requests)' : WasSo(row)'
  BY <1>1, <1>3, RowFacts DEF ListInv, Keyed
<1>5. ASSUME NEW n \in DOMAIN fetches PROVE Answer(fetches[n])' /\ Later(fetches[n])'
  <2>1. Keyed(fetches[n].rows) /\ Answer(fetches[n]) /\ Later(fetches[n])
    BY FetchFacts DEF Answer
  <2>2. Answer(fetches[n])'
    <3>1. \A row \in ToSet(fetches[n].rows) : WasSo(row)'
      BY <1>3, <2>1, RowFacts DEF Answer
    <3> QED BY <1>1, <2>1, <3>1 DEF Answer, Keyed
  <2>3. Later(fetches[n])'
    <3>1. \A row \in ToSet(requests) : row.id \in Ids
      BY RowFacts DEF ListInv
    <3> QED BY <1>1, <1>2, <2>1, <3>1 DEF Later, Overtakes, Reaches
  <2> QED BY <2>2, <2>3
<1>6. OneOfAKind'
  BY <1>1 DEF ListInv, OneOfAKind, InFlight
<1> QED BY <1>1, <1>2, <1>4, <1>5, <1>6 DEF ListInv

\* A call is answered, or fails; the page does not know yet.
LEMMA AnswerKeeps ==
  ASSUME ListInv, NEW n \in DOMAIN fetches, NEW g \in Fetch, g.kind = fetches[n].kind,
         fetches' = [fetches EXCEPT ![n] = g], UNCHANGED <<status, page>>, Answer(g), Later(g)
  PROVE  ListInv'
<1>1. UNCHANGED <<status, heard, requests, listLoading, lookupPending, listFailed, lookupFailed>>
  BY DEF page
<1>2. /\ fetches \in Seq(Fetch) /\ fetches' \in Seq(Fetch) /\ DOMAIN fetches' = DOMAIN fetches
      /\ \A m \in DOMAIN fetches : fetches'[m] = IF m = n THEN g ELSE fetches[m]
  BY DEF ListInv
<1>3. \A m \in DOMAIN fetches : fetches'[m].kind = fetches[m].kind
  BY <1>2
<1>4. OneOfAKind'
  <2>1. InFlight("list")' = InFlight("list") /\ InFlight("lookup")' = InFlight("lookup")
    BY <1>2, <1>3 DEF InFlight
  <2> QED BY <1>1, <1>2, <1>3, <2>1 DEF ListInv, OneOfAKind
<1>5. \A m \in DOMAIN fetches' : Answer(fetches'[m]) /\ Later(fetches'[m])
  BY <1>2, FetchFacts
<1>6. \A m \in DOMAIN fetches' : (Answer(fetches[m]) /\ Later(fetches[m]))'
  BY <1>1, <1>5 DEF Answer, Later, Overtakes, WasSo, Keyed, Reaches
<1>7. (Broker!TypeOK /\ Keyed(requests) /\ \A row \in ToSet(requests) : WasSo(row))'
  BY <1>1 DEF ListInv, Broker!TypeOK, Keyed, WasSo
<1> QED BY <1>1, <1>2, <1>4, <1>6, <1>7 DEF ListInv

LEMMA ServeKeeps == ASSUME ListInv, NEW n \in DOMAIN fetches, Serve(n) PROVE ListInv'
<1> DEFINE f == fetches[n]
           found == f.kind = "list" \/ status[f.id] \in Broker!Known
           rows == IF ~ found THEN <<>> ELSE IF f.kind = "list" THEN Listed ELSE <<RowOf(f.id)>>
           g == [f EXCEPT !.id = 0, !.answer = IF found THEN "given" ELSE "failed", !.rows = rows]
<1>1. /\ f \in Fetch /\ f.kind \in {"list", "lookup"} /\ f.answer = "none" /\ Answer(f)
      /\ f.kind = "lookup" => f.id \in Ids
      /\ Broker!TypeOK
  BY FetchFacts DEF Serve, Answer, ListInv
<1>2. /\ Keyed(rows)
      /\ \A row \in ToSet(rows) : row.id \in Ids /\ row = RowOf(row.id) /\ status[row.id] \in Broker!Known
      /\ f.kind = "lookup" /\ found => rows = <<RowOf(f.id)>> /\ Len(rows) = 1
  <2>1. CASE ~ found
    BY <2>1 DEF Keyed, ToSet
  <2>2. CASE f.kind = "list"
    BY <1>1, <2>2, ListedFacts, RowFacts
  <2>3. CASE found /\ f.kind = "lookup"
    <3>1. rows = <<RowOf(f.id)>> /\ f.id \in Ids /\ status[f.id] \in Broker!Known
      BY <1>1, <2>3
    <3>2. RowOf(f.id) \in Row /\ RowOf(f.id).id = f.id
      BY <3>1 DEF RowOf, Row
    <3> HIDE DEF rows
    <3>3. /\ rows \in Seq(Row) /\ DOMAIN rows = {1} /\ rows[1] = RowOf(f.id) /\ Len(rows) = 1
      BY <3>1, <3>2
    <3> QED BY <3>1, <3>2, <3>3 DEF Keyed, ToSet
  <2> QED BY <1>1, <2>1, <2>2, <2>3
<1>3. found /\ f.kind = "list" => rows = Listed
  OBVIOUS
<1> HIDE DEF rows
<1>4. /\ g \in Fetch /\ g.kind = f.kind /\ g.rows = rows /\ g.answer # "none"
      /\ g.answer = "given" => found
  BY <1>1, <1>2 DEF Fetch, Keyed
<1>5. fetches' = [fetches EXCEPT ![n] = g] /\ UNCHANGED <<status, page>>
  BY DEF Serve, rows
<1>6. Answer(g)
  <2>1. \A row \in ToSet(rows) : WasSo(row)
    BY <1>2 DEF WasSo, RowOf, Reaches
  <2> QED BY <1>2, <1>4, <2>1 DEF Answer
<1>7. Later(g)
  <2> SUFFICES ASSUME found, NEW row \in ToSet(requests)
               PROVE  /\ Overtakes(rows, row)
                      /\ f.kind = "list" => \/ status[row.id] = "forgotten"
                                            \/ \E q \in ToSet(rows) : q.id = row.id
    BY <1>4 DEF Later
  <2>1. WasSo(row) /\ row.id \in Ids
    BY RowFacts DEF ListInv
  <2>2. Overtakes(rows, row)
    <3>1. ASSUME NEW q \in ToSet(rows), q.id = row.id PROVE Reaches(row.status, q.status)
      <4>1. q.status = status[row.id] /\ status[row.id] \in Broker!Known
        BY <1>2, <3>1 DEF RowOf
      <4> QED BY <2>1, <4>1 DEF WasSo, Broker!Known, Broker!Live, Broker!Ended
    <3> QED BY <3>1 DEF Overtakes
  <2>3. ASSUME f.kind = "list", status[row.id] # "forgotten"
        PROVE  \E q \in ToSet(rows) : q.id = row.id
    <3>1. RowOf(row.id) \in ToSet(rows) /\ RowOf(row.id).id = row.id
      BY <1>1, <1>3, <2>1, <2>3, ListedFacts DEF WasSo, RowOf
    <3> QED BY <3>1
  <2> QED BY <2>2, <2>3
<1> HIDE DEF g
<1> QED BY <1>4, <1>5, <1>6, <1>7, AnswerKeeps

LEMMA BreakKeeps == ASSUME ListInv, NEW n \in DOMAIN fetches, Break(n) PROVE ListInv'
<1> DEFINE f == fetches[n]
           g == [f EXCEPT !.id = 0, !.answer = "failed"]
<1>1. f \in Fetch /\ Answer(f)
  BY FetchFacts
<1>2. /\ g \in Fetch /\ g.kind = f.kind /\ g.rows = f.rows /\ g.answer = "failed"
  BY <1>1 DEF Fetch
<1>3. fetches' = [fetches EXCEPT ![n] = g] /\ UNCHANGED <<status, page>>
  BY DEF Break
<1>4. Answer(g) /\ Later(g)
  BY <1>1, <1>2 DEF Answer, Later
<1> HIDE DEF g
<1> QED BY <1>2, <1>3, <1>4, AnswerKeeps

\* A new call is the only one of its kind.
LEMMA AskKeeps ==
  ASSUME ListInv, Refresh \/ \E i \in Ids : Find(i)
  PROVE  ListInv'
<1>1. /\ UNCHANGED <<status, heard, requests, listFailed>>
      /\ lookupFailed' \in BOOLEAN /\ listLoading' \in BOOLEAN /\ lookupPending' \in BOOLEAN
      /\ lookupPending' => ~ lookupFailed'
  <2>1. /\ lookupFailed \in BOOLEAN /\ listLoading \in BOOLEAN /\ lookupPending \in BOOLEAN
        /\ lookupPending => ~ lookupFailed
    BY DEF ListInv
  <2>2. CASE Refresh
    BY <2>1, <2>2 DEF Refresh
  <2>3. CASE \E i \in Ids : Find(i)
    BY <2>1, <2>3 DEF Find
  <2> QED BY <2>2, <2>3
<1>2. PICK kind \in {"list", "lookup"}, i \in Ids \cup {0} :
        /\ fetches' = Append(fetches, Call(kind, i))
        /\ kind = "lookup" => i \in Ids
        /\ InFlight(kind) = {}
        /\ kind = "list" => listLoading' /\ UNCHANGED lookupPending
        /\ kind = "lookup" => lookupPending' /\ UNCHANGED listLoading
  BY DEF ListInv, OneOfAKind, Refresh, Find
<1> DEFINE c == Call(kind, i)
<1>3. c \in Fetch /\ c.kind = kind /\ c.answer = "none" /\ c.rows = <<>> /\ c.id = i
  BY DEF Call, Fetch
<1> HIDE DEF c
<1>4. /\ fetches \in Seq(Fetch) /\ fetches' \in Seq(Fetch)
      /\ DOMAIN fetches' = 1 .. Len(fetches) + 1 /\ DOMAIN fetches = 1 .. Len(fetches)
      /\ Len(fetches) \in Nat
      /\ fetches'[Len(fetches) + 1] = c
      /\ \A m \in 1 .. Len(fetches) : fetches'[m] = fetches[m]
  BY <1>2, <1>3 DEF ListInv, c
<1>5. /\ \A m \in 1 .. Len(fetches) + 1 : m \in 1 .. Len(fetches) \/ m = Len(fetches) + 1
      /\ \A m \in 1 .. Len(fetches) : m \in 1 .. Len(fetches) + 1
      /\ Len(fetches) + 1 \in 1 .. Len(fetches) + 1
  BY <1>4
<1>6. OneOfAKind'
  <2>1. \A m \in DOMAIN fetches : fetches[m].kind # kind
    BY <1>2 DEF InFlight
  <2>2. \A m, n \in DOMAIN fetches' : fetches'[m].kind = fetches'[n].kind => m = n
    BY <1>3, <1>4, <1>5, <2>1 DEF ListInv, OneOfAKind
  <2>3. /\ InFlight(kind)' # {}
        /\ \A k \in {"list", "lookup"} \ {kind} : InFlight(k)' = InFlight(k)
    BY <1>3, <1>4, <1>5 DEF InFlight
  <2> QED BY <1>2, <2>2, <2>3 DEF ListInv, OneOfAKind
<1>7. Answer(c) /\ Later(c)
  <2>1. Keyed(<<>>) /\ ToSet(<<>>) = {}
    BY DEF Keyed, ToSet
  <2> QED BY <1>2, <1>3, <2>1 DEF Answer, Later
<1>8. \A m \in DOMAIN fetches' : Answer(fetches'[m]) /\ Later(fetches'[m])
  BY <1>4, <1>5, <1>7, FetchFacts
<1>9. \A m \in DOMAIN fetches' : (Answer(fetches[m]) /\ Later(fetches[m]))'
  BY <1>1, <1>8 DEF Answer, Later, Overtakes, WasSo, Keyed, Reaches
<1>10. (Broker!TypeOK /\ Keyed(requests) /\ \A row \in ToSet(requests) : WasSo(row))'
  BY <1>1 DEF ListInv, Broker!TypeOK, Keyed, WasSo
<1> QED BY <1>1, <1>4, <1>6, <1>9, <1>10 DEF ListInv

\* Where a call that is left stood before call n was over
Before(n, k) == IF k < n THEN k ELSE k + 1

LEMMA SettledFacts ==
  ASSUME ListInv, NEW n \in DOMAIN fetches
  PROVE  LET s == Settled(n) IN
           /\ s \in Seq(Fetch)
           /\ \A k \in DOMAIN s :
                LET h == fetches[Before(n, k)] IN
                  /\ Before(n, k) \in DOMAIN fetches /\ Before(n, k) # n
                  /\ s[k] = IF h.answer = "given" /\ fetches[n].answer = "given"
                            THEN [h EXCEPT !.crossed = @ \cup {fetches[n].kind}] ELSE h
           /\ \A m \in DOMAIN fetches : m # n => \E k \in DOMAIN s : Before(n, k) = m
           /\ \A j, k \in DOMAIN s : Before(n, j) = Before(n, k) => j = k
<1> DEFINE Mark(h) == IF h.answer = "given" /\ fetches[n].answer = "given"
                      THEN [h EXCEPT !.crossed = @ \cup {fetches[n].kind}] ELSE h
           marked == [m \in DOMAIN fetches |-> Mark(fetches[m])]
           N == Len(fetches)
           s == Settled(n)
<1>1. /\ fetches \in Seq(Fetch) /\ N \in Nat /\ DOMAIN fetches = 1 .. N
      /\ n \in 1 .. N /\ n \in Nat /\ fetches[n].kind \in {"list", "lookup"}
  BY FetchFacts DEF ListInv
<1>2. \A h \in Fetch : Mark(h) \in Fetch
  BY <1>1 DEF Fetch
<1>3. \A m \in 1 .. N : fetches[m] \in Fetch
  BY <1>1
<1>4. s = RemoveAt(marked, n)
  BY DEF Settled
<1> HIDE DEF Mark, s
<1>5. /\ marked \in Seq(Fetch) /\ Len(marked) = N
      /\ \A m \in 1 .. N : marked[m] = Mark(fetches[m])
  BY <1>1, <1>2, <1>3
<1> HIDE DEF marked
<1>6. /\ s \in Seq(Fetch) /\ DOMAIN s = 1 .. N - 1
      /\ \A k \in 1 .. N - 1 : s[k] = marked[Before(n, k)]
  <2> DEFINE a == SubSeq(marked, 1, n - 1)
             b == SubSeq(marked, n + 1, N)
  <2>1. /\ a \in Seq(Fetch) /\ Len(a) = n - 1 /\ \A k \in 1 .. n - 1 : a[k] = marked[k]
    BY <1>1, <1>5
  <2>2. /\ b \in Seq(Fetch) /\ Len(b) = N - n /\ \A k \in 1 .. N - n : b[k] = marked[n + k]
    BY <1>1, <1>5
  <2>3. s = a \o b
    BY <1>4, <1>5 DEF RemoveAt
  <2> HIDE DEF a, b
  <2>4. /\ s \in Seq(Fetch) /\ Len(s) = N - 1 /\ DOMAIN s = 1 .. N - 1
    <3>1. s \in Seq(Fetch) /\ Len(s) = Len(a) + Len(b)
      <4>1. a \in Seq(Fetch) /\ b \in Seq(Fetch)
        BY <2>1, <2>2
      <4> QED BY <2>3, <4>1, ConcatProperties
    <3>2. Len(a) + Len(b) = N - 1
      BY <1>1, <2>1, <2>2
    <3> QED BY <3>1, <3>2
  <2>5. ASSUME NEW k \in 1 .. N - 1 PROVE s[k] = marked[Before(n, k)]
    <3>1. CASE k < n
      <4>1. k \in 1 .. n - 1
        BY <1>1, <3>1
      <4>2. s[k] = a[k]
        BY <1>1, <2>1, <2>2, <2>3, <4>1
      <4> QED BY <2>1, <3>1, <4>1, <4>2 DEF Before
    <3>2. CASE ~ (k < n)
      <4>1. k - (n - 1) \in 1 .. N - n /\ n + (k - (n - 1)) = k + 1 /\ k > n - 1
        BY <1>1, <3>2
      <4>2. s[k] = b[k - (n - 1)]
        <5>1. a \in Seq(Fetch) /\ b \in Seq(Fetch) /\ Len(a) = n - 1 /\ Len(b) = N - n
          BY <2>1, <2>2
        <5>2. k \in 1 .. Len(a) + Len(b) /\ ~ (k <= Len(a)) /\ k - Len(a) = k - (n - 1)
          BY <1>1, <4>1, <5>1
        <5>3. (a \o b)[k] = IF k <= Len(a) THEN a[k] ELSE b[k - Len(a)]
          BY <5>1, <5>2, ConcatProperties, Zenon
        <5> QED BY <2>3, <5>2, <5>3
      <4> QED BY <2>2, <3>2, <4>1, <4>2 DEF Before
    <3> QED BY <3>1, <3>2
  <2> QED BY <2>4, <2>5
<1>7. \A k \in 1 .. N - 1 : Before(n, k) \in 1 .. N /\ Before(n, k) # n
  BY <1>1 DEF Before
<1>8. ASSUME NEW m \in 1 .. N, m # n PROVE \E k \in 1 .. N - 1 : Before(n, k) = m
  <2>1. CASE m < n
    BY <1>1, <2>1 DEF Before
  <2>2. CASE ~ (m < n)
    <3>1. m - 1 \in 1 .. N - 1 /\ ~ (m - 1 < n) /\ (m - 1) + 1 = m
      BY <1>1, <1>8, <2>2
    <3> QED BY <3>1 DEF Before
  <2> QED BY <2>1, <2>2
<1>9. \A j, k \in 1 .. N - 1 : Before(n, j) = Before(n, k) => j = k
  BY <1>1 DEF Before
<1>10. \A k \in 1 .. N - 1 : s[k] = Mark(fetches[Before(n, k)])
  BY <1>5, <1>6, <1>7
<1> QED BY <1>1, <1>6, <1>7, <1>8, <1>9, <1>10 DEF Mark, s

\* What the page shows once call n has arrived
LEMMA ArrivedFacts ==
  ASSUME ListInv, NEW n \in DOMAIN fetches, Arrive(n)
  PROVE  /\ Keyed(requests')
         /\ \A row \in ToSet(requests') : WasSo(row)
         /\ fetches[n].answer # "given" => requests' = requests
         /\ requests' # <<>> => heard'
         /\ fetches[n].answer = "given" /\ fetches[n].kind = "list" => requests' = fetches[n].rows
         /\ fetches[n].answer = "given" /\ fetches[n].kind = "lookup" =>
              \E row \in ToSet(fetches[n].rows) :
                ToSet(requests') = {row} \cup {q \in ToSet(requests) : q.id # row.id}
<1> DEFINE f == fetches[n]
<1>1. /\ Keyed(f.rows) /\ \A row \in ToSet(f.rows) : WasSo(row)
      /\ f.kind \in {"list", "lookup"}
      /\ f.answer = "given" /\ f.kind = "lookup" => Len(f.rows) = 1
  BY FetchFacts DEF Answer
<1>2. /\ Keyed(requests) /\ \A row \in ToSet(requests) : WasSo(row)
      /\ requests # <<>> => heard
  BY DEF ListInv
<1>3. CASE f.answer # "given"
  <2>1. requests' = requests /\ heard' = heard
    BY <1>1, <1>3 DEF Arrive, ListSettles, LookupSettles, ListInv
  <2> QED BY <1>2, <1>3, <2>1
<1>4. CASE f.answer = "given" /\ f.kind = "list"
  <2>1. requests' = f.rows /\ heard'
    BY <1>4 DEF Arrive, ListSettles
  <2> QED BY <1>1, <1>4, <2>1
<1>5. CASE f.answer = "given" /\ f.kind = "lookup"
  <2> DEFINE row == f.rows[1]
  <2>1. requests' = WithFirst(row) /\ heard'
    BY <1>5 DEF Arrive, LookupSettles
  <2>2. row \in ToSet(f.rows) /\ row \in Row
    <3>1. 1 \in DOMAIN f.rows
      BY <1>1, <1>5 DEF Keyed
    <3> QED BY <1>1, <3>1, RowFacts
  <2> HIDE DEF row
  <2>3. Keyed(WithFirst(row)) /\ ToSet(WithFirst(row)) = {row} \cup {q \in ToSet(requests) : q.id # row.id}
    BY <1>2, <2>2, WithFirstFacts
  <2>4. \A q \in ToSet(requests') : WasSo(q)
    BY <1>1, <1>2, <2>1, <2>2, <2>3
  <2> QED BY <1>5, <2>1, <2>2, <2>3, <2>4
<1> QED BY <1>1, <1>3, <1>4, <1>5

LEMMA ArriveKeeps == ASSUME ListInv, NEW n \in DOMAIN fetches, Arrive(n) PROVE ListInv'
<1> DEFINE f == fetches[n]
           s == Settled(n)
<1>1. /\ fetches' = s /\ UNCHANGED status
      /\ f.kind \in {"list", "lookup"}
      /\ Keyed(requests') /\ \A row \in ToSet(requests') : WasSo(row)
      /\ f.answer # "given" => requests' = requests
      /\ requests' # <<>> => heard'
  BY ArrivedFacts, FetchFacts DEF Arrive
<1> HIDE DEF s
<1>2. /\ s \in Seq(Fetch)
      /\ \A k \in DOMAIN s :
           LET h == fetches[Before(n, k)] IN
             /\ Before(n, k) \in DOMAIN fetches /\ Before(n, k) # n
             /\ s[k] = IF h.answer = "given" /\ f.answer = "given"
                       THEN [h EXCEPT !.crossed = @ \cup {f.kind}] ELSE h
      /\ \A m \in DOMAIN fetches : m # n => \E k \in DOMAIN s : Before(n, k) = m
      /\ \A j, k \in DOMAIN s : Before(n, j) = Before(n, k) => j = k
  BY SettledFacts DEF s
<1>3. ASSUME NEW k \in DOMAIN s
      PROVE  LET h == fetches[Before(n, k)] IN
               /\ Before(n, k) \in DOMAIN fetches /\ Before(n, k) # n /\ h \in Fetch
               /\ h.kind # f.kind /\ Answer(h) /\ Later(h)
               /\ s[k].kind = h.kind /\ s[k].answer = h.answer /\ s[k].rows = h.rows
               /\ s[k].id = h.id
               /\ h.answer = "given" /\ f.answer = "given" => f.kind \in s[k].crossed
               /\ f.answer # "given" => s[k] = h
  <2> DEFINE h == fetches[Before(n, k)]
  <2>1. Before(n, k) \in DOMAIN fetches /\ Before(n, k) # n
    BY <1>2
  <2>2. h \in Fetch /\ Answer(h) /\ Later(h)
    BY <2>1, FetchFacts
  <2>3. h.kind # f.kind
    BY <2>1 DEF ListInv, OneOfAKind
  <2>4. s[k] = IF h.answer = "given" /\ f.answer = "given"
               THEN [h EXCEPT !.crossed = @ \cup {f.kind}] ELSE h
    BY <1>2
  <2> HIDE DEF h
  <2>5. /\ s[k].kind = h.kind /\ s[k].answer = h.answer /\ s[k].rows = h.rows
        /\ s[k].id = h.id
        /\ h.answer = "given" /\ f.answer = "given" => f.kind \in s[k].crossed
        /\ f.answer # "given" => s[k] = h
    BY <2>2, <2>4 DEF Fetch
  <2> QED BY <2>1, <2>2, <2>3, <2>5 DEF h
<1>4. OneOfAKind'
  <2>1. \A j, k \in DOMAIN s : s[j].kind = s[k].kind => j = k
    <3>1. \A j, k \in DOMAIN s : s[j].kind = s[k].kind => Before(n, j) = Before(n, k)
      BY <1>3 DEF ListInv, OneOfAKind
    <3> QED BY <1>2, <3>1
  <2>2. ASSUME NEW kind, kind = f.kind PROVE InFlight(kind)' = {}
    BY <1>1, <1>3, <2>2 DEF InFlight
  <2>3. ASSUME NEW kind \in {"list", "lookup"}, kind # f.kind
        PROVE  InFlight(kind)' # {} <=> InFlight(kind) # {}
    <3>1. \A k \in DOMAIN s : s[k].kind = kind => Before(n, k) \in InFlight(kind)
      BY <1>3 DEF InFlight
    <3>2. \A m \in InFlight(kind) : \E k \in DOMAIN s : s[k].kind = kind
      <4> SUFFICES ASSUME NEW m \in InFlight(kind) PROVE \E k \in DOMAIN s : s[k].kind = kind
        OBVIOUS
      <4>1. m \in DOMAIN fetches /\ m # n /\ fetches[m].kind = kind
        BY <2>3 DEF InFlight
      <4>2. PICK k \in DOMAIN s : Before(n, k) = m
        BY <1>2, <4>1
      <4> QED BY <1>3, <4>1, <4>2
    <3>3. InFlight(kind)' = {k \in DOMAIN s : s[k].kind = kind}
      BY <1>1 DEF InFlight
    <3> QED BY <3>1, <3>2, <3>3
  <2>4. /\ f.kind = "list" => ~ listLoading' /\ UNCHANGED lookupPending
        /\ f.kind = "lookup" => ~ lookupPending' /\ UNCHANGED listLoading
    BY DEF Arrive, ListSettles, LookupSettles
  <2>5. (listLoading <=> InFlight("list") # {}) /\ (lookupPending <=> InFlight("lookup") # {})
    BY DEF ListInv, OneOfAKind
  <2>6. CASE f.kind = "list"
    <3>1. InFlight("list")' = {} /\ (InFlight("lookup")' # {} <=> InFlight("lookup") # {})
      BY <2>2, <2>3, <2>6
    <3> QED BY <1>1, <2>1, <2>4, <2>5, <2>6, <3>1 DEF OneOfAKind
  <2>7. CASE f.kind = "lookup"
    <3>1. InFlight("lookup")' = {} /\ (InFlight("list")' # {} <=> InFlight("list") # {})
      BY <2>2, <2>3, <2>7
    <3> QED BY <1>1, <2>1, <2>4, <2>5, <2>7, <3>1 DEF OneOfAKind
  <2> QED BY <1>1, <2>6, <2>7
<1>5. \A k \in DOMAIN fetches' : Answer(fetches'[k])
  BY <1>1, <1>3 DEF Answer
<1> DEFINE LaterThan(rows, g) ==
             g.answer = "given" /\ g.crossed \subseteq {g.kind} =>
               \A row \in ToSet(rows) :
                 /\ Overtakes(g.rows, row)
                 /\ g.kind = "list" => \/ status[row.id] = "forgotten"
                                       \/ \E q \in ToSet(g.rows) : q.id = row.id
<1>6. ASSUME NEW k \in DOMAIN s PROVE LaterThan(requests', s[k])
  <2> DEFINE h == fetches[Before(n, k)]
  <2>1. CASE f.answer # "given"
    <3>1. s[k] = h /\ Later(h) /\ requests' = requests
      BY <1>1, <1>3, <2>1
    <3> QED BY <3>1 DEF Later
  <2>2. CASE f.answer = "given"
    BY <1>3, <2>2
  <2> QED BY <2>1, <2>2
<1>7. \A k \in DOMAIN fetches' : LaterThan(requests', fetches'[k])
  BY <1>1, <1>6
<1>8. /\ {heard, listFailed, lookupFailed, listLoading, lookupPending}' \subseteq BOOLEAN
      /\ lookupPending' => ~ lookupFailed'
  <2>1. /\ lookupFailed \in BOOLEAN /\ listLoading \in BOOLEAN /\ lookupPending \in BOOLEAN
        /\ listFailed \in BOOLEAN /\ heard \in BOOLEAN
        /\ lookupPending => ~ lookupFailed
    BY DEF ListInv
  <2>2. CASE f.kind = "list"
    BY <2>1, <2>2 DEF Arrive, ListSettles
  <2>3. CASE f.kind # "list"
    BY <2>1, <2>3 DEF Arrive, LookupSettles
  <2> QED BY <2>2, <2>3
<1>9. (Broker!TypeOK /\ \A k \in DOMAIN fetches : Answer(fetches[k]) /\ Later(fetches[k]))'
  <2>1. Broker!TypeOK'
    BY <1>1 DEF ListInv, Broker!TypeOK
  <2>2. \A k \in DOMAIN fetches' : Answer(fetches[k])'
    BY <1>1, <1>5 DEF Answer, Keyed, WasSo, Reaches
  <2>3. \A k \in DOMAIN fetches' : Later(fetches[k])'
    BY <1>1, <1>7 DEF Later, Overtakes, Reaches
  <2> QED BY <2>1, <2>2, <2>3
<1>10. (Keyed(requests) /\ \A row \in ToSet(requests) : WasSo(row))'
  BY <1>1 DEF Keyed, WasSo
<1> QED BY <1>1, <1>2, <1>4, <1>8, <1>9, <1>10 DEF ListInv

LEMMA NextList == ListInv /\ [Next]_vars => ListInv'
<1> SUFFICES ASSUME ListInv, [Next]_vars PROVE ListInv'
  OBVIOUS
<1>1. CASE Next
  BY <1>1, BrokerMovesKeeps, ServeKeeps, BreakKeeps, ArriveKeeps, AskKeeps DEF Next
<1>2. CASE UNCHANGED vars
  <2>1. UNCHANGED <<status, heard, requests, listLoading, lookupPending, listFailed,
                    lookupFailed, fetches>>
    BY <1>2 DEF vars, page
  <2>2. (Broker!TypeOK /\ Keyed(requests) /\ (\A row \in ToSet(requests) : WasSo(row)) /\ OneOfAKind)'
    BY <2>1 DEF ListInv, Broker!TypeOK, Keyed, WasSo, Reaches, OneOfAKind, InFlight
  <2>3. \A n \in DOMAIN fetches : Answer(fetches[n]) /\ Later(fetches[n])
    BY DEF ListInv
  <2>4. (\A n \in DOMAIN fetches : Answer(fetches[n]) /\ Later(fetches[n]))'
    BY <2>1, <2>3 DEF Answer, Later, Overtakes, Keyed, WasSo, Reaches
  <2> QED BY <2>1, <2>2, <2>4 DEF ListInv
<1> QED BY <1>1, <1>2

-----------------------------------------------------------------------------
(* What follows *)

LEMMA ListInvariant == Spec => []ListInv
<1> QED BY InitList, NextList, PTL DEF Spec

LEMMA OneCall ==
  ASSUME ListInv, NEW kind \in {"list", "lookup"}
  PROVE  Cardinality(InFlight(kind)) = IF InFlight(kind) # {} THEN 1 ELSE 0
<1>1. CASE InFlight(kind) = {}
  BY <1>1, FS_EmptySet
<1>2. CASE InFlight(kind) # {}
  <2>1. PICK n : n \in InFlight(kind)
    BY <1>2
  <2>2. InFlight(kind) = {n}
    BY <2>1 DEF InFlight, ListInv, OneOfAKind
  <2> QED BY <2>2, FS_Singleton
<1> QED BY <1>1, <1>2

\* Every variable keeps its type: the rows shown are one to a request, and the page has
\* at most one refresh and one lookup under way and says so (App.svelte).
THEOREM RequestListTypes == Spec => []RequestListTypeOK
<1>1. ListInv => RequestListTypeOK
  BY OneCall DEF ListInv, OneOfAKind, RequestListTypeOK, Keyed
<1> QED BY <1>1, ListInvariant, PTL

\* The status shown of a request is that of its row.
LEMMA ShownFacts ==
  ASSUME NEW rows, Keyed(rows), NEW row \in ToSet(rows)
  PROVE  (CHOOSE r \in ToSet(rows) : r.id = row.id).status = row.status
<1>1. \A r \in ToSet(rows) : r.id = row.id => r = row
  BY RowFacts
<1>2. (CHOOSE r \in ToSet(rows) : r.id = row.id) = row
  BY <1>1
<1> QED BY <1>2

LEMMA NextGoesBack ==
  ASSUME ListInv, [Next]_vars, NEW i \in Ids, GoesBack(i)
  PROVE  \E n \in DOMAIN fetches :
           /\ fetches' = Settled(n)
           /\ {"list", "lookup"} \ {fetches[n].kind} \subseteq fetches[n].crossed
<1>1. ASSUME requests' = requests PROVE FALSE
  <2>1. Shown' = Shown /\ ShownStatus(i)' = ShownStatus(i)
    BY <1>1 DEF Shown, ShownStatus
  <2> QED BY <2>1 DEF GoesBack, Reaches
<1>2. PICK n \in DOMAIN fetches : Arrive(n)
  BY <1>1 DEF Next, vars, page, BrokerMoves, Serve, Break, Refresh, Find
<1> DEFINE f == fetches[n]
<1>3. fetches' = Settled(n) /\ UNCHANGED status
  BY <1>2 DEF Arrive
<1>4. /\ Keyed(requests) /\ Keyed(requests') /\ f.answer = "given"
      /\ f.kind = "list" => requests' = f.rows
      /\ f.kind = "lookup" =>
           \E row \in ToSet(f.rows) :
             ToSet(requests') = {row} \cup {q \in ToSet(requests) : q.id # row.id}
  BY <1>1, <1>2, ArrivedFacts DEF ListInv
<1>5. Later(f) /\ f.kind \in {"list", "lookup"}
  BY FetchFacts
<1>6. PICK row \in ToSet(requests) : row.id = i
  <2>1. i \in Shown
    BY DEF GoesBack
  <2> QED BY <2>1 DEF Shown, ToSet
<1>7. ShownStatus(i) = row.status
  BY <1>4, <1>6, ShownFacts DEF ShownStatus
<1>8. ASSUME NEW q \in ToSet(requests'), q.id = i
      PROVE  i \in Shown' /\ ShownStatus(i)' = q.status
  <2>1. ShownStatus(i)' = q.status
    BY <1>4, <1>8, ShownFacts DEF ShownStatus
  <2>2. i \in Shown'
    BY <1>8 DEF Shown, ToSet
  <2> QED BY <2>1, <2>2
<1>9. ASSUME f.crossed \subseteq {f.kind} PROVE FALSE
  <2>1. /\ Overtakes(f.rows, row)
        /\ f.kind = "list" => \/ status[i] = "forgotten"
                              \/ \E q \in ToSet(f.rows) : q.id = i
    BY <1>4, <1>5, <1>6, <1>9 DEF Later
  <2>2. CASE \E q \in ToSet(requests') : q.id = i
    <3>1. PICK q \in ToSet(requests') : q.id = i
      BY <2>2
    <3>2. q = row \/ q \in ToSet(f.rows)
      <4>1. CASE f.kind = "list"
        BY <1>4, <3>1, <4>1
      <4>2. CASE f.kind = "lookup"
        <5>1. PICK found \in ToSet(f.rows) :
                ToSet(requests') = {found} \cup {r \in ToSet(requests) : r.id # found.id}
          BY <1>4, <4>2
        <5>2. q = found \/ q \in ToSet(requests)
          BY <3>1, <5>1
        <5> QED BY <1>4, <1>6, <3>1, <5>2, RowFacts
      <4> QED BY <1>5, <4>1, <4>2
    <3>3. Reaches(row.status, q.status)
      BY <1>6, <2>1, <3>1, <3>2 DEF Overtakes, Reaches
    <3> QED BY <1>7, <1>8, <3>1, <3>3 DEF GoesBack
  <2>3. CASE ~ \E q \in ToSet(requests') : q.id = i
    <3>1. i \notin Shown'
      BY <2>3 DEF Shown, ToSet
    <3>2. f.kind = "list" /\ status[i] = "forgotten"
      <4>1. CASE f.kind = "list"
        BY <1>4, <2>1, <2>3, <4>1
      <4>2. CASE f.kind = "lookup"
        <5>1. PICK found \in ToSet(f.rows) :
                ToSet(requests') = {found} \cup {r \in ToSet(requests) : r.id # found.id}
          BY <1>4, <4>2
        <5> QED BY <1>6, <2>3, <5>1
      <4> QED BY <1>5, <4>1, <4>2
    <3> QED BY <3>1, <3>2 DEF GoesBack
  <2> QED BY <2>2, <2>3
<1>10. {"list", "lookup"} \ {f.kind} \subseteq f.crossed
  <2>1. f.crossed \subseteq {"list", "lookup"}
    BY FetchFacts DEF Fetch
  <2> QED BY <1>5, <1>9, <2>1
<1> QED BY <1>3, <1>10

\* A row goes back, or goes while the broker knows its request, only where a refresh and a
\* lookup have crossed (App.svelte, refreshRequests and findRequest).
THEOREM RowsGoBackOnlyByCrossing == Spec => OnlyCrossingGoesBack
<1> DEFINE Crossing == \E n \in DOMAIN fetches :
                          /\ fetches' = Settled(n)
                          /\ {"list", "lookup"} \ {fetches[n].kind} \subseteq fetches[n].crossed
<1>1. ListInv /\ [Next]_vars => [(\E i \in Ids : GoesBack(i)) => Crossing]_vars
  BY NextGoesBack
<1> QED BY <1>1, ListInvariant, PTL DEF Spec, OnlyCrossingGoesBack

=============================================================================
