---------------------------- MODULE StreamProofs ----------------------------
(***************************************************************************)
(* A result on its way to the viewer, for every result within the limit    *)
(* and every way its bytes are cut: the parser refuses no frame of the     *)
(* server's, and the table that is published is the whole result.          *)
(*                                                                         *)
(* Inductions go by the least number of a set, because a set can be        *)
(* written down where a predicate cannot be passed.                        *)
(***************************************************************************)
EXTENDS ResultStream, SequenceTheorems, WellFoundedInduction, TLAPS

-----------------------------------------------------------------------------
(* Induction *)

LEMMA LeastNumber ==
  ASSUME NEW T \in SUBSET Nat, T # {}
  PROVE  \E x \in T : \A y \in T : x <= y
<1> DEFINE R == OpToRel(<, Nat)
<1>1. IsWellFoundedOn(R, Nat)
  BY NatLessThanWellFounded
<1>2. \A x, y \in Nat : y < x => <<y, x>> \in R
  BY DEF OpToRel
<1> HIDE DEF R
<1>3. \E x \in T : \A y \in T : ~ (<<y, x>> \in R)
  BY <1>1, WFMin
<1>4. \A x, y \in T : x \in Nat /\ y \in Nat /\ (y < x \/ x <= y)
  OBVIOUS
<1> QED BY <1>2, <1>3, <1>4

-----------------------------------------------------------------------------
(* Sums of lengths *)

Lengths == {s \in Seq(Nat \ {0}) : s # <<>>}

LEMMA SumsExist ==
  ASSUME NEW s \in Lengths
  PROVE  \E f : f = [k \in 0 .. Len(s) |-> IF k = 0 THEN 0 ELSE f[k - 1] + s[k]]
<1> DEFINE Upto(n) == {f \in [0 .. n -> Nat] :
                         f[0] = 0 /\ \A k \in 1 .. n : f[k] = f[k - 1] + s[k]}
           T == {n \in 0 .. Len(s) : Upto(n) = {}}
<1>1. Len(s) \in Nat /\ \A k \in 1 .. Len(s) : s[k] \in Nat
  BY DEF Lengths
<1>2. T = {}
  <2> SUFFICES ASSUME T # {} PROVE FALSE
    OBVIOUS
  <2>1. PICK n \in T : \A m \in T : n <= m
    <3>1. T \in SUBSET Nat
      BY <1>1
    <3> HIDE DEF T
    <3> QED BY <3>1, LeastNumber
  <2>2. n # 0
    <3>1. [k \in 0 .. 0 |-> 0] \in Upto(0)
      OBVIOUS
    <3> QED BY <3>1
  <2>3. n - 1 \in 0 .. Len(s) /\ n \in 1 .. Len(s)
    BY <1>1, <2>2
  <2>4. n - 1 \notin T
    <3>1. \A m \in T : n <= m
      BY <2>1
    <3>2. n \in Nat /\ ~ (n <= n - 1)
      BY <1>1
    <3> HIDE DEF T
    <3> QED BY <3>1, <3>2
  <2>5. PICK f \in [0 .. n - 1 -> Nat] :
          f[0] = 0 /\ \A k \in 1 .. n - 1 : f[k] = f[k - 1] + s[k]
    BY <2>3, <2>4
  <2> DEFINE g == [k \in 0 .. n |-> IF k = n THEN f[n - 1] + s[n] ELSE f[k]]
  <2>6. g \in [0 .. n -> Nat]
    BY <1>1, <2>3, <2>5
  <2>7. g[0] = 0 /\ \A k \in 1 .. n : g[k] = g[k - 1] + s[k]
    BY <1>1, <2>3, <2>5
  <2>8. g \in Upto(n)
    BY <2>6, <2>7
  <2> QED BY <2>1, <2>8
<1>3. PICK f \in [0 .. Len(s) -> Nat] :
        f[0] = 0 /\ \A k \in 1 .. Len(s) : f[k] = f[k - 1] + s[k]
  BY <1>1, <1>2
<1>4. f = [k \in 0 .. Len(s) |-> IF k = 0 THEN 0 ELSE f[k - 1] + s[k]]
  BY <1>1, <1>3
<1> QED BY <1>4

LEMMA SumsDefinition ==
  ASSUME NEW s \in Lengths
  PROVE  Sums(s) = [k \in 0 .. Len(s) |-> IF k = 0 THEN 0 ELSE Sums(s)[k - 1] + s[k]]
BY SumsExist DEF Sums

\* The sums grow by at least one with every length.
LEMMA SumsGrow ==
  ASSUME NEW s \in Lengths
  PROVE  /\ \A k \in 0 .. Len(s) : Sums(s)[k] \in Nat /\ k <= Sums(s)[k]
         /\ Sums(s)[0] = 0
         /\ \A k \in 1 .. Len(s) : Sums(s)[k] = Sums(s)[k - 1] + s[k]
         /\ \A j, k \in 0 .. Len(s) : j <= k => Sums(s)[j] <= Sums(s)[k]
<1> DEFINE f == Sums(s)
<1>1. Len(s) \in Nat /\ \A k \in 1 .. Len(s) : s[k] \in Nat \ {0}
  BY DEF Lengths
<1>2. f = [k \in 0 .. Len(s) |-> IF k = 0 THEN 0 ELSE f[k - 1] + s[k]]
  BY SumsDefinition
<1> HIDE DEF f
<1>3. f[0] = 0 /\ \A k \in 1 .. Len(s) : f[k] = f[k - 1] + s[k]
  <2>1. \A k \in 0 .. Len(s) : f[k] = IF k = 0 THEN 0 ELSE f[k - 1] + s[k]
    BY <1>2
  <2> QED BY <1>1, <2>1
<1>4. \A k \in 0 .. Len(s) : f[k] \in Nat /\ k <= f[k]
  <2> DEFINE T == {n \in 0 .. Len(s) : ~ (f[n] \in Nat /\ n <= f[n])}
  <2>1. ASSUME T # {} PROVE FALSE
    <3>1. PICK n \in T : \A m \in T : n <= m
      <4>1. T \in SUBSET Nat
        BY <1>1
      <4> HIDE DEF T
      <4> QED BY <2>1, <4>1, LeastNumber
    <3>2. n # 0 /\ n - 1 \in 0 .. Len(s) /\ n - 1 \notin T
      BY <1>1, <1>3, <3>1
    <3> QED BY <1>1, <1>3, <3>1, <3>2
  <2> QED BY <2>1
<1>5. ASSUME NEW j \in 0 .. Len(s), NEW k \in 0 .. Len(s), j <= k PROVE f[j] <= f[k]
  <2> DEFINE T == {n \in 0 .. Len(s) : j <= n /\ ~ (f[j] <= f[n])}
  <2>1. ASSUME T # {} PROVE FALSE
    <3>1. PICK n \in T : \A m \in T : n <= m
      <4>1. T \in SUBSET Nat
        BY <1>1
      <4> HIDE DEF T
      <4> QED BY <2>1, <4>1, LeastNumber
    <3>2. n # j /\ n - 1 \in 0 .. Len(s) /\ j <= n - 1 /\ n - 1 \notin T
      BY <1>1, <1>4, <3>1
    <3>3. f[n] = f[n - 1] + s[n] /\ f[n - 1] \in Nat /\ s[n] \in Nat
      BY <1>1, <1>3, <1>4, <3>1, <3>2
    <3> QED BY <1>4, <3>1, <3>2, <3>3
  <2> QED BY <1>5, <2>1
<1> QED BY <1>3, <1>4, <1>5 DEF f

-----------------------------------------------------------------------------
(* The bytes of a whole stream *)

\* How many bytes come before the k-th frame; the last one is the completion frame.
Start(s, k) == 2 * k + Sums(s)[k - 1]
Length(s) == Start(s, Len(s) + 1) + 2

IsStream(s, t) ==
  /\ t \in Seq(Byte) /\ Len(t) = Length(s)
  /\ t[1] = B("magic", 1, 0) /\ t[2] = B("magic", 2, 0)
  /\ \A k \in 1 .. Len(s) :
       /\ t[Start(s, k) + 1] = B("arrow", 0, 0)
       /\ t[Start(s, k) + 2] = B("length", s[k], 0)
       /\ \A j \in 1 .. s[k] : t[Start(s, k) + 2 + j] = B("data", k, j)
  /\ t[Start(s, Len(s) + 1) + 1] = B("complete", 0, 0)
  /\ t[Start(s, Len(s) + 1) + 2] = B("length", 0, 0)

Stream(s) == CHOOSE t : IsStream(s, t)

LEMMA StartFacts ==
  ASSUME NEW s \in Lengths
  PROVE  /\ Len(s) \in Nat \ {0} /\ \A k \in 1 .. Len(s) : s[k] \in Nat \ {0}
         /\ Start(s, 1) = 2
         /\ \A k \in 1 .. Len(s) + 1 : Start(s, k) \in Nat /\ 2 <= Start(s, k)
         /\ \A k \in 1 .. Len(s) : Start(s, k + 1) = Start(s, k) + 2 + s[k]
         /\ \A j, k \in 1 .. Len(s) + 1 : j < k => Start(s, j + 1) <= Start(s, k)
         /\ \A j, k \in 1 .. Len(s) + 1 : j <= k => Start(s, j) <= Start(s, k)
         /\ Length(s) \in Nat /\ Length(s) = Start(s, Len(s) + 1) + 2
         /\ Length(s) <= 4 + 3 * Total(s)
<1> DEFINE f == Sums(s)
<1>1. Len(s) \in Nat \ {0} /\ \A k \in 1 .. Len(s) : s[k] \in Nat \ {0}
  BY DEF Lengths
<1>2. /\ \A k \in 0 .. Len(s) : f[k] \in Nat /\ k <= f[k]
      /\ f[0] = 0
      /\ \A k \in 1 .. Len(s) : f[k] = f[k - 1] + s[k]
      /\ \A j, k \in 0 .. Len(s) : j <= k => f[j] <= f[k]
  BY SumsGrow
<1>3. \A k : Start(s, k) = 2 * k + f[k - 1]
  BY DEF Start
<1>4. Total(s) = f[Len(s)]
  BY DEF Total
<1> HIDE DEF f
<1>5. Start(s, 1) = 2
  BY <1>2, <1>3
<1>6. ASSUME NEW k \in 1 .. Len(s) + 1 PROVE Start(s, k) \in Nat /\ 2 <= Start(s, k)
  <2>1. k \in Nat /\ 1 <= k /\ k - 1 \in 0 .. Len(s)
    BY <1>1
  <2>2. f[k - 1] \in Nat /\ Start(s, k) = 2 * k + f[k - 1]
    BY <1>2, <1>3, <2>1
  <2> QED BY <2>1, <2>2
<1>7. ASSUME NEW k \in 1 .. Len(s) PROVE Start(s, k + 1) = Start(s, k) + 2 + s[k]
  <2>1. (k + 1) - 1 = k /\ k - 1 \in 0 .. Len(s) /\ k \in 0 .. Len(s)
    BY <1>1
  <2>2. Start(s, k + 1) = 2 * (k + 1) + f[k] /\ Start(s, k) = 2 * k + f[k - 1]
    BY <1>3, <2>1
  <2>3. f[k] = f[k - 1] + s[k] /\ f[k - 1] \in Nat /\ s[k] \in Nat /\ k \in Nat
    BY <1>1, <1>2, <2>1
  <2> QED BY <2>2, <2>3
<1>8. ASSUME NEW j \in 1 .. Len(s) + 1, NEW k \in 1 .. Len(s) + 1, j <= k
      PROVE  Start(s, j) <= Start(s, k)
  <2>1. j - 1 \in 0 .. Len(s) /\ k - 1 \in 0 .. Len(s) /\ j - 1 <= k - 1
    BY <1>1, <1>8
  <2>2. /\ f[j - 1] <= f[k - 1] /\ f[j - 1] \in Nat /\ f[k - 1] \in Nat
        /\ j \in Nat /\ k \in Nat
    BY <1>1, <1>2, <2>1
  <2>3. Start(s, j) = 2 * j + f[j - 1] /\ Start(s, k) = 2 * k + f[k - 1]
    BY <1>3
  <2> QED BY <1>8, <2>2, <2>3
<1>9. ASSUME NEW j \in 1 .. Len(s) + 1, NEW k \in 1 .. Len(s) + 1, j < k
      PROVE  Start(s, j + 1) <= Start(s, k)
  <2>1. j + 1 \in 1 .. Len(s) + 1 /\ j + 1 <= k
    BY <1>1, <1>9
  <2> QED BY <1>8, <2>1
<1>10. Length(s) \in Nat /\ Length(s) = Start(s, Len(s) + 1) + 2
  BY <1>1, <1>6 DEF Length
<1>11. Length(s) <= 4 + 3 * Total(s)
  <2>1. (Len(s) + 1) - 1 = Len(s) /\ Len(s) \in 0 .. Len(s)
    BY <1>1
  <2>2. f[Len(s)] \in Nat /\ Len(s) <= f[Len(s)]
    BY <1>2, <2>1
  <2>3. Start(s, Len(s) + 1) = 2 * (Len(s) + 1) + f[Len(s)]
    BY <1>3, <2>1
  <2> QED BY <1>1, <1>4, <1>10, <2>2, <2>3
<1> QED BY <1>1, <1>5, <1>6, <1>7, <1>8, <1>9, <1>10, <1>11

\* Every byte between the magic and the completion frame is in one frame.
LEMMA FrameOf ==
  ASSUME NEW s \in Lengths, NEW x \in Nat, 2 < x, x <= Start(s, Len(s) + 1)
  PROVE  \E k \in 1 .. Len(s) : Start(s, k) < x /\ x <= Start(s, k + 1)
<1> DEFINE T == {k \in 1 .. Len(s) : x <= Start(s, k + 1)}
<1>1. Len(s) \in T
  BY StartFacts
<1>2. T \in SUBSET Nat
  BY StartFacts
<1>3. \A k \in T : k \in 1 .. Len(s) /\ x <= Start(s, k + 1)
  OBVIOUS
<1>4. \A k \in 1 .. Len(s) : k \notin T => ~ (x <= Start(s, k + 1))
  OBVIOUS
<1> HIDE DEF T
<1>5. PICK k \in T : \A j \in T : k <= j
  BY <1>1, <1>2, LeastNumber
<1>6. CASE k = 1
  BY <1>3, <1>5, <1>6, StartFacts
<1>7. CASE k # 1
  <2>1. k - 1 \in 1 .. Len(s) /\ k - 1 \notin T /\ (k - 1) + 1 = k /\ k \in 1 .. Len(s) + 1
    BY <1>2, <1>3, <1>5, <1>7, StartFacts
  <2>2. ~ (x <= Start(s, k)) /\ Start(s, k) \in Nat
    BY <1>4, <2>1, StartFacts
  <2> QED BY <1>3, <1>5, <2>2
<1> QED BY <1>6, <1>7

LEMMA StreamExists == ASSUME NEW s \in Lengths PROVE IsStream(s, Stream(s))
<1> DEFINE N == Len(s)
           End == Start(s, N + 1)
           In(k, x) == Start(s, k) < x /\ x <= Start(s, k + 1)
           InFrame(k, x) == IF x = Start(s, k) + 1 THEN B("arrow", 0, 0)
                            ELSE IF x = Start(s, k) + 2 THEN B("length", s[k], 0)
                            ELSE B("data", k, x - Start(s, k) - 2)
           At(x) == IF x = 1 THEN B("magic", 1, 0)
                    ELSE IF x = 2 THEN B("magic", 2, 0)
                    ELSE IF x = End + 1 THEN B("complete", 0, 0)
                    ELSE IF x = End + 2 THEN B("length", 0, 0)
                    ELSE InFrame(CHOOSE k \in 1 .. N : In(k, x), x)
           t == [x \in 1 .. Length(s) |-> At(x)]
<1>1. /\ N \in Nat \ {0} /\ \A k \in 1 .. N : s[k] \in Nat \ {0}
      /\ End \in Nat /\ 2 <= End /\ Length(s) = End + 2 /\ Length(s) \in Nat
      /\ \A k \in 1 .. N : /\ Start(s, k) \in Nat /\ 2 <= Start(s, k)
                           /\ Start(s, k + 1) = Start(s, k) + 2 + s[k]
                           /\ Start(s, k + 1) \in Nat /\ Start(s, k + 1) <= End
  <2>1. ASSUME NEW k \in 1 .. N
        PROVE  /\ k \in 1 .. N + 1 /\ k + 1 \in 1 .. N + 1 /\ N + 1 \in 1 .. N + 1 /\ k + 1 <= N + 1
               /\ Start(s, k) \in Nat /\ 2 <= Start(s, k)
               /\ Start(s, k + 1) = Start(s, k) + 2 + s[k]
               /\ Start(s, k + 1) \in Nat /\ Start(s, k + 1) <= End
    <3>1. N \in Nat /\ k \in 1 .. N + 1 /\ k + 1 \in 1 .. N + 1 /\ N + 1 \in 1 .. N + 1 /\ k + 1 <= N + 1
      BY StartFacts
    <3> QED BY <3>1, StartFacts
  <2>2. N \in Nat \ {0} /\ N + 1 \in 1 .. N + 1
    BY StartFacts
  <2> QED BY <2>1, <2>2, StartFacts
<1>2. ASSUME NEW k \in 1 .. N, NEW x \in Nat, In(k, x)
      PROVE  (CHOOSE i \in 1 .. N : In(i, x)) = k
  <2>1. ASSUME NEW i \in 1 .. N, In(i, x) PROVE i = k
    <3>1. i \in 1 .. N + 1 /\ k \in 1 .. N + 1
      BY <1>1
    <3>2. i < k => Start(s, i + 1) <= Start(s, k)
      BY <3>1, StartFacts
    <3>3. k < i => Start(s, k + 1) <= Start(s, i)
      BY <3>1, StartFacts
    <3> QED BY <1>1, <1>2, <2>1, <3>2, <3>3
  <2> HIDE DEF In
  <2> QED BY <1>2, <2>1
<1>3. ASSUME NEW x \in 1 .. Length(s) PROVE At(x) \in Byte
  <2>1. CASE x \in {1, 2, End + 1, End + 2}
    BY <1>1, <2>1 DEF B, Byte
  <2>2. CASE x \notin {1, 2, End + 1, End + 2}
    <3>1. x \in Nat /\ 2 < x /\ x <= End
      BY <1>1, <2>2
    <3>2. PICK k \in 1 .. N : In(k, x)
      BY <3>1, FrameOf
    <3>3. At(x) = InFrame(k, x)
      BY <1>2, <2>2, <3>1, <3>2
    <3>4. InFrame(k, x) \in Byte
      <4>1. /\ k \in Nat /\ s[k] \in Nat /\ Start(s, k) \in Nat /\ x \in Nat
            /\ Start(s, k) < x
        BY <1>1, <3>1, <3>2
      <4>2. CASE x = Start(s, k) + 1
        BY <4>2 DEF B, Byte
      <4>3. CASE x = Start(s, k) + 2
        BY <4>1, <4>3 DEF B, Byte
      <4>4. CASE x # Start(s, k) + 1 /\ x # Start(s, k) + 2
        <5>1. x - Start(s, k) - 2 \in Nat
          BY <4>1, <4>4
        <5> QED BY <4>1, <4>4, <5>1 DEF B, Byte
      <4> QED BY <4>2, <4>3, <4>4
    <3> QED BY <3>3, <3>4
  <2> QED BY <2>1, <2>2
<1>4. t \in Seq(Byte) /\ Len(t) = Length(s) /\ \A x \in 1 .. Length(s) : t[x] = At(x)
  <2>1. \A x \in 1 .. Length(s) : At(x) \in Byte
    BY <1>3
  <2> HIDE DEF At
  <2>2. t \in [1 .. Length(s) -> Byte]
    BY <2>1
  <2>3. Length(s) \in Nat
    BY <1>1
  <2>4. \A x \in 1 .. Length(s) : t[x] = At(x)
    OBVIOUS
  <2> HIDE DEF t
  <2>5. t \in Seq(Byte) /\ Len(t) = Length(s)
    BY <2>2, <2>3
  <2> QED BY <2>4, <2>5
<1>5. ASSUME NEW k \in 1 .. N, NEW x \in Nat, In(k, x)
      PROVE  x \in 1 .. Length(s) /\ At(x) = InFrame(k, x)
  <2>1. x \notin {1, 2, End + 1, End + 2} /\ x \in 1 .. Length(s)
    BY <1>1, <1>5
  <2> QED BY <1>2, <1>5, <2>1
<1>6. ASSUME NEW k \in 1 .. N
      PROVE  /\ t[Start(s, k) + 1] = B("arrow", 0, 0)
             /\ t[Start(s, k) + 2] = B("length", s[k], 0)
             /\ \A j \in 1 .. s[k] : t[Start(s, k) + 2 + j] = B("data", k, j)
  <2>1. ASSUME NEW j \in 1 .. s[k] + 2
        PROVE  t[Start(s, k) + j] = InFrame(k, Start(s, k) + j)
    <3>1. Start(s, k) + j \in Nat /\ In(k, Start(s, k) + j)
      <4>1. /\ s[k] \in Nat /\ Start(s, k) \in Nat /\ Start(s, k + 1) = Start(s, k) + 2 + s[k]
            /\ j \in Nat /\ 1 <= j /\ j <= s[k] + 2
        BY <1>1
      <4> HIDE DEF InFrame, At, t
      <4> QED BY <4>1
    <3> HIDE DEF In, InFrame, At, t
    <3> QED BY <1>4, <1>5, <3>1
  <2>2. s[k] \in Nat /\ Start(s, k) \in Nat
    BY <1>1
  <2>3. 1 \in 1 .. s[k] + 2 /\ 2 \in 1 .. s[k] + 2 /\ \A j \in 1 .. s[k] : 2 + j \in 1 .. s[k] + 2
    BY <2>2
  <2>4. /\ InFrame(k, Start(s, k) + 1) = B("arrow", 0, 0)
        /\ InFrame(k, Start(s, k) + 2) = B("length", s[k], 0)
        /\ \A j \in 1 .. s[k] : InFrame(k, Start(s, k) + (2 + j)) = B("data", k, j)
    BY <2>2
  <2>5. \A j \in 1 .. s[k] : Start(s, k) + (2 + j) = Start(s, k) + 2 + j
    BY <2>2
  <2> HIDE DEF InFrame, t
  <2> QED BY <2>1, <2>3, <2>4, <2>5
<1>7. /\ t[1] = B("magic", 1, 0) /\ t[2] = B("magic", 2, 0)
      /\ t[End + 1] = B("complete", 0, 0) /\ t[End + 2] = B("length", 0, 0)
  BY <1>1, <1>4
<1>8. IsStream(s, t)
  <2> HIDE DEF t
  <2> QED BY <1>4, <1>6, <1>7 DEF IsStream
<1> HIDE DEF t
<1> QED BY <1>8 DEF Stream

-----------------------------------------------------------------------------
(* The parser's loop *)

\* A frame that is all there is read into a parser.
LEMMA ReadFrameTypes ==
  ASSUME NEW p \in Parser, ~ Stops(p)
  PROVE  ReadFrame(p) \in Parser
<1> DEFINE rest == SubSeq(p.buffer, 3, Len(p.buffer))
           length == p.buffer[2].a
<1>1. /\ p.buffer \in Seq(Byte) /\ Len(p.buffer) \in Nat /\ 2 <= Len(p.buffer)
      /\ p.buffer[2] \in Byte
  BY DEF Parser, Stops, FRAME_HEADER_BYTES
<1>2. length \in Nat
  BY <1>1 DEF Byte
<1>3. rest \in Seq(Byte) /\ Len(rest) \in Nat
  BY <1>1
<1>0. <<>> \in Seq(Byte) /\ <<>> \in Seq(Seq(Byte))
  OBVIOUS
<1>4. Throw(p) \in Parser
  BY <1>0 DEF Throw, Parser
<1>5. [p EXCEPT !.buffer = <<>>, !.complete = TRUE] \in Parser
  BY <1>0 DEF Parser
<1>6. ASSUME length <= Len(rest)
      PROVE  [p EXCEPT !.buffer = SubSeq(rest, length + 1, Len(rest)),
                       !.arrowBytes = @ + length,
                       !.chunks = Append(@, SubSeq(rest, 1, length))] \in Parser
  <2> HIDE DEF rest, length
  <2>1. SubSeq(rest, length + 1, Len(rest)) \in Seq(Byte) /\ SubSeq(rest, 1, length) \in Seq(Byte)
    BY <1>2, <1>3, <1>6
  <2>2. Append(p.chunks, SubSeq(rest, 1, length)) \in Seq(Seq(Byte))
    BY <2>1 DEF Parser
  <2>3. p.arrowBytes + length \in Nat
    BY <1>2 DEF Parser
  <2> QED BY <2>1, <2>2, <2>3 DEF Parser
<1>7. p.buffer[1].kind = "arrow" /\ length \in 1 .. MaxBytes => length <= Len(rest)
  BY <1>1, <1>2 DEF Stops, FRAME_HEADER_BYTES
<1>8. \/ ReadFrame(p) = Throw(p)
      \/ ReadFrame(p) = [p EXCEPT !.buffer = <<>>, !.complete = TRUE]
      \/ /\ p.buffer[1].kind = "arrow" /\ length \in 1 .. MaxBytes
         /\ ReadFrame(p) = [p EXCEPT !.buffer = SubSeq(rest, length + 1, Len(rest)),
                                     !.arrowBytes = @ + length,
                                     !.chunks = Append(@, SubSeq(rest, 1, length))]
  <2>1. 2 + 1 = 3
    OBVIOUS
  <2> QED BY <2>1, Zenon DEF ReadFrame, FRAME_HEADER_BYTES
<1> QED BY <1>4, <1>5, <1>6, <1>7, <1>8

\* r is a run of k turns of the loop from p.
IsRun(p, k, r) ==
  /\ r \in [0 .. k -> Parser] /\ r[0] = p
  /\ \A i \in 1 .. k : ~ Stops(r[i - 1]) /\ r[i] = ReadFrame(r[i - 1])

\* Where the loop from p may stop
Ends(p) == {q \in Parser : Stops(q) /\ \E k \in Nat : \E r : IsRun(p, k, r) /\ r[k] = q}

LEMMA EndsOfStopped ==
  ASSUME NEW p \in Parser, Stops(p)
  PROVE  Ends(p) = {p}
<1>1. IsRun(p, 0, [i \in 0 .. 0 |-> p])
  BY DEF IsRun
<1>2. p \in Ends(p)
  BY <1>1 DEF Ends
<1>3. ASSUME NEW k \in Nat, NEW r, IsRun(p, k, r) PROVE r[k] = p
  <2>1. k = 0
    BY <1>3 DEF IsRun
  <2> QED BY <1>3, <2>1 DEF IsRun
<1> QED BY <1>2, <1>3 DEF Ends

LEMMA EndsOfRunning ==
  ASSUME NEW p \in Parser, ~ Stops(p)
  PROVE  Ends(p) = Ends(ReadFrame(p))
<1> DEFINE n == ReadFrame(p)
<1>1. n \in Parser
  BY ReadFrameTypes
<1>2. ASSUME NEW q \in Ends(p) PROVE q \in Ends(n)
  <2>0. PICK k \in Nat : \E r : IsRun(p, k, r) /\ r[k] = q
    BY DEF Ends
  <2>1. PICK r : IsRun(p, k, r) /\ r[k] = q
    BY <2>0
  <2>2. k # 0
    BY <1>2, <2>1 DEF IsRun, Ends
  <2> DEFINE r2 == [i \in 0 .. k - 1 |-> r[i + 1]]
  <2>3. r2 \in [0 .. k - 1 -> Parser] /\ r2[0] = n /\ r2[k - 1] = q
    <3>1. r2 \in [0 .. k - 1 -> Parser]
      BY <2>1, <2>2 DEF IsRun
    <3>2. r2[0] = r[1] /\ r2[k - 1] = r[k]
      BY <2>2
    <3>3. r[1] = n
      BY <2>1, <2>2 DEF IsRun
    <3> QED BY <2>1, <3>1, <3>2, <3>3
  <2>4. ASSUME NEW i \in 1 .. k - 1 PROVE ~ Stops(r2[i - 1]) /\ r2[i] = ReadFrame(r2[i - 1])
    <3>1. r2[i - 1] = r[i] /\ r2[i] = r[i + 1] /\ i + 1 \in 1 .. k /\ (i + 1) - 1 = i
      BY <2>2
    <3> QED BY <2>1, <3>1 DEF IsRun
  <2>5. IsRun(n, k - 1, r2) /\ k - 1 \in Nat
    BY <2>2, <2>3, <2>4 DEF IsRun
  <2> HIDE DEF r2, n
  <2> QED BY <1>2, <2>3, <2>5 DEF Ends
<1>3. ASSUME NEW q \in Ends(n) PROVE q \in Ends(p)
  <2>0. PICK k \in Nat : \E r : IsRun(n, k, r) /\ r[k] = q
    BY DEF Ends
  <2>1. PICK r : IsRun(n, k, r) /\ r[k] = q
    BY <2>0
  <2> DEFINE r2 == [i \in 0 .. k + 1 |-> IF i = 0 THEN p ELSE r[i - 1]]
  <2>2. r2 \in [0 .. k + 1 -> Parser] /\ r2[0] = p /\ r2[k + 1] = q
    BY <2>1 DEF IsRun
  <2>3. ASSUME NEW i \in 1 .. k + 1 PROVE ~ Stops(r2[i - 1]) /\ r2[i] = ReadFrame(r2[i - 1])
    <3>1. CASE i = 1
      BY <2>1, <3>1 DEF IsRun
    <3>2. CASE i # 1
      <4>1. i - 1 \in 1 .. k /\ r2[i - 1] = r[(i - 1) - 1] /\ r2[i] = r[i - 1]
        BY <3>2
      <4> QED BY <2>1, <4>1 DEF IsRun
    <3> QED BY <3>1, <3>2
  <2> HIDE DEF r2, n
  <2>4. IsRun(p, k + 1, r2) /\ k + 1 \in Nat
    BY <2>2, <2>3 DEF IsRun
  <2> QED BY <1>3, <2>2, <2>4 DEF Ends
<1> QED BY <1>2, <1>3

\* The loop is what its recursive definition says.
LEMMA ReadFramesDefinition ==
  ASSUME NEW p \in Parser
  PROVE  ReadFrames[p] = IF Stops(p) THEN p ELSE ReadFrames[ReadFrame(p)]
<1> DEFINE f == [q \in Parser |-> CHOOSE e : e \in Ends(q)]
           g == [q \in Parser |-> IF Stops(q) THEN q ELSE f[ReadFrame(q)]]
<1>1. ASSUME NEW q \in Parser PROVE f[q] = g[q]
  <2>1. CASE Stops(q)
    BY <2>1, EndsOfStopped
  <2>2. CASE ~ Stops(q)
    BY <2>2, EndsOfRunning, ReadFrameTypes
  <2> QED BY <2>1, <2>2
<1>2. f = g
  BY <1>1
<1>3. \E h : h = [q \in Parser |-> IF Stops(q) THEN q ELSE h[ReadFrame(q)]]
  BY <1>2
<1>4. ReadFrames = [q \in Parser |-> IF Stops(q) THEN q ELSE ReadFrames[ReadFrame(q)]]
  BY <1>3 DEF ReadFrames
<1> QED BY <1>4

-----------------------------------------------------------------------------
(* Pieces of the stream, and the chunks in it *)

\* The bytes after the a-th, up to the b-th
Piece(s, a, b) == SubSeq(Stream(s), a + 1, b)

\* The k-th chunk; those after the a-th, up to the b-th
Payload(s, k) == [j \in 1 .. s[k] |-> B("data", k, j)]
Payloads(s, a, b) == [i \in 1 .. b - a |-> Payload(s, a + i)]

LEMMA PieceFacts ==
  ASSUME NEW s \in Lengths, NEW a \in Nat, NEW b \in Nat, a <= b, b <= Length(s)
  PROVE  /\ Piece(s, a, b) \in Seq(Byte) /\ Len(Piece(s, a, b)) = b - a
         /\ \A i \in 1 .. b - a : Piece(s, a, b)[i] = Stream(s)[a + i]
<1>1. Stream(s) \in Seq(Byte) /\ Len(Stream(s)) = Length(s) /\ Length(s) \in Nat
  BY StreamExists, StartFacts DEF IsStream
<1> QED BY <1>1 DEF Piece

LEMMA PiecesJoin ==
  ASSUME NEW s \in Lengths, NEW a \in Nat, NEW b \in Nat, NEW c \in Nat,
         a <= b, b <= c, c <= Length(s)
  PROVE  Piece(s, a, b) \o Piece(s, b, c) = Piece(s, a, c)
<1>1. Stream(s) \in Seq(Byte) /\ Len(Stream(s)) = Length(s) /\ Length(s) \in Nat
  BY StreamExists, StartFacts DEF IsStream
<1> QED BY <1>1 DEF Piece

LEMMA PieceOfPiece ==
  ASSUME NEW s \in Lengths, NEW a \in Nat, NEW b \in Nat, b <= Length(s),
         NEW x \in Nat, NEW y \in Nat, a <= x, x <= y, y <= b
  PROVE  SubSeq(Piece(s, a, b), x - a + 1, y - a) = Piece(s, x, y)
<1>1. Stream(s) \in Seq(Byte) /\ Len(Stream(s)) = Length(s) /\ Length(s) \in Nat
  BY StreamExists, StartFacts DEF IsStream
<1> QED BY <1>1 DEF Piece

LEMMA PieceCut ==
  ASSUME NEW s \in Lengths, NEW a \in Nat, NEW b \in Nat, NEW c \in Nat,
         a <= b, b <= c, c <= Length(s)
  PROVE  /\ SubSeq(Piece(s, a, c), 1, b - a) = Piece(s, a, b)
         /\ SubSeq(Piece(s, a, c), b - a + 1, c - a) = Piece(s, b, c)
<1>1. Stream(s) \in Seq(Byte) /\ Len(Stream(s)) = Length(s) /\ Length(s) \in Nat
  BY StreamExists, StartFacts DEF IsStream
<1> QED BY <1>1 DEF Piece

LEMMA PayloadFacts ==
  ASSUME NEW s \in Lengths, NEW k \in 1 .. Len(s)
  PROVE  /\ Payload(s, k) \in Seq(Byte) /\ Len(Payload(s, k)) = s[k]
         /\ Payload(s, k) = Piece(s, Start(s, k) + 2, Start(s, k + 1))
<1>1. k \in Nat /\ s[k] \in Nat \ {0} /\ k \in 1 .. Len(s) + 1 /\ k + 1 \in 1 .. Len(s) + 1
  BY StartFacts
<1>2. \A j \in 1 .. s[k] : B("data", k, j) \in Byte
  BY <1>1 DEF B, Byte
<1>3. Payload(s, k) \in Seq(Byte) /\ Len(Payload(s, k)) = s[k]
  BY <1>1, <1>2 DEF Payload
<1>4. \A j \in 1 .. s[k] : Payload(s, k)[j] = B("data", k, j)
  BY DEF Payload
<1> DEFINE a == Start(s, k) + 2
           b == Start(s, k + 1)
<1>5. a \in Nat /\ b \in Nat /\ b = a + s[k] /\ a <= b /\ b <= Length(s)
  <2>1. /\ Start(s, k) \in Nat /\ Start(s, k + 1) \in Nat
        /\ Start(s, k + 1) = Start(s, k) + 2 + s[k]
    BY <1>1, StartFacts
  <2>2. Start(s, k + 1) <= Start(s, Len(s) + 1) /\ Start(s, Len(s) + 1) \in Nat
    BY <1>1, StartFacts
  <2>3. Length(s) = Start(s, Len(s) + 1) + 2
    BY StartFacts
  <2> QED BY <1>1, <2>1, <2>2, <2>3
<1>6. \A j \in 1 .. s[k] : Stream(s)[a + j] = B("data", k, j)
  BY StreamExists DEF IsStream
<1> HIDE DEF a, b
<1>7. /\ Piece(s, a, b) \in Seq(Byte) /\ Len(Piece(s, a, b)) = s[k]
      /\ \A j \in 1 .. s[k] : Piece(s, a, b)[j] = B("data", k, j)
  <2>1. /\ Piece(s, a, b) \in Seq(Byte) /\ Len(Piece(s, a, b)) = b - a
        /\ \A j \in 1 .. b - a : Piece(s, a, b)[j] = Stream(s)[a + j]
    BY <1>5, PieceFacts
  <2>2. b - a = s[k]
    BY <1>1, <1>5
  <2> QED BY <1>6, <2>1, <2>2
<1>8. Payload(s, k) = Piece(s, a, b)
  BY <1>3, <1>4, <1>7, SeqEqual
<1> QED BY <1>3, <1>8 DEF a, b

LEMMA PayloadsFacts ==
  ASSUME NEW s \in Lengths, NEW a \in Nat, NEW b \in Nat, a <= b, b <= Len(s)
  PROVE  /\ Payloads(s, a, b) \in Seq(Seq(Byte)) /\ Len(Payloads(s, a, b)) = b - a
         /\ \A i \in 1 .. b - a : Payloads(s, a, b)[i] = Payload(s, a + i)
         /\ a = b => Payloads(s, a, b) = <<>>
         /\ b < Len(s) => Append(Payloads(s, a, b), Payload(s, b + 1)) = Payloads(s, a, b + 1)
<1>0. Len(s) \in Nat
  BY StartFacts
<1>1. \A i \in 1 .. b - a : Payload(s, a + i) \in Seq(Byte)
  <2> SUFFICES ASSUME NEW i \in 1 .. b - a PROVE Payload(s, a + i) \in Seq(Byte)
    OBVIOUS
  <2>1. a + i \in 1 .. Len(s)
    BY <1>0
  <2> QED BY <2>1, PayloadFacts
<1>2. Payloads(s, a, b) \in Seq(Seq(Byte)) /\ Len(Payloads(s, a, b)) = b - a
  BY <1>1 DEF Payloads
<1>3. \A i \in 1 .. b - a : Payloads(s, a, b)[i] = Payload(s, a + i)
  BY DEF Payloads
<1>4. ASSUME a = b PROVE Payloads(s, a, b) = <<>>
  BY <1>2, <1>4
<1>5. ASSUME b < Len(s)
      PROVE  Append(Payloads(s, a, b), Payload(s, b + 1)) = Payloads(s, a, b + 1)
  <2> DEFINE l == Append(Payloads(s, a, b), Payload(s, b + 1))
             m == Payloads(s, a, b + 1)
  <2>1. Payload(s, b + 1) \in Seq(Byte)
    <3>1. b + 1 \in 1 .. Len(s)
      BY <1>0, <1>5
    <3> QED BY <3>1, PayloadFacts
  <2>2. /\ l \in Seq(Seq(Byte)) /\ Len(l) = (b - a) + 1 /\ l[(b - a) + 1] = Payload(s, b + 1)
        /\ \A i \in 1 .. b - a : l[i] = Payload(s, a + i)
    BY <1>2, <1>3, <2>1
  <2>3. ASSUME NEW i \in 1 .. (b + 1) - a PROVE Payload(s, a + i) \in Seq(Byte) /\ l[i] = Payload(s, a + i)
    <3>1. a + i \in 1 .. Len(s)
      BY <1>0, <1>5
    <3>2. i \in 1 .. b - a \/ (i = (b - a) + 1 /\ a + i = b + 1)
      OBVIOUS
    <3> HIDE DEF l
    <3> QED BY <2>2, <3>1, <3>2, PayloadFacts
  <2>4. m \in Seq(Seq(Byte)) /\ Len(m) = (b + 1) - a /\ \A i \in 1 .. (b + 1) - a : m[i] = Payload(s, a + i)
    BY <2>3 DEF Payloads
  <2>5. (b + 1) - a = (b - a) + 1
    OBVIOUS
  <2> HIDE DEF l, m
  <2>6. \A i \in 1 .. Len(l) : l[i] = m[i]
    BY <2>2, <2>3, <2>4, <2>5
  <2>7. l = m
    BY <2>2, <2>4, <2>5, <2>6, SeqEqual
  <2> QED BY <2>7 DEF l, m
<1> QED BY <1>2, <1>3, <1>4, <1>5

-----------------------------------------------------------------------------
(* The parser on the server's stream *)

\* Of the first r bytes, p has read d: the magic and c chunks, or everything.
ParserAt(s, p, c, d, r) ==
  /\ p \in Parser /\ ~ p.thrown
  /\ c \in 0 .. Len(s) /\ d \in Nat /\ r \in Nat /\ d <= r /\ r <= Length(s)
  /\ p.arrowBytes = Sums(s)[c]
  /\ p.buffer = Piece(s, d, r)
  /\ IF ~ p.magicRead THEN c = 0 /\ d = 0 /\ ~ p.complete
     ELSE IF p.complete THEN c = Len(s) /\ d = Length(s)
     ELSE d = Start(s, c + 1)

LEMMA AdmittedFacts ==
  ASSUME NEW s \in Admitted
  PROVE  /\ s \in Lengths
         /\ \A k \in 0 .. Len(s) : Sums(s)[k] \in Nat /\ Sums(s)[k] <= MaxBytes
         /\ \A k \in 1 .. Len(s) : s[k] \in 1 .. MaxBytes
         /\ Length(s) <= 4 + 3 * MaxBytes
<1>1. MaxBytes \in Nat
  BY StreamAssumption
<1>2. s \in Seq(1 .. MaxBytes) /\ s # <<>> /\ Total(s) <= MaxBytes
  <2>1. PICK m \in 0 .. MaxChunks : s \in [1 .. m -> 1 .. MaxBytes]
    BY DEF Admitted, BoundedSeq, SeqOf
  <2>2. m \in Nat
    BY StreamAssumption
  <2>3. s \in Seq(1 .. MaxBytes)
    <3>1. \A S : s \in [1 .. m -> S] => s \in Seq(S)
      BY <2>2
    <3> QED BY <2>1, <3>1
  <2> QED BY <2>3 DEF Admitted
<1>3. s \in Lengths
  BY <1>1, <1>2 DEF Lengths
<1>4. Len(s) \in 0 .. Len(s) /\ \A k \in 0 .. Len(s) : k <= Len(s)
  BY <1>3, StartFacts
<1>5. \A k \in 0 .. Len(s) : Sums(s)[k] \in Nat /\ Sums(s)[k] <= Sums(s)[Len(s)]
  BY <1>3, <1>4, SumsGrow
<1>6. Length(s) <= 4 + 3 * Total(s) /\ Length(s) \in Nat
  BY <1>3, StartFacts
<1>7. Total(s) = Sums(s)[Len(s)] /\ Total(s) \in Nat
  BY <1>4, <1>5 DEF Total
<1>8. \A k \in 1 .. Len(s) : s[k] \in 1 .. MaxBytes
  <2>1. s \in Seq(1 .. MaxBytes)
    BY <1>2
  <2> QED BY <2>1, ElementOfSeq
<1>9. Length(s) <= 4 + 3 * MaxBytes
  <2>1. Total(s) <= MaxBytes
    BY <1>2
  <2> QED BY <1>1, <1>6, <1>7, <2>1
<1>10. ASSUME NEW k \in 0 .. Len(s) PROVE Sums(s)[k] \in Nat /\ Sums(s)[k] <= MaxBytes
  <2>1. Sums(s)[k] \in Nat /\ Sums(s)[k] <= Total(s) /\ Total(s) <= MaxBytes
    BY <1>2, <1>5, <1>7
  <2> QED BY <1>1, <1>7, <2>1
<1> QED BY <1>3, <1>8, <1>9, <1>10

\* What the bytes from the start of a chunk's frame are, and where they go
LEMMA FrameBytes ==
  ASSUME NEW s \in Lengths, NEW k \in 1 .. Len(s), NEW r \in Nat, r <= Length(s),
         Start(s, k) + 2 <= r
  PROVE  LET d    == Start(s, k)
             e    == Start(s, k + 1)
             b    == Piece(s, d, r)
             rest == SubSeq(b, 3, Len(b))
         IN /\ e \in Nat /\ e = d + 2 + s[k]
            /\ b \in Seq(Byte) /\ Len(b) = r - d /\ Len(rest) = r - (d + 2)
            /\ b[1] = B("arrow", 0, 0) /\ b[2] = B("length", s[k], 0)
            /\ e <= r => /\ SubSeq(rest, s[k] + 1, Len(rest)) = Piece(s, e, r)
                         /\ SubSeq(rest, 1, s[k]) = Payload(s, k)
<1>1. PICK d \in Nat, e \in Nat, n \in Nat \ {0}, h \in Nat :
         d = Start(s, k) /\ e = Start(s, k + 1) /\ n = s[k] /\ h = d + 2 /\ e = h + n
  <2>1. k \in 1 .. Len(s) + 1 /\ k + 1 \in 1 .. Len(s) + 1
    BY StartFacts
  <2>2. /\ Start(s, k) \in Nat /\ Start(s, k + 1) \in Nat /\ s[k] \in Nat \ {0}
        /\ Start(s, k + 1) = Start(s, k) + 2 + s[k]
    BY <2>1, StartFacts
  <2>3. Start(s, k) + 2 \in Nat /\ Start(s, k + 1) = (Start(s, k) + 2) + s[k]
    BY <2>2
  <2> QED BY <2>2, <2>3
<1>2. d <= r /\ d <= h /\ h <= r /\ r <= r
  BY <1>1
<1> DEFINE b    == Piece(s, d, r)
           rest == SubSeq(b, 3, Len(b))
<1>3. /\ b \in Seq(Byte) /\ Len(b) = r - d
      /\ \A i \in 1 .. r - d : b[i] = Stream(s)[d + i]
  BY <1>2, PieceFacts
<1>4. b[1] = B("arrow", 0, 0) /\ b[2] = B("length", n, 0)
  <2>1. Stream(s)[d + 1] = B("arrow", 0, 0) /\ Stream(s)[d + 2] = B("length", n, 0)
    BY <1>1, StreamExists DEF IsStream
  <2>2. 1 \in 1 .. r - d /\ 2 \in 1 .. r - d
    BY <1>1, <1>2
  <2> HIDE DEF b
  <2> QED BY <1>3, <2>1, <2>2
<1>5. rest = Piece(s, h, r)
  <2>1. SubSeq(Piece(s, d, r), h - d + 1, r - d) = Piece(s, h, r)
    BY <1>2, PieceOfPiece
  <2>2. h - d + 1 = 3
    BY <1>1
  <2> QED BY <1>3, <2>1, <2>2
<1>6. Len(rest) = r - h
  BY <1>2, <1>5, PieceFacts
<1>7. ASSUME e <= r
      PROVE  SubSeq(rest, n + 1, Len(rest)) = Piece(s, e, r) /\ SubSeq(rest, 1, n) = Payload(s, k)
  <2>1. e = h + n /\ n \in Nat /\ h <= e /\ h <= h
    BY <1>1
  <2>2. SubSeq(Piece(s, h, r), e - h + 1, r - h) = Piece(s, e, r)
    BY <1>2, <1>7, <2>1, PieceOfPiece
  <2>3. SubSeq(Piece(s, h, r), h - h + 1, e - h) = Piece(s, h, e)
    BY <1>2, <1>7, <2>1, PieceOfPiece
  <2>4. e - h + 1 = n + 1 /\ h - h + 1 = 1 /\ e - h = n
    BY <2>1
  <2>5. Payload(s, k) = Piece(s, h, e)
    BY <1>1, PayloadFacts
  <2> HIDE DEF rest
  <2> QED BY <1>5, <1>6, <2>2, <2>3, <2>4, <2>5
<1> HIDE DEF rest, b
<1>8. /\ b = Piece(s, Start(s, k), r) /\ rest = SubSeq(b, 3, Len(b)) /\ Len(rest) = r - (d + 2)
  BY <1>1, <1>6 DEF rest, b
<1>9. e = d + 2 + n
  BY <1>1
<1> QED BY <1>1, <1>3, <1>4, <1>7, <1>8, <1>9, Zenon

\* The frame the parser reads is the next one of the server's, and no other.
LEMMA NextChunkRead ==
  ASSUME NEW s \in Admitted, NEW p, NEW c, NEW d, NEW r, ParserAt(s, p, c, d, r),
         p.magicRead, ~ Stops(p), c < Len(s),
         NEW a \in 0 .. c, p.chunks = Payloads(s, a, c)
  PROVE  LET q == ReadFrame(p)
             e == Start(s, c + 2)
         IN /\ ParserAt(s, q, c + 1, e, r) /\ q.magicRead
            /\ q.chunks = Payloads(s, a, c + 1)
            /\ d < e
<1>1. PICK k \in 1 .. Len(s) : k = c + 1 /\ k + 1 = c + 2 /\ k - 1 = c /\ k \in 0 .. Len(s)
  BY AdmittedFacts, StartFacts DEF ParserAt
<1> DEFINE n == s[k]
           e == Start(s, k + 1)
           rest == SubSeq(p.buffer, 3, Len(p.buffer))
<1>2. s \in Lengths /\ c \in Nat /\ n \in 1 .. MaxBytes /\ n \in Nat
  BY <1>1, AdmittedFacts, StartFacts DEF ParserAt
<1>3. /\ p \in Parser /\ ~ p.complete /\ ~ p.thrown /\ r \in Nat /\ r <= Length(s)
      /\ d \in Nat /\ d = Start(s, k) /\ p.buffer = Piece(s, d, r)
      /\ p.arrowBytes = Sums(s)[c]
  BY <1>1 DEF ParserAt, Stops
<1>4. Start(s, k) + 2 <= r
  <2>1. d <= r
    BY DEF ParserAt
  <2>2. Len(p.buffer) = r - d
    BY <1>2, <1>3, <2>1, PieceFacts
  <2>3. ~ (Len(p.buffer) < 2)
    BY DEF Stops, FRAME_HEADER_BYTES
  <2> QED BY <1>3, <2>2, <2>3
<1>5. /\ e \in Nat /\ e = d + 2 + n
      /\ p.buffer \in Seq(Byte) /\ Len(p.buffer) = r - d /\ Len(rest) = r - (d + 2)
      /\ p.buffer[1] = B("arrow", 0, 0) /\ p.buffer[2] = B("length", n, 0)
      /\ e <= r => /\ SubSeq(rest, n + 1, Len(rest)) = Piece(s, e, r)
                   /\ SubSeq(rest, 1, n) = Payload(s, k)
  <2> DEFINE b == Piece(s, Start(s, k), r)
             l == SubSeq(b, 3, Len(b))
  <2>1. /\ e \in Nat /\ e = Start(s, k) + 2 + n
        /\ b \in Seq(Byte) /\ Len(b) = r - Start(s, k) /\ Len(l) = r - (Start(s, k) + 2)
        /\ b[1] = B("arrow", 0, 0) /\ b[2] = B("length", n, 0)
        /\ e <= r => /\ SubSeq(l, n + 1, Len(l)) = Piece(s, e, r)
                     /\ SubSeq(l, 1, n) = Payload(s, k)
    BY <1>2, <1>3, <1>4, FrameBytes, Zenon
  <2>2. d = Start(s, k) /\ b = p.buffer /\ l = rest
    BY <1>3
  <2> HIDE DEF b, l, n, e, rest
  <2> QED BY <2>1, <2>2, Zenon
<1>6. p.buffer[1].kind = "arrow" /\ p.buffer[2].a = n
  BY <1>5 DEF B
<1> HIDE DEF n, e, rest
<1>7. e <= r /\ d < e
  <2>1. ~ (n > Len(p.buffer) - 2)
    BY <1>2, <1>6, Zenon DEF Stops, FRAME_HEADER_BYTES
  <2> QED BY <1>2, <1>3, <1>5, <2>1
<1>8. p.arrowBytes + n = Sums(s)[k] /\ Sums(s)[k] \in Nat /\ Sums(s)[k] <= MaxBytes
  <2>1. Sums(s)[k] = Sums(s)[k - 1] + s[k]
    BY <1>2, SumsGrow
  <2>2. Sums(s)[k] \in Nat /\ Sums(s)[k] <= MaxBytes
    BY <1>1, AdmittedFacts
  <2> QED BY <1>1, <1>3, <2>1, <2>2 DEF n
<1>9. Append(p.chunks, Payload(s, k)) = Payloads(s, a, c + 1)
  <2>1. a \in Nat /\ a <= c /\ c <= Len(s)
    BY <1>2
  <2> QED BY <1>1, <1>2, <2>1, PayloadsFacts
<1>10. ReadFrame(p) = [p EXCEPT !.buffer = Piece(s, e, r), !.arrowBytes = Sums(s)[k],
                                !.chunks = Payloads(s, a, c + 1)]
  <2>1. ReadFrame(p) = [p EXCEPT !.buffer = SubSeq(rest, n + 1, Len(rest)),
                                 !.arrowBytes = @ + n,
                                 !.chunks = Append(@, SubSeq(rest, 1, n))]
    <3>1. 2 + 1 = 3
      OBVIOUS
    <3> QED BY <1>2, <1>6, <1>8, <3>1 DEF ReadFrame, FRAME_HEADER_BYTES, rest
  <2> QED BY <1>5, <1>7, <1>8, <1>9, <2>1
<1>11. ReadFrame(p) \in Parser
  BY <1>3, ReadFrameTypes
<1> DEFINE q == ReadFrame(p)
<1>12. /\ q.thrown = p.thrown /\ q.complete = p.complete /\ q.magicRead = p.magicRead
       /\ q.buffer = Piece(s, e, r) /\ q.arrowBytes = Sums(s)[k]
       /\ q.chunks = Payloads(s, a, c + 1)
  BY <1>3, <1>10 DEF Parser
<1> HIDE DEF q
<1>13. c + 1 \in 0 .. Len(s) /\ e = Start(s, (c + 1) + 1) /\ e = Start(s, c + 2)
  BY <1>1 DEF e
<1>14. ParserAt(s, q, c + 1, e, r)
  BY <1>1, <1>3, <1>5, <1>7, <1>11, <1>12, <1>13 DEF ParserAt, q
<1> QED
  BY <1>7, <1>12, <1>13, <1>14 DEF q

\* The completion frame is read when every chunk has been.
LEMMA CompletionRead ==
  ASSUME NEW s \in Admitted, NEW p, NEW d, NEW r, ParserAt(s, p, Len(s), d, r),
         p.magicRead, ~ Stops(p)
  PROVE  LET q == ReadFrame(p)
         IN /\ ParserAt(s, q, Len(s), Length(s), r) /\ q.magicRead
            /\ q.chunks = p.chunks
            /\ d < Length(s)
<1>1. s \in Lengths /\ Len(s) \in Nat /\ Len(s) + 1 \in 1 .. Len(s) + 1
  BY AdmittedFacts, StartFacts
<1>2. PICK e \in Nat : e = Start(s, Len(s) + 1) /\ Length(s) = e + 2
  BY <1>1, StartFacts
<1>3. /\ p \in Parser /\ ~ p.complete /\ ~ p.thrown /\ r \in Nat /\ r <= Length(s)
      /\ d \in Nat /\ d = e /\ d <= r /\ p.buffer = Piece(s, d, r)
      /\ p.arrowBytes = Sums(s)[Len(s)]
  BY <1>2 DEF ParserAt, Stops
<1>4. /\ p.buffer \in Seq(Byte) /\ Len(p.buffer) = r - d
      /\ \A i \in 1 .. r - d : p.buffer[i] = Stream(s)[d + i]
  <2>1. /\ Piece(s, d, r) \in Seq(Byte) /\ Len(Piece(s, d, r)) = r - d
        /\ \A i \in 1 .. r - d : Piece(s, d, r)[i] = Stream(s)[d + i]
    BY <1>1, <1>3, PieceFacts, Zenon
  <2> QED BY <1>3, <2>1
<1>5. r = Length(s) /\ r - d = 2
  <2>1. ~ (Len(p.buffer) < 2)
    BY DEF Stops, FRAME_HEADER_BYTES
  <2> QED BY <1>2, <1>3, <1>4, <2>1
<1>6. p.buffer[1].kind = "complete" /\ p.buffer[2].a = 0
  <2>1. Stream(s)[e + 1] = B("complete", 0, 0) /\ Stream(s)[e + 2] = B("length", 0, 0)
    BY <1>1, <1>2, StreamExists DEF IsStream
  <2>2. p.buffer[1] = Stream(s)[d + 1] /\ p.buffer[2] = Stream(s)[d + 2]
    BY <1>4, <1>5
  <2> QED BY <1>3, <2>1, <2>2 DEF B
<1>7. SubSeq(p.buffer, 3, Len(p.buffer)) = <<>>
  BY <1>4, <1>5
<1>8. ReadFrame(p) = [p EXCEPT !.buffer = <<>>, !.complete = TRUE]
  <2>1. 2 + 1 = 3
    OBVIOUS
  <2> QED BY <1>6, <1>7, <2>1 DEF ReadFrame, FRAME_HEADER_BYTES
<1>9. Piece(s, Length(s), r) = <<>>
  <2>1. Len(Piece(s, r, r)) = r - r /\ Piece(s, r, r) \in Seq(Byte)
    <3>1. r <= r
      BY <1>3
    <3> QED BY <1>1, <1>3, <3>1, PieceFacts, Zenon
  <2> QED BY <1>3, <1>5, <2>1
<1>10. ReadFrame(p) \in Parser
  BY <1>3, ReadFrameTypes
<1> DEFINE q == ReadFrame(p)
<1>11. /\ q.thrown = p.thrown /\ q.complete = TRUE /\ q.magicRead = p.magicRead
       /\ q.buffer = <<>> /\ q.arrowBytes = p.arrowBytes /\ q.chunks = p.chunks
  BY <1>3, <1>8 DEF Parser
<1> HIDE DEF q
<1>12. Len(s) \in 0 .. Len(s) /\ Length(s) \in Nat /\ Length(s) <= r /\ d < Length(s)
  BY <1>1, <1>2, <1>3, <1>5
<1>13. ParserAt(s, q, Len(s), Length(s), r)
  BY <1>3, <1>9, <1>10, <1>11, <1>12 DEF ParserAt, q
<1> QED
  BY <1>11, <1>12, <1>13 DEF q

\* The magic has been read, the first r bytes have arrived, and the chunks at hand are
\* all those that have been read after the a-th.
HasRead(s, p, a, r) ==
  \E c \in a .. Len(s) : \E d \in Nat :
    ParserAt(s, p, c, d, r) /\ p.magicRead /\ p.chunks = Payloads(s, a, c)

LEMMA ReadFramesFacts ==
  ASSUME NEW s \in Admitted, NEW a \in Nat, NEW r \in Nat,
         NEW p0, HasRead(s, p0, a, r)
  PROVE  HasRead(s, ReadFrames[p0], a, r)
<1> DEFINE Refuted(p, x) == /\ ~ HasRead(s, ReadFrames[p], a, r)
                            /\ \E c \in a .. Len(s) : \E d \in Nat :
                                 /\ ParserAt(s, p, c, d, r) /\ p.magicRead
                                 /\ p.chunks = Payloads(s, a, c)
                                 /\ x = Length(s) - d
           T == {x \in Nat : \E p : Refuted(p, x)}
<1>1. s \in Lengths /\ Len(s) \in Nat /\ Length(s) \in Nat
  BY AdmittedFacts, StartFacts
<1>2. \A c, d, p : ParserAt(s, p, c, d, r) =>
        d \in Nat /\ d <= Length(s) /\ p \in Parser /\ Length(s) - d \in Nat
  BY <1>1 DEF ParserAt
<1>3. \A x \in Nat : \A p : Refuted(p, x) => x \in T
  OBVIOUS
<1>4. ASSUME NEW p, NEW x \in Nat, Refuted(p, x)
      PROVE  \E y \in T : y < x
  <2>1. PICK c \in a .. Len(s), d \in Nat :
          /\ ParserAt(s, p, c, d, r) /\ p.magicRead
          /\ p.chunks = Payloads(s, a, c)
          /\ x = Length(s) - d
    BY <1>4
  <2>2. ~ HasRead(s, ReadFrames[p], a, r)
    BY <1>4
  <2> HIDE DEF Refuted, T
  <2>3. ReadFrames[p] = IF Stops(p) THEN p ELSE ReadFrames[ReadFrame(p)]
    BY <1>2, <2>1, ReadFramesDefinition
  <2>4. HasRead(s, p, a, r)
    BY <2>1 DEF HasRead
  <2>5. ~ Stops(p) /\ ReadFrames[p] = ReadFrames[ReadFrame(p)]
    BY <2>2, <2>3, <2>4
  <2> DEFINE q == ReadFrame(p)
  <2>6. \E f \in a .. Len(s) : \E e \in Nat :
           ParserAt(s, q, f, e, r) /\ q.magicRead /\ q.chunks = Payloads(s, a, f) /\ d < e
    <3>1. CASE c < Len(s)
      <4>1. a \in 0 .. c /\ c + 1 \in a .. Len(s)
        BY <1>1, <3>1
      <4>2. /\ ParserAt(s, q, c + 1, Start(s, c + 2), r) /\ q.magicRead
            /\ q.chunks = Payloads(s, a, c + 1) /\ d < Start(s, c + 2)
        BY <2>1, <2>5, <3>1, <4>1, NextChunkRead, Zenon
      <4> QED BY <1>2, <4>1, <4>2
    <3>2. CASE ~ (c < Len(s))
      <4>1. c = Len(s)
        BY <1>1, <3>2
      <4>2. /\ ParserAt(s, q, Len(s), Length(s), r) /\ q.magicRead
            /\ q.chunks = p.chunks /\ d < Length(s)
        BY <2>1, <2>5, <4>1, CompletionRead
      <4> QED BY <1>1, <2>1, <4>1, <4>2
    <3> QED BY <3>1, <3>2
  <2>7. PICK f \in a .. Len(s), e \in Nat :
           ParserAt(s, q, f, e, r) /\ q.magicRead /\ q.chunks = Payloads(s, a, f) /\ d < e
    BY <2>6
  <2> HIDE DEF q
  <2>8. Length(s) - e \in Nat /\ Length(s) - e < x
    BY <1>1, <1>2, <2>1, <2>7
  <2>9. Refuted(q, Length(s) - e)
    BY <2>2, <2>5, <2>7 DEF Refuted, q
  <2> QED BY <1>3, <2>8, <2>9
<1>5. T = {}
  <2> SUFFICES ASSUME T # {} PROVE FALSE
    OBVIOUS
  <2>1. \A x \in T : x \in Nat /\ \E p : Refuted(p, x)
    OBVIOUS
  <2> HIDE DEF T, Refuted
  <2>2. T \in SUBSET Nat
    BY <2>1
  <2>3. PICK x \in T : \A y \in T : x <= y
    BY <2>2, LeastNumber
  <2>4. PICK y \in T : y < x
    BY <1>4, <2>1
  <2>5. x <= y /\ x \in Nat /\ y \in Nat
    BY <2>1, <2>3
  <2> QED BY <2>4, <2>5
<1>6. PICK c \in a .. Len(s), d \in Nat :
        ParserAt(s, p0, c, d, r) /\ p0.magicRead /\ p0.chunks = Payloads(s, a, c)
  BY DEF HasRead
<1>7. Length(s) - d \in Nat
  BY <1>2, <1>6
<1>8. HasRead(s, ReadFrames[p0], a, r) \/ Refuted(p0, Length(s) - d)
  BY <1>6
<1> HIDE DEF T, Refuted
<1> QED BY <1>3, <1>5, <1>7, <1>8

\* Cutting the magic off
LEMMA FirstTwo ==
  ASSUME NEW b \in Seq(Byte), 2 <= Len(b)
  PROVE  SubSeq(b, 1, 2) = <<b[1], b[2]>>
<1> DEFINE l == SubSeq(b, 1, 2)
           m == <<b[1], b[2]>>
<1>1. b[1] \in Byte /\ b[2] \in Byte
  OBVIOUS
<1>2. l \in Seq(Byte) /\ Len(l) = 2 /\ l[1] = b[1] /\ l[2] = b[2]
  OBVIOUS
<1>3. m \in Seq(Byte) /\ Len(m) = 2 /\ m[1] = b[1] /\ m[2] = b[2]
  BY <1>1
<1> HIDE DEF l, m
<1>4. \A i \in 1 .. Len(l) : l[i] = m[i]
  <2>1. \A i \in 1 .. 2 : i = 1 \/ i = 2
    OBVIOUS
  <2> QED BY <1>2, <1>3, <2>1
<1>5. l = m
  BY <1>2, <1>3, <1>4, SeqEqual
<1> QED BY <1>5 DEF l, m

LEMMA AfterMagic ==
  ASSUME NEW s \in Lengths, NEW r \in Nat, 2 <= r, r <= Length(s)
  PROVE  SubSeq(Piece(s, 0, r), 3, r) = Piece(s, 2, r)
<1>1. Stream(s) \in Seq(Byte) /\ Len(Stream(s)) = Length(s) /\ Length(s) \in Nat
  BY StreamExists, StartFacts DEF IsStream
<1> QED BY <1>1 DEF Piece

\* The magic is the server's.
LEMMA MagicRead ==
  ASSUME NEW s \in Admitted, NEW p, NEW r, ParserAt(s, p, 0, 0, r), ~ p.magicRead,
         p.chunks = <<>>
  PROVE  \/ ReadMagic(p) = p
         \/ HasRead(s, ReadMagic(p), 0, r)
<1>1. s \in Lengths /\ Len(s) \in Nat \ {0} /\ Length(s) \in Nat /\ Start(s, 1) = 2
  BY AdmittedFacts, StartFacts
<1>2. /\ p \in Parser /\ r \in Nat /\ 0 <= r /\ r <= Length(s) /\ p.buffer = Piece(s, 0, r)
      /\ ~ p.thrown /\ ~ p.complete /\ p.arrowBytes = Sums(s)[0]
  BY DEF ParserAt
<1>3. /\ p.buffer \in Seq(Byte) /\ Len(p.buffer) = r - 0
      /\ \A i \in 1 .. r - 0 : p.buffer[i] = Stream(s)[0 + i]
  <2>1. /\ Piece(s, 0, r) \in Seq(Byte) /\ Len(Piece(s, 0, r)) = r - 0
        /\ \A i \in 1 .. r - 0 : Piece(s, 0, r)[i] = Stream(s)[0 + i]
    <3>1. 0 \in Nat
      OBVIOUS
    <3> QED BY <1>1, <1>2, <3>1, PieceFacts, Zenon
  <2> QED BY <1>2, <2>1
<1>4. Len(p.buffer) = r
  BY <1>2, <1>3
<1>5. Len(STREAM_MAGIC) = 2 /\ 2 + 1 = 3
  BY DEF STREAM_MAGIC
<1>6. CASE r < 2
  <2>1. Len(p.buffer) < Len(STREAM_MAGIC)
    BY <1>4, <1>5, <1>6
  <2> QED BY <2>1 DEF ReadMagic
<1>7. CASE 2 <= r
  <2>1. SubSeq(p.buffer, 1, 2) = STREAM_MAGIC
    <3>1. p.buffer[1] = B("magic", 1, 0) /\ p.buffer[2] = B("magic", 2, 0)
      <4>1. Stream(s)[1] = B("magic", 1, 0) /\ Stream(s)[2] = B("magic", 2, 0)
        BY <1>1, StreamExists DEF IsStream
      <4>2. p.buffer[1] = Stream(s)[0 + 1] /\ p.buffer[2] = Stream(s)[0 + 2]
        BY <1>2, <1>3, <1>7
      <4>3. 0 + 1 = 1 /\ 0 + 2 = 2
        OBVIOUS
      <4> QED BY <4>1, <4>2, <4>3
    <3>2. SubSeq(p.buffer, 1, 2) = <<p.buffer[1], p.buffer[2]>>
      <4>1. p.buffer \in Seq(Byte) /\ 2 <= Len(p.buffer)
        BY <1>3, <1>4, <1>7
      <4> QED BY <4>1, FirstTwo
    <3> QED BY <3>1, <3>2 DEF STREAM_MAGIC
  <2>2. SubSeq(p.buffer, 3, Len(p.buffer)) = Piece(s, 2, r)
    <3>1. SubSeq(Piece(s, 0, r), 3, r) = Piece(s, 2, r)
      BY <1>1, <1>2, <1>7, AfterMagic, Zenon
    <3> QED BY <1>2, <1>4, <3>1
  <2> DEFINE q == [p EXCEPT !.magicRead = TRUE, !.buffer = Piece(s, 2, r)]
  <2>3. ReadMagic(p) = q
    <3>1. ~ (Len(p.buffer) < 2)
      BY <1>2, <1>4, <1>7
    <3> QED BY <1>5, <2>1, <2>2, <3>1 DEF ReadMagic
  <2>4. Piece(s, 2, r) \in Seq(Byte)
    <3>1. 2 \in Nat
      OBVIOUS
    <3> QED BY <1>1, <1>2, <1>7, <3>1, PieceFacts, Zenon
  <2>5. /\ q \in Parser /\ q.magicRead /\ q.buffer = Piece(s, 2, r) /\ ~ q.thrown
        /\ ~ q.complete /\ q.arrowBytes = Sums(s)[0] /\ q.chunks = <<>>
    BY <1>2, <2>4 DEF Parser
  <2> HIDE DEF q
  <2>6. 0 + 1 = 1 /\ 0 \in 0 .. Len(s) /\ 2 \in Nat
    BY <1>1
  <2>7. ParserAt(s, q, 0, 2, r)
    BY <1>1, <1>2, <1>7, <2>5, <2>6 DEF ParserAt
  <2>8. Payloads(s, 0, 0) = <<>>
    <3>1. 0 \in Nat /\ 0 <= 0 /\ 0 <= Len(s)
      BY <1>1
    <3> QED BY <1>1, <3>1, PayloadsFacts
  <2>9. HasRead(s, q, 0, r)
    BY <2>5, <2>6, <2>7, <2>8 DEF HasRead
  <2> QED BY <2>3, <2>9
<1> QED BY <1>2, <1>6, <1>7

\* Whatever the next piece of the stream is, the parser reads on in it: it refuses
\* nothing, and its buffer never holds more than its limit.
LEMMA PushedFacts ==
  ASSUME NEW s \in Admitted, NEW p, NEW c, NEW d, NEW r, ParserAt(s, p, c, d, r),
         NEW r2 \in Nat, r < r2, r2 <= Length(s)
  PROVE  LET q == Pushed(p, Piece(s, r, r2)) IN
           \E c2 \in c .. Len(s) : \E d2 \in Nat :
             ParserAt(s, q, c2, d2, r2) /\ q.chunks = Payloads(s, c, c2)
<1>1. s \in Lengths /\ Len(s) \in Nat \ {0} /\ Length(s) \in Nat /\ Length(s) <= 4 + 3 * MaxBytes
  BY AdmittedFacts, StartFacts
<1>2. /\ p \in Parser /\ r \in Nat /\ d \in Nat /\ c \in Nat /\ c \in c .. Len(s)
      /\ d <= r /\ p.buffer = Piece(s, d, r) /\ c \in 0 .. Len(s)
      /\ ~ p.thrown /\ p.arrowBytes = Sums(s)[c] /\ r <= r2 /\ d <= r2
  BY <1>1 DEF ParserAt
<1>3. ~ p.complete
  BY <1>1, <1>2 DEF ParserAt
<1> DEFINE start == [p EXCEPT !.buffer = Piece(s, d, r2), !.chunks = <<>>]
           ready == ReadMagic(start)
<1>4. /\ start = [p EXCEPT !.buffer = @ \o Piece(s, r, r2), !.chunks = <<>>]
      /\ Piece(s, d, r2) \in Seq(Byte) /\ Len(Piece(s, d, r2)) = r2 - d
  <2>1. Piece(s, d, r) \o Piece(s, r, r2) = Piece(s, d, r2)
    <3>1. s \in Lengths /\ d \in Nat /\ r \in Nat /\ d <= r /\ r <= r2 /\ r2 <= Length(s)
      BY <1>1, <1>2
    <3> QED BY <3>1, PiecesJoin, Zenon
  <2>2. Piece(s, d, r2) \in Seq(Byte) /\ Len(Piece(s, d, r2)) = r2 - d
    BY <1>1, <1>2, PieceFacts, Zenon
  <2> QED BY <1>2, <2>1, <2>2
<1>5. /\ start \in Parser /\ start.buffer = Piece(s, d, r2) /\ start.chunks = <<>>
      /\ ~ start.complete /\ ~ start.thrown /\ start.magicRead = p.magicRead
      /\ start.arrowBytes = Sums(s)[c]
  <2>1. <<>> \in Seq(Seq(Byte))
    OBVIOUS
  <2> QED BY <1>2, <1>3, <1>4, <2>1 DEF Parser
<1>6. ~ (Len(start.buffer) > maximumBufferedBytes)
  <2>1. Len(STREAM_MAGIC) = 2
    BY DEF STREAM_MAGIC
  <2>2. maximumBufferedBytes = 4 + 3 * MaxBytes
    BY <2>1, StreamAssumption DEF maximumBufferedBytes, FRAME_HEADER_BYTES
  <2>3. Len(start.buffer) = r2 - d /\ MaxBytes \in Nat
    BY <1>4, <1>5, StreamAssumption
  <2> HIDE DEF start
  <2> QED BY <1>1, <1>2, <2>2, <2>3
<1> HIDE DEF start
<1>7. Pushed(p, Piece(s, r, r2)) = IF ready.magicRead THEN ReadFrames[ready] ELSE ready
  BY <1>3, <1>4, <1>6 DEF Pushed
<1>8. ParserAt(s, start, c, d, r2)
  BY <1>2, <1>5 DEF ParserAt
<1>9. Payloads(s, c, c) = <<>>
  <2>1. c <= c /\ c <= Len(s)
    BY <1>1, <1>2
  <2> QED BY <1>1, <1>2, <2>1, PayloadsFacts
<1>10. CASE HasRead(s, ready, c, r2)
  <2>1. HasRead(s, ReadFrames[ready], c, r2)
    BY <1>2, <1>10, ReadFramesFacts
  <2>2. Pushed(p, Piece(s, r, r2)) = ReadFrames[ready]
    BY <1>7, <1>10 DEF HasRead
  <2> QED BY <2>1, <2>2 DEF HasRead
<1>11. CASE p.magicRead
  <2>1. ready = start
    BY <1>5, <1>11 DEF ReadMagic
  <2>2. HasRead(s, start, c, r2)
    BY <1>2, <1>5, <1>8, <1>9, <1>11 DEF HasRead
  <2> QED BY <1>10, <2>1, <2>2
<1>12. CASE ~ p.magicRead
  <2>1. c = 0 /\ d = 0
    BY <1>12 DEF ParserAt
  <2>2. ready = start \/ HasRead(s, ready, 0, r2)
    BY <1>5, <1>8, <1>12, <2>1, MagicRead
  <2>3. CASE ready = start
    <3>1. Pushed(p, Piece(s, r, r2)) = start
      BY <1>5, <1>7, <1>12, <2>3
    <3> QED BY <1>2, <1>5, <1>8, <1>9, <3>1
  <2> QED BY <1>10, <2>1, <2>2, <2>3
<1> QED BY <1>11, <1>12

-----------------------------------------------------------------------------
(* What the server sends *)

LEMMA TwoBytes ==
  ASSUME NEW s \in Lengths, NEW d \in Nat, NEW e \in Nat, e = d + 2, e <= Length(s),
         NEW x \in Byte, NEW y \in Byte, Stream(s)[d + 1] = x, Stream(s)[d + 2] = y
  PROVE  <<x, y>> = Piece(s, d, e)
<1>1. Stream(s) \in Seq(Byte) /\ Len(Stream(s)) = Length(s) /\ Length(s) \in Nat
  BY StreamExists, StartFacts DEF IsStream
<1> DEFINE l == SubSeq(Stream(s), d + 1, e)
           m == <<x, y>>
<1>2. l \in Seq(Byte) /\ Len(l) = 2 /\ l[1] = x /\ l[2] = y
  BY <1>1
<1>3. m \in Seq(Byte) /\ Len(m) = 2 /\ m[1] = x /\ m[2] = y
  OBVIOUS
<1> HIDE DEF l, m
<1>4. \A i \in 1 .. Len(l) : l[i] = m[i]
  <2>1. \A i \in 1 .. 2 : i = 1 \/ i = 2
    OBVIOUS
  <2> QED BY <1>2, <1>3, <2>1
<1>5. l = m
  BY <1>2, <1>3, <1>4, SeqEqual
<1> QED BY <1>5 DEF l, m, Piece

LEMMA MagicSent ==
  ASSUME NEW s \in Lengths
  PROVE  STREAM_MAGIC = Piece(s, 0, 2) /\ 2 <= Length(s)
<1>1. 2 <= Length(s)
  <2>1. Len(s) \in Nat \ {0} /\ Len(s) + 1 \in 1 .. Len(s) + 1
    BY StartFacts
  <2> QED BY <2>1, StartFacts
<1>2. Stream(s)[1] = B("magic", 1, 0) /\ Stream(s)[2] = B("magic", 2, 0)
  BY StreamExists DEF IsStream
<1>3. B("magic", 1, 0) \in Byte /\ B("magic", 2, 0) \in Byte
  BY DEF B, Byte
<1>4. 0 \in Nat /\ 2 \in Nat /\ 2 = 0 + 2 /\ 0 + 1 = 1
  OBVIOUS
<1>5. <<B("magic", 1, 0), B("magic", 2, 0)>> = Piece(s, 0, 2)
  BY <1>1, <1>2, <1>3, <1>4, TwoBytes
<1> QED BY <1>1, <1>5 DEF STREAM_MAGIC

LEMMA ChunkSent ==
  ASSUME NEW s \in Lengths, NEW k \in 1 .. Len(s)
  PROVE  Header("arrow", s[k]) \o Payload(s, k) = Piece(s, Start(s, k), Start(s, k + 1))
<1>1. PICK d \in Nat, h \in Nat, e \in Nat : d = Start(s, k) /\ h = d + 2 /\ e = Start(s, k + 1)
  <2>1. k \in 1 .. Len(s) + 1 /\ k + 1 \in 1 .. Len(s) + 1
    BY StartFacts
  <2>2. Start(s, k) \in Nat /\ Start(s, k + 1) \in Nat
    BY <2>1, StartFacts
  <2>3. Start(s, k) + 2 \in Nat
    BY <2>2
  <2> QED BY <2>2, <2>3
<1>2. d <= h /\ h <= e /\ e <= Length(s) /\ h <= Length(s) /\ s[k] \in Nat
  <2>1. Len(s) \in Nat /\ k + 1 \in 1 .. Len(s) + 1 /\ Len(s) + 1 \in 1 .. Len(s) + 1 /\ k + 1 <= Len(s) + 1
    BY StartFacts
  <2>2. /\ Start(s, k + 1) <= Start(s, Len(s) + 1) /\ Start(s, Len(s) + 1) \in Nat
        /\ Length(s) = Start(s, Len(s) + 1) + 2
        /\ Start(s, k + 1) = Start(s, k) + 2 + s[k] /\ s[k] \in Nat
    BY <2>1, StartFacts
  <2>3. e = d + 2 + s[k] /\ h = d + 2 /\ e <= Start(s, Len(s) + 1)
    BY <1>1, <2>2
  <2> QED BY <2>2, <2>3
<1>3. Header("arrow", s[k]) = Piece(s, d, h)
  <2>1. Stream(s)[d + 1] = B("arrow", 0, 0) /\ Stream(s)[d + 2] = B("length", s[k], 0)
    BY <1>1, StreamExists DEF IsStream
  <2>2. B("arrow", 0, 0) \in Byte /\ B("length", s[k], 0) \in Byte
    BY <1>2 DEF B, Byte
  <2>3. <<B("arrow", 0, 0), B("length", s[k], 0)>> = Piece(s, d, h)
    BY <1>1, <1>2, <2>1, <2>2, TwoBytes
  <2> QED BY <2>3 DEF Header
<1>4. Payload(s, k) = Piece(s, h, e)
  BY <1>1, PayloadFacts
<1>5. Piece(s, d, h) \o Piece(s, h, e) = Piece(s, d, e)
  BY <1>2, PiecesJoin
<1> QED BY <1>1, <1>3, <1>4, <1>5

LEMMA CompletionSent ==
  ASSUME NEW s \in Lengths
  PROVE  Header("complete", 0) = Piece(s, Start(s, Len(s) + 1), Length(s))
<1>1. PICK d \in Nat, e \in Nat : d = Start(s, Len(s) + 1) /\ e = Length(s) /\ e = d + 2
  <2>1. Len(s) \in Nat \ {0} /\ Len(s) + 1 \in 1 .. Len(s) + 1
    BY StartFacts
  <2> QED BY <2>1, StartFacts
<1>2. e <= Length(s)
  BY <1>1
<1>3. Stream(s)[d + 1] = B("complete", 0, 0) /\ Stream(s)[d + 2] = B("length", 0, 0)
  BY <1>1, StreamExists DEF IsStream
<1>4. B("complete", 0, 0) \in Byte /\ B("length", 0, 0) \in Byte
  BY DEF B, Byte
<1>5. <<B("complete", 0, 0), B("length", 0, 0)>> = Piece(s, d, e)
  BY <1>1, <1>2, <1>3, <1>4, TwoBytes
<1> QED BY <1>1, <1>5 DEF Header

-----------------------------------------------------------------------------
(* The inductive invariant *)

\* How many bytes the server has sent
Sent == CASE server = "idle"      -> 0
          [] server = "confirmed" -> Length(source)
          [] OTHER                -> Start(source, next)

\* The first c chunks, in order, are in the table, the queue or the load's hands.
Delivered(c) ==
  /\ Len(table) + Len(queue) + Len(todo) = c
  /\ \A i \in 1 .. Len(table) : table[i] = Payload(source, i)
  /\ \A i \in 1 .. Len(queue) : queue[i] = Payload(source, Len(table) + i)
  /\ \A i \in 1 .. Len(todo) : todo[i] = Payload(source, Len(table) + Len(queue) + i)

\* Every byte the server has sent is read, lost, or on the wire.
InFlight(r) ==
  /\ r <= Sent
  /\ wire = IF link = "broken" THEN <<>> ELSE Piece(source, r, Sent)

UnderWay ==
  \E c, d, r \in Nat :
    /\ ParserAt(source, parser, c, d, r) /\ parser.chunks = <<>>
    /\ InFlight(r)
    /\ Delivered(c)

\* What the phases of the load say of the server, the parser and the ingestion
Phases ==
  /\ server = "idle" => next = 1 /\ phase \in {"opening", "failed"}
  /\ phase = "opening" => server = "idle"
  /\ phase = "inserting" => todo # <<>>
  /\ phase \in {"opening", "reading", "closing", "published"} => todo = <<>>
  /\ phase \in {"closing", "published"} => parser.complete
  /\ ingestion = "succeeded" => queue = <<>> /\ phase \in {"closing", "published", "failed"}
  /\ phase = "published" => ingestion = "succeeded"

StreamInv == StreamTypeOK /\ UnderWay /\ Phases

LEMMA SourceFacts ==
  ASSUME StreamTypeOK
  PROVE  /\ source \in Admitted /\ source \in Lengths
         /\ Len(source) \in Nat \ {0} /\ Length(source) \in Nat
         /\ next \in 1 .. Len(source) + 1 /\ next \in Nat
         /\ Start(source, next) \in Nat /\ Start(source, next) < Length(source)
         /\ Sent \in Nat /\ Sent <= Length(source)
         /\ \A k : Chunk(k) = Payload(source, k)
<1>1. /\ source \in Admitted /\ source \in Lengths
      /\ Len(source) \in Nat \ {0} /\ Length(source) \in Nat
      /\ next \in 1 .. Len(source) + 1
  BY AdmittedFacts, StartFacts DEF StreamTypeOK
<1>2. Len(source) + 1 \in 1 .. Len(source) + 1 /\ next <= Len(source) + 1 /\ next \in Nat
  BY <1>1
<1>3. /\ Start(source, next) \in Nat /\ Start(source, Len(source) + 1) \in Nat
      /\ Start(source, next) <= Start(source, Len(source) + 1)
      /\ Length(source) = Start(source, Len(source) + 1) + 2
  BY <1>1, <1>2, StartFacts
<1>4. Sent \in {0, Length(source), Start(source, next)}
  BY DEF Sent
<1>5. \A k : Chunk(k) = Payload(source, k)
  BY DEF Chunk, Payload
<1> QED BY <1>1, <1>2, <1>3, <1>4, <1>5

\* A parser that has read the completion frame has read everything.
LEMMA CompleteFacts ==
  ASSUME StreamTypeOK, NEW c \in Nat, NEW d \in Nat, NEW r \in Nat,
         ParserAt(source, parser, c, d, r), InFlight(r), parser.complete
  PROVE  c = Len(source) /\ server = "confirmed" /\ r = Length(source)
<1>1. c = Len(source) /\ d = Length(source) /\ d <= r
  BY DEF ParserAt
<1>2. r = Length(source) /\ Sent = Length(source) /\ 0 < Length(source)
  BY <1>1, SourceFacts DEF InFlight
<1>3. server = "confirmed"
  BY <1>2, SourceFacts DEF Sent
<1> QED BY <1>1, <1>2, <1>3

LEMMA InitStream == Init => StreamInv
<1> SUFFICES ASSUME Init PROVE StreamInv
  OBVIOUS
<1>1. source \in Admitted /\ source \in Lengths /\ Len(source) \in Nat \ {0} /\ Length(source) \in Nat
  BY AdmittedFacts, StartFacts DEF Init
<1>2. parser = NewParser /\ NewParser \in Parser
  BY DEF Init, NewParser, Parser
<1>3. StreamTypeOK
  <2>1. <<>> \in Seq(Byte) /\ <<>> \in Seq(Seq(Byte)) /\ Len(<<>>) = 0
    OBVIOUS
  <2>2. next \in 1 .. Len(source) + 1
    BY <1>1 DEF Init
  <2> QED BY <1>1, <1>2, <2>1, <2>2 DEF StreamTypeOK, Init
<1>4. Piece(source, 0, 0) = <<>>
  <2>1. 0 \in Nat /\ 0 <= 0 /\ 0 <= Length(source) /\ 0 - 0 = 0
    BY <1>1
  <2>2. Piece(source, 0, 0) \in Seq(Byte) /\ Len(Piece(source, 0, 0)) = 0 - 0
    BY <1>1, <2>1, PieceFacts
  <2> QED BY <2>1, <2>2
<1>5. ParserAt(source, parser, 0, 0, 0) /\ parser.chunks = <<>>
  <2>1. Sums(source)[0] = 0
    BY <1>1, SumsGrow
  <2>2. 0 \in 0 .. Len(source) /\ 0 <= Length(source) /\ 0 <= 0
    BY <1>1
  <2> QED BY <1>2, <1>4, <2>1, <2>2 DEF ParserAt, NewParser
<1>6. InFlight(0) /\ Delivered(0)
  <2>1. Sent = 0
    BY DEF Init, Sent
  <2>2. InFlight(0)
    BY <1>4, <2>1 DEF Init, InFlight
  <2>3. Delivered(0)
    BY DEF Init, Delivered
  <2> QED BY <2>2, <2>3
<1>7. UnderWay
  <2>1. 0 \in Nat
    OBVIOUS
  <2> QED BY <1>5, <1>6, <2>1 DEF UnderWay
<1>8. Phases
  BY DEF Init, Phases
<1> QED BY <1>3, <1>7, <1>8 DEF StreamInv

-----------------------------------------------------------------------------
(* Steps of the server and of the connection *)

\* The load and the ingestion do nothing.
LEMMA LoadAtRest ==
  ASSUME UnderWay, UNCHANGED <<source, parser, todo, queue, table>>,
         \A r \in Nat : InFlight(r) => InFlight(r)'
  PROVE  UnderWay'
<1>1. PICK c \in Nat, d \in Nat, r \in Nat :
        /\ ParserAt(source, parser, c, d, r) /\ parser.chunks = <<>>
        /\ InFlight(r) /\ Delivered(c)
  BY DEF UnderWay
<1>2. InFlight(r)'
  BY <1>1
<1>3. ParserAt(source, parser, c, d, r)' /\ (parser.chunks = <<>>)'
  BY <1>1
<1>4. Delivered(c)'
  BY <1>1 DEF Delivered
<1> QED BY <1>2, <1>3, <1>4 DEF UnderWay

LEMMA RevokeKeeps == ASSUME StreamInv, Revoke PROVE StreamInv'
<1>1. StreamTypeOK'
  BY DEF StreamInv, StreamTypeOK, Revoke, serverVars, sinkVars
<1>2. \A r \in Nat : InFlight(r) => InFlight(r)'
  BY DEF InFlight, Sent, Revoke, serverVars
<1>3. UnderWay'
  BY <1>2, LoadAtRest DEF StreamInv, Revoke, serverVars, sinkVars
<1>4. Phases'
  BY DEF StreamInv, Phases, Revoke, serverVars, sinkVars
<1> QED BY <1>1, <1>3, <1>4 DEF StreamInv

LEMMA OpenKeeps == ASSUME StreamInv, Open PROVE StreamInv'
<1>1. /\ StreamTypeOK /\ server = "idle" /\ next = 1 /\ phase = "opening" /\ link = "open"
      /\ UNCHANGED <<available, source, next, link, parser, todo, queue, table, ingestion>>
  BY DEF StreamInv, Phases, Open, sinkVars
<1>2. CASE ~ available
  <2>1. phase' = "failed" /\ UNCHANGED <<server, wire>>
    BY <1>2 DEF Open
  <2>2. StreamTypeOK'
    BY <1>1, <2>1 DEF StreamTypeOK
  <2>3. \A r \in Nat : InFlight(r) => InFlight(r)'
    BY <1>1, <2>1 DEF InFlight, Sent
  <2>4. UnderWay'
    BY <1>1, <2>3, LoadAtRest DEF StreamInv
  <2>5. Phases'
    BY <1>1, <2>1 DEF StreamInv, Phases
  <2> QED BY <2>2, <2>4, <2>5 DEF StreamInv
<1>3. CASE available
  <2>1. phase' = "reading" /\ server' = "streaming" /\ wire' = STREAM_MAGIC
    BY <1>3 DEF Open
  <2>2. source \in Lengths /\ Start(source, 1) = 2 /\ STREAM_MAGIC = Piece(source, 0, 2) /\ 2 <= Length(source)
    BY <1>1, SourceFacts, StartFacts, MagicSent
  <2>3. StreamTypeOK'
    <3>1. STREAM_MAGIC \in Seq(Byte)
      BY DEF STREAM_MAGIC, B, Byte
    <3> QED BY <1>1, <2>1, <3>1 DEF StreamTypeOK
  <2>4. ASSUME NEW r \in Nat, InFlight(r) PROVE InFlight(r)'
    <3>1. r = 0
      BY <1>1, <2>4 DEF InFlight, Sent
    <3>2. Sent' = 2
      BY <1>1, <2>1, <2>2 DEF Sent
    <3> QED BY <1>1, <2>1, <2>2, <3>1, <3>2 DEF InFlight
  <2>5. UnderWay'
    BY <1>1, <2>4, LoadAtRest DEF StreamInv
  <2>6. Phases'
    BY <1>1, <2>1 DEF StreamInv, Phases
  <2> QED BY <2>3, <2>5, <2>6 DEF StreamInv
<1> QED BY <1>2, <1>3

LEMMA SendChunkKeeps == ASSUME StreamInv, SendChunk PROVE StreamInv'
<1>1. /\ StreamTypeOK /\ server = "streaming" /\ next <= Len(source)
      /\ UNCHANGED <<available, source, phase, parser, todo, queue, table, ingestion>>
  BY DEF StreamInv, SendChunk, sinkVars
<1>2. Phases'
  BY <1>1 DEF StreamInv, Phases, SendChunk
<1>3. CASE ~ (StillAvailable /\ WithinLimit)
  <2>1. /\ server' = "ended" /\ UNCHANGED <<wire, next>>
        /\ link' = IF link = "open" THEN "ended" ELSE link
    BY <1>3 DEF SendChunk
  <2>2. StreamTypeOK'
    BY <1>1, <2>1 DEF StreamTypeOK
  <2>3. \A r \in Nat : InFlight(r) => InFlight(r)'
    BY <1>1, <2>1 DEF InFlight, Sent
  <2>4. UnderWay'
    BY <1>1, <2>3, LoadAtRest DEF StreamInv
  <2> QED BY <1>2, <2>2, <2>4 DEF StreamInv
<1>4. CASE StillAvailable /\ WithinLimit
  <2>1. /\ wire' = IF link = "broken" THEN <<>>
                    ELSE wire \o Header("arrow", source[next]) \o Chunk(next)
        /\ next' = next + 1
        /\ UNCHANGED <<server, link>>
    BY <1>4 DEF SendChunk
  <2> DEFINE x == Start(source, next)
             y == Start(source, next + 1)
  <2>2. /\ source \in Lengths /\ next \in 1 .. Len(source) /\ next + 1 \in 1 .. Len(source) + 1
        /\ Chunk(next) = Payload(source, next)
    BY <1>1, SourceFacts
  <2>3. /\ x \in Nat /\ y \in Nat /\ x <= y /\ y <= Length(source)
        /\ source[next] \in Nat
    <3>1. /\ next \in 1 .. Len(source) + 1 /\ Len(source) + 1 \in 1 .. Len(source) + 1
          /\ next <= next + 1 /\ next + 1 <= Len(source) + 1
      BY <2>2, StartFacts
    <3>2. Start(source, Len(source) + 1) \in Nat /\ Length(source) = Start(source, Len(source) + 1) + 2
      BY <2>2, <3>1, StartFacts
    <3>3. y <= Start(source, Len(source) + 1)
      BY <2>2, <3>1, StartFacts
    <3>4. x <= y /\ x \in Nat /\ y \in Nat
      BY <2>2, <3>1, StartFacts
    <3>5. source[next] \in Nat
      BY <2>2, StartFacts
    <3> QED BY <3>2, <3>3, <3>4, <3>5
  <2>4. /\ Header("arrow", source[next]) \in Seq(Byte) /\ Payload(source, next) \in Seq(Byte)
        /\ Header("arrow", source[next]) \o Payload(source, next) = Piece(source, x, y)
    <3>1. Header("arrow", source[next]) \in Seq(Byte)
      BY <2>3 DEF Header, B, Byte
    <3> QED BY <2>2, <3>1, ChunkSent, PayloadFacts
  <2>5. wire \in Seq(Byte)
    BY <1>1 DEF StreamTypeOK
  <2>6. wire \o Header("arrow", source[next]) \o Chunk(next) = wire \o Piece(source, x, y)
    <3> DEFINE H == Header("arrow", source[next])
               P == Payload(source, next)
    <3>1. (wire \o H) \o P = wire \o (H \o P)
      <4>1. H \in Seq(Byte) /\ P \in Seq(Byte)
        BY <2>4
      <4> HIDE DEF H, P
      <4> QED BY <2>5, <4>1, ConcatAssociative
    <3> QED BY <2>2, <2>4, <3>1
  <2>7. StreamTypeOK'
    <3>1. Piece(source, x, y) \in Seq(Byte)
      BY <2>2, <2>3, PieceFacts
    <3>2. wire \o Piece(source, x, y) \in Seq(Byte) /\ <<>> \in Seq(Byte)
      BY <2>5, <3>1
    <3>3. wire' \in Seq(Byte)
      BY <2>1, <2>6, <3>2
    <3> QED BY <1>1, <2>1, <2>2, <3>3 DEF StreamTypeOK
  <2>8. ASSUME NEW r \in Nat, InFlight(r) PROVE InFlight(r)'
    <3>1. Sent = x /\ Sent' = y
      BY <1>1, <2>1 DEF Sent
    <3>2. r <= x /\ r <= y
      BY <2>3, <2>8, <3>1 DEF InFlight
    <3>3. link # "broken" => wire = Piece(source, r, x)
      BY <2>8, <3>1 DEF InFlight
    <3>4. Piece(source, r, x) \o Piece(source, x, y) = Piece(source, r, y)
      BY <2>2, <2>3, <3>2, PiecesJoin, Zenon
    <3> HIDE DEF x, y
    <3> QED BY <1>1, <2>1, <2>6, <3>1, <3>2, <3>3, <3>4 DEF InFlight
  <2>9. UnderWay'
    BY <1>1, <2>8, LoadAtRest DEF StreamInv
  <2> QED BY <1>2, <2>7, <2>9 DEF StreamInv
<1> QED BY <1>3, <1>4

LEMMA SendCompleteKeeps == ASSUME StreamInv, SendComplete PROVE StreamInv'
<1>1. /\ StreamTypeOK /\ server = "streaming" /\ next > Len(source)
      /\ UNCHANGED <<available, source, next, phase, parser, todo, queue, table, ingestion>>
      /\ link' = IF link = "open" THEN "ended" ELSE link
  BY DEF StreamInv, SendComplete, sinkVars
<1>2. Phases'
  BY <1>1 DEF StreamInv, Phases, SendComplete
<1>3. CASE ~ StillAvailable
  <2>1. server' = "ended" /\ UNCHANGED wire
    BY <1>3 DEF SendComplete
  <2>2. StreamTypeOK'
    BY <1>1, <2>1 DEF StreamTypeOK
  <2>3. \A r \in Nat : InFlight(r) => InFlight(r)'
    BY <1>1, <2>1 DEF InFlight, Sent
  <2>4. UnderWay'
    BY <1>1, <2>3, LoadAtRest DEF StreamInv
  <2> QED BY <1>2, <2>2, <2>4 DEF StreamInv
<1>4. CASE StillAvailable
  <2>1. /\ wire' = IF link = "broken" THEN <<>> ELSE wire \o Header("complete", 0)
        /\ server' = "confirmed"
    BY <1>4 DEF SendComplete
  <2> DEFINE x == Start(source, next)
             y == Length(source)
  <2>2. /\ source \in Lengths /\ next = Len(source) + 1
        /\ x \in Nat /\ y \in Nat /\ x <= y /\ y <= y
    BY <1>1, SourceFacts
  <2>3. Header("complete", 0) = Piece(source, x, y)
    BY <2>2, CompletionSent
  <2>4. wire \in Seq(Byte)
    BY <1>1 DEF StreamTypeOK
  <2>5. StreamTypeOK'
    <3>1. Header("complete", 0) \in Seq(Byte)
      BY DEF Header, B, Byte
    <3>2. wire \o Header("complete", 0) \in Seq(Byte) /\ <<>> \in Seq(Byte)
      BY <2>4, <3>1
    <3>3. wire' \in Seq(Byte)
      BY <2>1, <3>2
    <3> QED BY <1>1, <2>1, <3>3 DEF StreamTypeOK
  <2>6. ASSUME NEW r \in Nat, InFlight(r) PROVE InFlight(r)'
    <3>1. Sent = x /\ Sent' = y
      BY <1>1, <2>1 DEF Sent
    <3>2. r <= x /\ r <= y
      BY <2>2, <2>6, <3>1 DEF InFlight
    <3>3. link # "broken" => wire = Piece(source, r, x)
      BY <2>6, <3>1 DEF InFlight
    <3>4. Piece(source, r, x) \o Piece(source, x, y) = Piece(source, r, y)
      BY <2>2, <3>2, PiecesJoin, Zenon
    <3> HIDE DEF x, y
    <3> QED BY <1>1, <2>1, <2>3, <3>1, <3>2, <3>3, <3>4 DEF InFlight
  <2>7. UnderWay'
    BY <1>1, <2>6, LoadAtRest DEF StreamInv
  <2> QED BY <1>2, <2>5, <2>7 DEF StreamInv
<1> QED BY <1>3, <1>4

LEMMA BreakKeeps == ASSUME StreamInv, Break PROVE StreamInv'
<1>1. /\ StreamTypeOK /\ link' = "broken" /\ wire' = <<>>
      /\ UNCHANGED <<source, server, next, available, phase, parser, todo, queue, table, ingestion>>
  BY DEF StreamInv, Break, serverVars, sinkVars
<1>2. StreamTypeOK'
  <2>1. <<>> \in Seq(Byte)
    OBVIOUS
  <2> QED BY <1>1, <2>1 DEF StreamTypeOK
<1>3. \A r \in Nat : InFlight(r) => InFlight(r)'
  BY <1>1 DEF InFlight, Sent
<1>4. UnderWay'
  BY <1>1, <1>3, LoadAtRest DEF StreamInv
<1>5. Phases'
  BY <1>1 DEF StreamInv, Phases
<1> QED BY <1>2, <1>4, <1>5 DEF StreamInv

-----------------------------------------------------------------------------
(* Steps of the load and of the ingestion *)

LEMMA ReadKeeps ==
  ASSUME StreamInv, NEW n \in 1 .. Len(wire), Read(n)
  PROVE  StreamInv'
<1>1. /\ StreamTypeOK /\ phase = "reading" /\ n \in Nat \ {0} /\ n <= Len(wire) /\ todo = <<>>
      /\ wire' = SubSeq(wire, n + 1, Len(wire))
      /\ UNCHANGED <<source, server, next, available, link, queue, table, ingestion>>
  <2>1. wire \in Seq(Byte)
    BY DEF StreamInv, StreamTypeOK
  <2>2. n \in Nat \ {0} /\ n <= Len(wire)
    BY <2>1
  <2> QED BY <2>2 DEF StreamInv, Phases, Read, Load, serverVars, sinkVars
<1>2. PICK c \in Nat, d \in Nat, r \in Nat :
        /\ ParserAt(source, parser, c, d, r) /\ parser.chunks = <<>>
        /\ InFlight(r) /\ Delivered(c)
  BY DEF StreamInv, UnderWay
<1>3. PICK e \in Nat, f \in Nat : e = r + n /\ f = Sent
  <2>1. r + n \in Nat
    BY <1>1
  <2>2. Sent \in Nat
    BY <1>1, SourceFacts
  <2> QED BY <2>1, <2>2
<1>4. /\ source \in Admitted /\ source \in Lengths /\ Len(source) \in Nat
      /\ f <= Length(source)
  BY <1>1, <1>3, SourceFacts
<1>5. /\ link # "broken" /\ r <= f /\ wire = Piece(source, r, f) /\ Len(wire) = f - r
  <2>1. r <= f /\ wire = IF link = "broken" THEN <<>> ELSE Piece(source, r, f)
    BY <1>2, <1>3 DEF InFlight
  <2>2. link # "broken"
    BY <1>1, <2>1
  <2>3. Len(Piece(source, r, f)) = f - r
    BY <1>4, <2>1, PieceFacts, Zenon
  <2> QED BY <2>1, <2>2, <2>3
<1>6. r < e /\ r <= e /\ e <= f /\ e <= Length(source) /\ r <= r /\ f <= f
  <2>1. n <= f - r
    BY <1>1, <1>5
  <2>2. Length(source) \in Nat
    BY <1>1, SourceFacts
  <2> QED BY <1>1, <1>3, <1>4, <2>1, <2>2
<1>7. SubSeq(wire, 1, n) = Piece(source, r, e) /\ wire' = Piece(source, e, f)
  <2>1. /\ SubSeq(Piece(source, r, f), 1, e - r) = Piece(source, r, e)
        /\ SubSeq(Piece(source, r, f), e - r + 1, f - r) = Piece(source, e, f)
    <3>1. source \in Lengths /\ r <= e /\ e <= f /\ f <= Length(source)
      BY <1>4, <1>6
    <3> QED BY <3>1, PieceCut
  <2>2. e - r = n
    BY <1>1, <1>3
  <2> QED BY <1>1, <1>5, <2>1, <2>2
<1> DEFINE q == Pushed(parser, Piece(source, r, e))
<1>8. PICK c2 \in c .. Len(source), d2 \in Nat :
        ParserAt(source, q, c2, d2, e) /\ q.chunks = Payloads(source, c, c2)
  <2>1. ParserAt(source, parser, c, d, r)
    BY <1>2
  <2>2. source \in Admitted /\ r < e /\ e <= Length(source)
    BY <1>4, <1>6
  <2> QED BY <2>1, <2>2, PushedFacts
<1>9. /\ parser' = [q EXCEPT !.chunks = <<>>] /\ todo' = q.chunks
      /\ phase' = IF q.thrown THEN "failed"
                  ELSE IF q.chunks # <<>> THEN "inserting" ELSE "reading"
  BY <1>7 DEF Read, Load
<1>10. q \in Parser /\ ~ q.thrown
  BY <1>8 DEF ParserAt
<1> HIDE DEF q
<1>11. /\ parser' \in Parser /\ parser'.chunks = <<>> /\ ~ parser'.thrown
       /\ parser'.buffer = q.buffer /\ parser'.magicRead = q.magicRead
       /\ parser'.complete = q.complete /\ parser'.arrowBytes = q.arrowBytes
  <2>1. <<>> \in Seq(Seq(Byte))
    OBVIOUS
  <2> QED BY <1>9, <1>10, <2>1 DEF Parser
<1>12. ParserAt(source, parser', c2, d2, e)
  BY <1>8, <1>11 DEF ParserAt
<1>13. c2 \in Nat /\ c <= c2 /\ c2 <= Len(source)
  BY <1>4
<1>14. /\ Payloads(source, c, c2) \in Seq(Seq(Byte)) /\ Len(Payloads(source, c, c2)) = c2 - c
       /\ \A i \in 1 .. c2 - c : Payloads(source, c, c2)[i] = Payload(source, c + i)
  BY <1>4, <1>13, PayloadsFacts, Zenon
<1>15. Delivered(c2)'
  <2>1. /\ Len(table) + Len(queue) + Len(todo) = c /\ Len(todo) = 0
        /\ \A i \in 1 .. Len(table) : table[i] = Payload(source, i)
        /\ \A i \in 1 .. Len(queue) : queue[i] = Payload(source, Len(table) + i)
    BY <1>1, <1>2 DEF Delivered
  <2>2. Len(table) \in Nat /\ Len(queue) \in Nat
    BY <1>1 DEF StreamTypeOK
  <2>3. todo' = Payloads(source, c, c2) /\ Len(table) + Len(queue) = c
    BY <1>8, <1>9, <2>1, <2>2
  <2>4. Len(table)' + Len(queue)' + Len(todo)' = c2
    BY <1>1, <1>13, <1>14, <2>2, <2>3
  <2>5. \A i \in 1 .. Len(todo)' : todo'[i] = Payload(source, Len(table) + Len(queue) + i)
    BY <1>14, <2>3
  <2> QED BY <1>1, <2>1, <2>4, <2>5 DEF Delivered
<1>16. InFlight(e)'
  <2>1. Sent' = f
    BY <1>1, <1>3 DEF Sent
  <2> QED BY <1>1, <1>5, <1>6, <1>7, <2>1 DEF InFlight
<1>17. UnderWay'
  <2>1. ParserAt(source, parser, c2, d2, e)' /\ (parser.chunks = <<>>)'
    BY <1>1, <1>11, <1>12
  <2> QED BY <1>13, <1>15, <1>16, <2>1 DEF UnderWay
<1>18. StreamTypeOK'
  <2>1. Piece(source, e, f) \in Seq(Byte)
    BY <1>4, <1>6, PieceFacts, Zenon
  <2>2. todo' \in Seq(Seq(Byte))
    BY <1>8, <1>9, <1>14
  <2> QED BY <1>1, <1>7, <1>9, <1>10, <1>11, <2>1, <2>2 DEF StreamTypeOK
<1>19. Phases'
  <2>1. phase' = IF todo' # <<>> THEN "inserting" ELSE "reading"
    BY <1>9, <1>10
  <2>2. server # "idle" /\ ingestion # "succeeded"
    BY <1>1 DEF StreamInv, Phases
  <2> QED BY <1>1, <2>1, <2>2 DEF Phases
<1> QED BY <1>17, <1>18, <1>19 DEF StreamInv

LEMMA InsertKeeps == ASSUME StreamInv, Insert PROVE StreamInv'
<1>1. /\ StreamTypeOK /\ phase = "inserting" /\ todo # <<>>
      /\ UNCHANGED <<source, server, next, available, wire, link, parser, table, ingestion>>
  BY DEF StreamInv, Phases, Insert, Load, serverVars
<1>2. \A r \in Nat : InFlight(r) => InFlight(r)'
  BY <1>1 DEF InFlight, Sent
<1>3. CASE ingestion = "failed"
  <2>1. phase' = "failed" /\ UNCHANGED <<todo, queue>>
    BY <1>3 DEF Insert, Load
  <2>2. StreamTypeOK'
    BY <1>1, <2>1 DEF StreamTypeOK
  <2>3. UnderWay'
    BY <1>1, <1>2, <2>1, LoadAtRest DEF StreamInv
  <2>4. Phases'
    BY <1>1, <2>1 DEF StreamInv, Phases
  <2> QED BY <2>2, <2>3, <2>4 DEF StreamInv
<1>4. CASE ingestion # "failed"
  <2>1. /\ queue = <<>> /\ queue' = <<Head(todo)>> /\ todo' = Tail(todo)
        /\ phase' = IF Len(todo) > 1 THEN "inserting" ELSE "reading"
    BY <1>4 DEF Insert, Load
  <2>2. todo \in Seq(Seq(Byte)) /\ table \in Seq(Seq(Byte))
    BY <1>1 DEF StreamTypeOK
  <2>3. /\ Head(todo) \in Seq(Byte) /\ Head(todo) = todo[1] /\ Tail(todo) \in Seq(Seq(Byte))
        /\ Len(todo) \in Nat \ {0} /\ Len(Tail(todo)) = Len(todo) - 1
        /\ \A i \in 1 .. Len(todo) - 1 : Tail(todo)[i] = todo[i + 1]
    <3> HIDE DEF Byte
    <3> QED BY <1>1, <2>2
  <2>4. queue' \in Seq(Seq(Byte)) /\ Len(queue') = 1 /\ queue'[1] = todo[1] /\ queue' # <<>>
    BY <2>1, <2>3
  <2>5. StreamTypeOK'
    BY <1>1, <2>1, <2>3, <2>4 DEF StreamTypeOK
  <2>6. PICK c \in Nat, d \in Nat, r \in Nat :
          /\ ParserAt(source, parser, c, d, r) /\ parser.chunks = <<>>
          /\ InFlight(r) /\ Delivered(c)
    BY DEF StreamInv, UnderWay
  <2>7. Delivered(c)'
    <3>1. /\ Len(table) + Len(queue) + Len(todo) = c /\ Len(queue) = 0 /\ Len(table) \in Nat
          /\ \A i \in 1 .. Len(table) : table[i] = Payload(source, i)
          /\ \A i \in 1 .. Len(todo) : todo[i] = Payload(source, Len(table) + Len(queue) + i)
      BY <2>1, <2>2, <2>6 DEF Delivered
    <3>2. Len(table) + Len(queue') + Len(todo') = c
      BY <2>1, <2>3, <2>4, <3>1
    <3>3. \A i \in 1 .. Len(queue') : queue'[i] = Payload(source, Len(table) + i)
      <4>1. todo[1] = Payload(source, Len(table) + 0 + 1) /\ Len(table) + 0 + 1 = Len(table) + 1
        BY <2>3, <3>1
      <4>2. \A i \in 1 .. 1 : i = 1
        OBVIOUS
      <4> QED BY <2>4, <4>1, <4>2
    <3>4. ASSUME NEW i \in 1 .. Len(todo')
          PROVE  todo'[i] = Payload(source, Len(table) + Len(queue') + i)
      <4>1. i + 1 \in 1 .. Len(todo) /\ todo'[i] = todo[i + 1]
        BY <2>1, <2>3
      <4>2. todo[i + 1] = Payload(source, Len(table) + Len(queue) + (i + 1))
        BY <3>1, <4>1
      <4>3. Len(table) + Len(queue) + (i + 1) = Len(table) + Len(queue') + i
        BY <2>4, <3>1
      <4> QED BY <4>1, <4>2, <4>3
    <3> QED BY <1>1, <3>1, <3>2, <3>3, <3>4 DEF Delivered
  <2>8. UnderWay'
    <3>1. ParserAt(source, parser, c, d, r)' /\ (parser.chunks = <<>>)' /\ InFlight(r)'
      BY <1>1, <1>2, <2>6
    <3> QED BY <2>7, <3>1 DEF UnderWay
  <2>9. Phases'
    <3>1. Len(todo) > 1 => todo' # <<>>
      <4>0. Len(todo) \in Nat /\ Len(Tail(todo)) = Len(todo) - 1
        BY <2>3
      <4>1. ASSUME Len(todo) > 1 PROVE Len(Tail(todo)) # 0
        <5>1. \A x \in Nat : x > 1 => x - 1 # 0
          OBVIOUS
        <5> QED BY <4>0, <4>1, <5>1
      <4> QED BY <2>1, <4>1
    <3>2. ~ (Len(todo) > 1) => todo' = <<>>
      <4>1. ASSUME ~ (Len(todo) > 1) PROVE Len(Tail(todo)) = 0
        BY <2>3, <4>1
      <4> QED BY <2>1, <2>3, <4>1
    <3>3. server # "idle" /\ ingestion # "succeeded"
      BY <1>1 DEF StreamInv, Phases
    <3> QED BY <1>1, <2>1, <3>1, <3>2, <3>3 DEF Phases
  <2> QED BY <2>5, <2>8, <2>9 DEF StreamInv
<1> QED BY <1>3, <1>4

LEMMA IngestKeeps == ASSUME StreamInv, Ingest PROVE StreamInv'
<1>1. /\ StreamTypeOK /\ ingestion = "running" /\ phase # "failed" /\ queue # <<>>
      /\ UNCHANGED <<source, server, next, available, wire, link, phase, parser, todo>>
  BY DEF StreamInv, Ingest, serverVars
<1>2. \A r \in Nat : InFlight(r) => InFlight(r)'
  BY <1>1 DEF InFlight, Sent
<1>3. CASE ingestion' = "failed" /\ UNCHANGED <<table, queue>>
  <2>1. StreamTypeOK'
    BY <1>1, <1>3 DEF StreamTypeOK
  <2>2. UnderWay'
    BY <1>1, <1>2, <1>3, LoadAtRest DEF StreamInv
  <2>3. Phases'
    BY <1>1, <1>3 DEF StreamInv, Phases
  <2> QED BY <2>1, <2>2, <2>3 DEF StreamInv
<1>4. CASE table' = Append(table, Head(queue)) /\ queue' = <<>> /\ UNCHANGED ingestion
  <2>1. queue \in Seq(Seq(Byte)) /\ table \in Seq(Seq(Byte)) /\ Len(queue) <= 1
    BY <1>1 DEF StreamTypeOK
  <2>2. /\ Len(queue) = 1 /\ Head(queue) = queue[1] /\ Head(queue) \in Seq(Byte)
        /\ Len(table) \in Nat
    <3>1. Len(queue) \in Nat /\ Len(queue) # 0 /\ Len(table) \in Nat
      BY <1>1, <2>1
    <3>2. Len(queue) = 1
      <4>1. Len(queue) <= 1
        BY <2>1
      <4>2. \A x \in Nat : x # 0 /\ x <= 1 => x = 1
        OBVIOUS
      <4> QED BY <3>1, <4>1, <4>2
    <3>3. queue[1] \in Seq(Byte)
      BY <2>1, <3>2, ElementOfSeq
    <3>4. Head(queue) = queue[1]
      BY <2>1, <3>2
    <3> QED BY <3>1, <3>2, <3>3, <3>4
  <2>3. /\ table' \in Seq(Seq(Byte)) /\ Len(table') = Len(table) + 1
        /\ table'[Len(table) + 1] = queue[1]
        /\ \A i \in 1 .. Len(table) : table'[i] = table[i]
    BY <1>4, <2>1, <2>2
  <2>4. StreamTypeOK'
    <3>1. <<>> \in Seq(Seq(Byte)) /\ Len(<<>>) <= 1
      OBVIOUS
    <3> QED BY <1>1, <1>4, <2>3, <3>1 DEF StreamTypeOK
  <2>5. PICK c \in Nat, d \in Nat, r \in Nat :
          /\ ParserAt(source, parser, c, d, r) /\ parser.chunks = <<>>
          /\ InFlight(r) /\ Delivered(c)
    BY DEF StreamInv, UnderWay
  <2>6. Delivered(c)'
    <3>1. /\ Len(table) + Len(queue) + Len(todo) = c /\ Len(todo) \in Nat
          /\ \A i \in 1 .. Len(table) : table[i] = Payload(source, i)
          /\ \A i \in 1 .. Len(queue) : queue[i] = Payload(source, Len(table) + i)
          /\ \A i \in 1 .. Len(todo) : todo[i] = Payload(source, Len(table) + Len(queue) + i)
      BY <1>1, <2>5 DEF Delivered, StreamTypeOK
    <3>2. Len(queue') = 0 /\ Len(table') + Len(queue') + Len(todo) = c
      BY <1>4, <2>2, <2>3, <3>1
    <3>3. ASSUME NEW i \in 1 .. Len(table') PROVE table'[i] = Payload(source, i)
      <4>1. queue[1] = Payload(source, Len(table) + 1)
        BY <2>2, <3>1
      <4>2. i \in 1 .. Len(table) \/ i = Len(table) + 1
        BY <2>2, <2>3
      <4> QED BY <2>3, <3>1, <4>1, <4>2
    <3>4. Len(table') + Len(queue') = Len(table) + Len(queue)
      BY <2>2, <2>3, <3>2
    <3>5. \A i \in 1 .. Len(todo) : todo[i] = Payload(source, Len(table') + Len(queue') + i)
      BY <3>1, <3>4
    <3> QED BY <1>1, <3>2, <3>3, <3>5 DEF Delivered
  <2>7. UnderWay'
    <3>1. ParserAt(source, parser, c, d, r)' /\ (parser.chunks = <<>>)' /\ InFlight(r)'
      BY <1>1, <1>2, <2>5
    <3> QED BY <2>6, <3>1 DEF UnderWay
  <2>8. Phases'
    BY <1>1, <1>4 DEF StreamInv, Phases
  <2> QED BY <2>4, <2>7, <2>8 DEF StreamInv
<1> QED BY <1>3, <1>4 DEF Ingest

\* A step of the load or of the ingestion that moves no byte
LEMMA NothingMoves ==
  ASSUME StreamInv, phase' \in {"closing", "published", "failed"} \/ UNCHANGED phase,
         ingestion' \in {"running", "succeeded", "failed"},
         UNCHANGED <<serverVars, available, wire, link, parser, todo, queue, table>>, Phases'
  PROVE  StreamInv'
<1>1. \A r \in Nat : InFlight(r) => InFlight(r)'
  BY DEF InFlight, Sent, serverVars
<1>2. UnderWay'
  BY <1>1, LoadAtRest DEF StreamInv, serverVars
<1>3. StreamTypeOK'
  BY DEF StreamInv, StreamTypeOK, serverVars
<1> QED BY <1>2, <1>3 DEF StreamInv

LEMMA EndKeeps ==
  ASSUME StreamInv, EndOfStream \/ ReadFails \/ IngestionEnds \/ Publish
  PROVE  StreamInv'
<1>1. CASE EndOfStream
  <2>1. Phases'
    BY <1>1 DEF StreamInv, Phases, EndOfStream, Load, Finishes, serverVars, sinkVars
  <2> QED BY <1>1, <2>1, NothingMoves DEF EndOfStream, Load, StreamInv, StreamTypeOK, sinkVars
<1>2. CASE ReadFails
  <2>1. Phases'
    BY <1>2 DEF StreamInv, Phases, ReadFails, Load, serverVars, sinkVars
  <2> QED BY <1>2, <2>1, NothingMoves DEF ReadFails, Load, StreamInv, StreamTypeOK, sinkVars
<1>3. CASE IngestionEnds
  <2>1. Phases'
    BY <1>3 DEF StreamInv, Phases, IngestionEnds, serverVars
  <2> QED BY <1>3, <2>1, NothingMoves DEF IngestionEnds
<1>4. CASE Publish
  <2>1. Phases'
    BY <1>4 DEF StreamInv, Phases, Publish, Load, serverVars, sinkVars
  <2> QED BY <1>4, <2>1, NothingMoves DEF Publish, Load, StreamInv, StreamTypeOK, sinkVars
<1> QED BY <1>1, <1>2, <1>3, <1>4

LEMMA NextStream == StreamInv /\ [Next]_vars => StreamInv'
<1> SUFFICES ASSUME StreamInv, [Next]_vars PROVE StreamInv'
  OBVIOUS
<1>1. CASE Next
  BY <1>1, RevokeKeeps, BreakKeeps, OpenKeeps, SendChunkKeeps, SendCompleteKeeps, ReadKeeps,
     InsertKeeps, IngestKeeps, EndKeeps
     DEF Next, ServerStep, LoadStep, IngestionStep
<1>2. CASE UNCHANGED vars
  <2>1. Phases'
    BY <1>2 DEF StreamInv, Phases, vars, serverVars, sinkVars
  <2> QED BY <1>2, <2>1, NothingMoves DEF vars, sinkVars, StreamInv, StreamTypeOK
<1> QED BY <1>1, <1>2

-----------------------------------------------------------------------------
(* What follows *)

LEMMA StreamInvariant == Spec => []StreamInv
<1> QED BY InitStream, NextStream, PTL DEF Spec

\* Every variable keeps its type; ingestion never has more than one chunk waiting
\* (arrow-ingest.ts, the transform stream).
THEOREM StreamTypes == Spec => []StreamTypeOK
<1>1. StreamInv => StreamTypeOK
  BY DEF StreamInv
<1> QED BY <1>1, StreamInvariant, PTL

\* However the bytes of an admitted result are cut, the parser of the viewer refuses none
\* of the server's frames and its buffer stays within its limit (result-stream.ts).
THEOREM TheServerIsAccepted == Spec => []ParserAcceptsTheServer
<1>1. StreamInv => ParserAcceptsTheServer
  BY DEF StreamInv, UnderWay, ParserAt, ParserAcceptsTheServer
<1> QED BY <1>1, StreamInvariant, PTL

LEMMA Published == StreamInv => PublishedWhole
<1> SUFFICES ASSUME StreamInv, phase = "published" PROVE table = WholeTable
  BY DEF PublishedWhole
<1>1. StreamTypeOK /\ todo = <<>> /\ queue = <<>> /\ parser.complete
  BY DEF StreamInv, Phases
<1>2. PICK c \in Nat, d \in Nat, r \in Nat :
        /\ ParserAt(source, parser, c, d, r) /\ InFlight(r) /\ Delivered(c)
  BY DEF StreamInv, UnderWay
<1>3. c = Len(source)
  BY <1>1, <1>2, CompleteFacts
<1>4. /\ Len(source) \in Nat /\ source \in Lengths
      /\ \A k : Chunk(k) = Payload(source, k)
  BY <1>1, SourceFacts
<1>5. /\ table \in Seq(Seq(Byte)) /\ Len(table) = Len(source)
      /\ \A i \in 1 .. Len(table) : table[i] = Payload(source, i)
  <2>1. table \in Seq(Seq(Byte)) /\ Len(table) \in Nat
    BY <1>1 DEF StreamTypeOK
  <2>2. Len(table) + Len(queue) + Len(todo) = c /\ Len(queue) = 0 /\ Len(todo) = 0
    BY <1>1, <1>2 DEF Delivered
  <2> QED BY <1>2, <1>3, <2>1, <2>2 DEF Delivered
<1>6. /\ WholeTable \in Seq(Seq(Byte)) /\ Len(WholeTable) = Len(source)
      /\ \A i \in 1 .. Len(source) : WholeTable[i] = Payload(source, i)
  <2>1. \A i \in 1 .. Len(source) : Chunk(i) \in Seq(Byte)
    BY <1>4, PayloadFacts
  <2> QED BY <1>4, <2>1 DEF WholeTable
<1>7. \A i \in 1 .. Len(table) : table[i] = WholeTable[i]
  BY <1>5, <1>6
<1> HIDE DEF WholeTable
<1> QED BY <1>5, <1>6, <1>7, SeqEqual

\* The table that is renamed holds every chunk of the result, once and in order
\* (duckdb.worker.ts, publish).
THEOREM PublishedIsWhole == Spec => []PublishedWhole
<1> QED BY Published, StreamInvariant, PTL

\* The load closes only after the server has confirmed, and opens before it has begun.
Confirmed ==
  /\ phase \in {"closing", "published"} => server = "confirmed"
  /\ phase = "opening" => server = "idle"

LEMMA ConfirmedFirst == StreamInv => Confirmed
<1> SUFFICES ASSUME StreamInv, phase \in {"closing", "published"} PROVE server = "confirmed"
  BY DEF Confirmed, StreamInv, Phases
<1>1. StreamTypeOK /\ parser.complete
  BY DEF StreamInv, Phases
<1>2. PICK c \in Nat, d \in Nat, r \in Nat : ParserAt(source, parser, c, d, r) /\ InFlight(r)
  BY DEF StreamInv, UnderWay
<1> QED BY <1>1, <1>2, CompleteFacts

LEMMA InitWhole == Init => Whole!Init
BY DEF Init, Whole!Init, Shown

\* Each step shows what the abstract result may show next.
LEMMA NextWhole ==
  ASSUME Confirmed, PublishedWhole, PublishedWhole', [Next]_vars
  PROVE  [Whole!Next]_<<available, server = "confirmed", Shown>>
<1> DEFINE Says == IF phase = "published" THEN "result"
                   ELSE IF phase = "failed" THEN "refused" ELSE "nothing"
           Sure == server = "confirmed"
           Stutters == UNCHANGED <<available, Sure, Shown>>
<1>1. Shown = Says /\ Shown' = Says'
  BY DEF Shown, PublishedWhole
<1>2. ASSUME UNCHANGED phase PROVE Shown' = Shown
  BY <1>1, <1>2
<1>3. ASSUME UNCHANGED server PROVE Sure' = Sure
  BY <1>3
<1>4. ASSUME server # "confirmed", server' # "confirmed" PROVE Sure' = Sure
  <2>1. Sure = FALSE
    BY <1>4
  <2>2. Sure' = FALSE
    BY <1>4
  <2> QED BY <2>1, <2>2
<1>5. ASSUME UNCHANGED <<available, server>>, phase \notin {"published", "failed"},
             phase' # "published"
      PROVE  Whole!Refuse \/ Stutters
  <2>1. Shown = "nothing" /\ Shown' \in {"nothing", "refused"}
    BY <1>1, <1>5
  <2> QED BY <1>3, <1>5, <2>1 DEF Whole!Refuse
<1>6. CASE Revoke
  <2>1. Whole!Revoke
    BY <1>2, <1>3, <1>6 DEF Revoke, Whole!Revoke, serverVars
  <2> QED BY <2>1 DEF Whole!Next
<1>7. CASE Open
  <2>1. CASE available
    <3>1. Shown = "nothing" /\ Shown' = "nothing" /\ UNCHANGED available
      BY <1>1, <1>7, <2>1 DEF Open
    <3>2. server # "confirmed" /\ server' # "confirmed"
      BY <1>7, <2>1 DEF Open, Confirmed
    <3> QED BY <1>4, <3>1, <3>2
  <2>2. CASE ~ available
    BY <1>5, <1>7, <2>2 DEF Open, Whole!Next
  <2> QED BY <2>1, <2>2
<1>8. CASE SendChunk
  <2>1. server # "confirmed" /\ server' # "confirmed" /\ UNCHANGED <<available, phase>>
    BY <1>8 DEF SendChunk
  <2> QED BY <1>2, <1>4, <2>1
<1>9. CASE SendComplete
  <2>1. UNCHANGED <<available, phase>> /\ server # "confirmed"
    BY <1>9 DEF SendComplete
  <2>2. CASE available
    <3>1. ~ Sure /\ Sure' /\ available
      BY <1>9, <2>1, <2>2 DEF SendComplete, StillAvailable
    <3>2. Whole!Confirm
      <4>1. Shown' = Shown /\ available' = available
        BY <1>2, <2>1
      <4>2. Sure' = TRUE
        BY <3>1
      <4> QED BY <3>1, <4>1, <4>2 DEF Whole!Confirm
    <3> QED BY <3>2 DEF Whole!Next
  <2>3. CASE ~ available
    <3>1. server' # "confirmed"
      BY <1>9, <2>3 DEF SendComplete, StillAvailable
    <3> QED BY <1>2, <1>4, <2>1, <3>1
  <2> QED BY <2>2, <2>3
<1>10. CASE Publish
  <2>1. phase = "closing" /\ UNCHANGED <<available, server>> /\ phase' \in {"published", "failed"}
    BY <1>10 DEF Publish, Load, serverVars
  <2>2. CASE phase' = "published"
    <3>1. Whole!Show
      <4>1. Sure /\ Shown = "nothing" /\ Shown' = "result"
        BY <1>1, <2>1, <2>2 DEF Confirmed
      <4> QED BY <1>3, <2>1, <4>1 DEF Whole!Show
    <3> QED BY <3>1 DEF Whole!Next
  <2>3. CASE phase' # "published"
    BY <1>5, <2>1, <2>3 DEF Whole!Next
  <2> QED BY <2>2, <2>3
<1>11. CASE Break \/ Ingest \/ IngestionEnds \/ UNCHANGED vars
  <2>1. UNCHANGED <<available, server, phase>>
    BY <1>11 DEF Break, Ingest, IngestionEnds, vars, serverVars
  <2> QED BY <1>2, <1>3, <2>1
<1>12. CASE (\E n \in 1 .. Len(wire) : Read(n)) \/ Insert \/ EndOfStream \/ ReadFails
  <2>1. /\ UNCHANGED <<available, server>>
        /\ phase \notin {"published", "failed"} /\ phase' # "published"
    BY <1>12 DEF Read, Insert, EndOfStream, ReadFails, Load, serverVars
  <2> QED BY <1>5, <2>1 DEF Whole!Next
<1> QED BY <1>6, <1>7, <1>8, <1>9, <1>10, <1>11, <1>12 DEF Next, ServerStep, LoadStep, IngestionStep

\* The analyst sees the whole confirmed result or nothing of it, and nothing of a request
\* that was gone before the last frame (docs/decisions/0005-result-stream-framing.md).
THEOREM StreamsWholeResults == Spec => ImplementsWholeResult
<1> QED BY InitWhole, NextWhole, StreamInvariant, Published, ConfirmedFirst, PTL
        DEF Spec, ImplementsWholeResult, Whole!Spec

=============================================================================
