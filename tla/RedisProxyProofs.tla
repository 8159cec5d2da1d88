-------------------------- MODULE RedisProxyProofs --------------------------
(***************************************************************************)
(* Proofs about RedisProxy, for any number of requests, any losses of the  *)
(* connection and any commands that hiredis refuses.                       *)
(***************************************************************************)
EXTENDS RedisProxy, SequenceTheorems, TLAPS

-----------------------------------------------------------------------------
(* Lemmas about sequences *)

\* The parts of a sequence cut behind its first n elements.
LEMMA Cut ==
  ASSUME NEW S, NEW q \in Seq(S), NEW n \in 0 .. Len(q)
  PROVE  /\ SubSeq(q, 1, n) \in Seq(S) /\ SubSeq(q, n + 1, Len(q)) \in Seq(S)
         /\ SubSeq(q, 1, n) \o SubSeq(q, n + 1, Len(q)) = q
<1>1. Len(q) \in Nat /\ \A i \in 1 .. Len(q) : q[i] \in S BY LenProperties, ElementOfSeq
<1>2. 1 \in 1 .. Len(q) + 1 /\ n \in 1 - 1 .. Len(q) /\ Len(q) \in n .. Len(q)
  BY <1>1
<1>3. SubSeq(q, 1, n) \o SubSeq(q, n + 1, Len(q)) = SubSeq(q, 1, Len(q))
  BY <1>2, ConcatAdjacentSubSeq
<1>4. SubSeq(q, 1, Len(q)) = q BY SubSeqFull
<1>5. SubSeq(q, 1, n) \in Seq(S) /\ SubSeq(q, n + 1, Len(q)) \in Seq(S)
  BY <1>1, SubSeqProperties
<1>6. QED BY <1>3, <1>4, <1>5

\* Head and tail, position by position.
LEMMA HeadTail ==
  ASSUME NEW S, NEW q \in Seq(S), q # << >>
  PROVE  /\ Head(q) = q[1] /\ q[1] \in S
         /\ Tail(q) \in Seq(S) /\ Len(Tail(q)) = Len(q) - 1
         /\ \A i \in 1 .. Len(q) - 1 : i + 1 \in 1 .. Len(q) /\ Tail(q)[i] = q[i + 1]
OBVIOUS

\* Requests made earlier are requests.
LEMMA Grows ==
  ASSUME NEW m \in Nat, NEW q \in Seq(1 .. m)
  PROVE  /\ q \in Seq(Nat)
         /\ q \in Seq(1 .. m + 1) /\ Append(q, m + 1) \in Seq(1 .. m + 1)
<1>1. \A i \in 1 .. Len(q) : q[i] \in 1 .. m + 1
  BY ElementOfSeq
<1>2. Len(q) \in Nat /\ q = [i \in 1 .. Len(q) |-> q[i]] BY LenProperties
<1>3. q \in Seq(1 .. m + 1) BY <1>1, <1>2
<1>4. q \in Seq(Nat) BY <1>1, <1>2
<1>5. QED BY <1>3, <1>4

\* Concatenation as an operator that is not expanded.
Cat(s, t) == s \o t

LEMMA CatAssociative ==
  ASSUME NEW S, NEW s \in Seq(S), NEW t \in Seq(S), NEW u \in Seq(S)
  PROVE  Cat(Cat(s, t), u) = Cat(s, Cat(t, u))
BY ConcatAssociative DEF Cat

LEMMA CatFacts ==
  /\ \A s, t \in Seq(Nat) : Cat(s, t) \in Seq(Nat)
  /\ \A s, t, u \in Seq(Nat) : Cat(Cat(s, t), u) = Cat(s, Cat(t, u))
  /\ \A s \in Seq(Nat) : Cat(<< >>, s) = s
<1>1. ASSUME NEW s \in Seq(Nat), NEW t \in Seq(Nat)
      PROVE  Cat(s, t) \in Seq(Nat) /\ Cat(<< >>, s) = s
  BY ConcatProperties, ConcatEmptySeq DEF Cat
<1>2. ASSUME NEW s \in Seq(Nat), NEW t \in Seq(Nat), NEW u \in Seq(Nat)
      PROVE  Cat(Cat(s, t), u) = Cat(s, Cat(t, u))
  BY CatAssociative
<1>3. QED BY <1>1, <1>2

-----------------------------------------------------------------------------
(* Lemmas about the commands on their way, for sequences a, b, d and e that *)
(* stand for got, input, wire and output.                                   *)

Way(a, b, d, e) == Cat(a, Cat(b, Cat(d, e)))

\* The way is a sequence of requests, as long as its parts together.
LEMMA WayType ==
  ASSUME NEW a \in Seq(Nat), NEW b \in Seq(Nat), NEW d \in Seq(Nat), NEW e \in Seq(Nat)
  PROVE  /\ Way(a, b, d, e) \in Seq(Nat)
         /\ Len(Way(a, b, d, e)) = Len(a) + (Len(b) + (Len(d) + Len(e)))
<1>1. \A s, t \in Seq(Nat) : Len(Cat(s, t)) = Len(s) + Len(t)
  BY ConcatProperties DEF Cat
<1>2. Cat(d, e) \in Seq(Nat) BY CatFacts
<1>3. Cat(b, Cat(d, e)) \in Seq(Nat) BY <1>2, CatFacts
<1>4. Way(a, b, d, e) \in Seq(Nat) BY <1>3, CatFacts DEF Way
<1>5. Len(Cat(d, e)) = Len(d) + Len(e) BY <1>1
<1>6. Len(Cat(b, Cat(d, e))) = Len(b) + Len(Cat(d, e)) BY <1>1, <1>2
<1>7. Len(Way(a, b, d, e)) = Len(a) + Len(Cat(b, Cat(d, e))) BY <1>1, <1>3 DEF Way
<1>8. QED BY <1>4, <1>5, <1>6, <1>7

\* A new command stands at the end of the way.
LEMMA WayGrow ==
  ASSUME NEW a \in Seq(Nat), NEW b \in Seq(Nat), NEW d \in Seq(Nat), NEW e \in Seq(Nat),
         NEW y \in Seq(Nat)
  PROVE  Way(a, b, d, Cat(e, y)) = Cat(Way(a, b, d, e), y)
<1>1. Cat(d, e) \in Seq(Nat) BY CatFacts
<1>2. Cat(b, Cat(d, e)) \in Seq(Nat) BY <1>1, CatFacts
<1>3. Cat(d, Cat(e, y)) = Cat(Cat(d, e), y) BY CatFacts
<1>4. Cat(b, Cat(Cat(d, e), y)) = Cat(Cat(b, Cat(d, e)), y) BY <1>1, CatFacts
<1>5. Cat(a, Cat(Cat(b, Cat(d, e)), y)) = Cat(Cat(a, Cat(b, Cat(d, e))), y)
  BY <1>2, CatFacts
<1>6. QED BY <1>3, <1>4, <1>5 DEF Way

\* Writing commands, an answer and reading replies leave the way as it is.
LEMMA WayWrite ==
  ASSUME NEW a \in Seq(Nat), NEW b \in Seq(Nat), NEW d \in Seq(Nat),
         NEW x \in Seq(Nat), NEW y \in Seq(Nat)
  PROVE  Way(a, b, Cat(d, x), y) = Way(a, b, d, Cat(x, y))
BY CatFacts DEF Way

LEMMA WayAnswer ==
  ASSUME NEW a \in Seq(Nat), NEW b \in Seq(Nat), NEW x \in Seq(Nat),
         NEW y \in Seq(Nat), NEW e \in Seq(Nat)
  PROVE  Way(a, Cat(b, x), y, e) = Way(a, b, Cat(x, y), e)
<1>1. Cat(y, e) \in Seq(Nat) BY CatFacts
<1>2. Cat(Cat(x, y), e) = Cat(x, Cat(y, e)) BY CatFacts
<1>3. Cat(Cat(b, x), Cat(y, e)) = Cat(b, Cat(x, Cat(y, e))) BY <1>1, CatFacts
<1>4. QED BY <1>2, <1>3 DEF Way

LEMMA WayRead ==
  ASSUME NEW x \in Seq(Nat), NEW y \in Seq(Nat), NEW d \in Seq(Nat), NEW e \in Seq(Nat)
  PROVE  Way(x, y, d, e) = Way(<< >>, Cat(x, y), d, e)
<1>1. Cat(d, e) \in Seq(Nat) BY CatFacts
<1>2. Cat(y, Cat(d, e)) \in Seq(Nat) /\ Cat(Cat(x, y), Cat(d, e)) \in Seq(Nat)
  <2>1. Cat(x, y) \in Seq(Nat) BY CatFacts
  <2>2. QED BY <1>1, <2>1, CatFacts
<1>3. Cat(Cat(x, y), Cat(d, e)) = Cat(x, Cat(y, Cat(d, e))) BY <1>1, CatFacts
<1>4. Cat(<< >>, Cat(Cat(x, y), Cat(d, e))) = Cat(Cat(x, y), Cat(d, e)) BY <1>2, CatFacts
<1>5. QED BY <1>3, <1>4 DEF Way

\* The first reply that has been read is the first of the way.
LEMMA WayHead ==
  ASSUME NEW a \in Seq(Nat), NEW b \in Seq(Nat), NEW d \in Seq(Nat), NEW e \in Seq(Nat), a # << >>
  PROVE  /\ Way(a, b, d, e) # << >>
         /\ Head(Way(a, b, d, e)) = Head(a)
         /\ Tail(Way(a, b, d, e)) = Way(Tail(a), b, d, e)
<1> DEFINE r == Cat(b, Cat(d, e))
<1>1. r \in Seq(Nat)
  <2>1. Cat(d, e) \in Seq(Nat) BY CatFacts
  <2>2. QED BY <2>1, CatFacts
<1>2. Way(a, b, d, e) = a \o r /\ Way(Tail(a), b, d, e) = Tail(a) \o r
  BY DEF Way, Cat
<1> HIDE DEF r
<1>3. /\ Len(a \o r) = Len(a) + Len(r) /\ Len(Tail(a) \o r) = Len(Tail(a)) + Len(r)
      /\ a \o r \in Seq(Nat) /\ Tail(a) \o r \in Seq(Nat) /\ Tail(a) \in Seq(Nat)
      /\ Len(Tail(a)) = Len(a) - 1 /\ Len(a) \in Nat \ {0} /\ Len(r) \in Nat
  BY <1>1
<1>4. \A i \in 1 .. Len(a) + Len(r) : (a \o r)[i] = IF i <= Len(a) THEN a[i] ELSE r[i - Len(a)]
  BY <1>1, <1>3
<1>5. \A i \in 1 .. Len(a) - 1 + Len(r) :
        (Tail(a) \o r)[i] = IF i <= Len(a) - 1 THEN a[i + 1] ELSE r[i - (Len(a) - 1)]
  BY <1>1, <1>3
<1>6. \A i \in 1 .. Len(a) - 1 + Len(r) : Tail(a \o r)[i] = (Tail(a) \o r)[i]
  <2>1. TAKE i \in 1 .. Len(a) - 1 + Len(r)
  <2>2. i + 1 \in 1 .. Len(a) + Len(r) /\ (i + 1) - Len(a) = i - (Len(a) - 1)
        /\ (i + 1 <= Len(a) <=> i <= Len(a) - 1)
    BY <1>3
  <2>3. Tail(a \o r)[i] = (a \o r)[i + 1]
    <3>1. \A q \in Seq(Nat) : \A k \in 1 .. Len(q) - 1 : Tail(q)[k] = q[k + 1]
      OBVIOUS
    <3>2. i \in 1 .. Len(a \o r) - 1 BY <1>3
    <3>3. QED BY <1>3, <3>1, <3>2
  <2>4. QED BY <2>2, <2>3, <1>4, <1>5
<1>7. Tail(a \o r) \in Seq(Nat) /\ Len(Tail(a \o r)) = Len(a) - 1 + Len(r) BY <1>3
<1>8. Tail(a \o r) = Tail(a) \o r BY <1>3, <1>6, <1>7, SeqEqual
<1>9. a \o r # << >> /\ Head(a \o r) = Head(a) BY <1>3, <1>4
<1>10. QED BY <1>2, <1>8, <1>9

\* The same for all sequences, each fact under a name.
SendFact(a, b, d, e) ==
  \A x \in Nat : Way(a, b, d, Append(e, x)) = Append(Way(a, b, d, e), x)
HeadFact(a, b, d, e) ==
  a # << >> => /\ Way(a, b, d, e) # << >>
               /\ Head(Way(a, b, d, e)) = Head(a)
               /\ Tail(Way(a, b, d, e)) = Way(Tail(a), b, d, e)
AnswerFact(a, b, e) ==
  \A x, y \in Seq(Nat) : Way(a, Cat(b, x), y, e) = Way(a, b, Cat(x, y), e)

LEMMA WayFacts ==
  /\ \A a, b, d, e \in Seq(Nat) : SendFact(a, b, d, e) /\ HeadFact(a, b, d, e)
  /\ \A a, b, e \in Seq(Nat) : AnswerFact(a, b, e)
<1>1. ASSUME NEW a \in Seq(Nat), NEW b \in Seq(Nat), NEW d \in Seq(Nat), NEW e \in Seq(Nat)
      PROVE  SendFact(a, b, d, e) /\ HeadFact(a, b, d, e) /\ AnswerFact(a, b, e)
  <2>1. ASSUME NEW x \in Nat
        PROVE  Way(a, b, d, Append(e, x)) = Append(Way(a, b, d, e), x)
    <3>1. <<x>> \in Seq(Nat) OBVIOUS
    <3>2. \A q \in Seq(Nat) : Append(q, x) = Cat(q, <<x>>) BY DEF Cat
    <3>3. Way(a, b, d, e) \in Seq(Nat) BY WayType
    <3>4. \A y \in Seq(Nat) : Way(a, b, d, Cat(e, y)) = Cat(Way(a, b, d, e), y) BY WayGrow
    <3>5. Way(a, b, d, Cat(e, <<x>>)) = Cat(Way(a, b, d, e), <<x>>) BY <3>1, <3>4
    <3>6. QED BY <3>2, <3>3, <3>5
  <2>2. SendFact(a, b, d, e) BY <2>1 DEF SendFact
  <2>3. HeadFact(a, b, d, e)
    <3>1. ASSUME a # << >>
          PROVE  /\ Way(a, b, d, e) # << >>
                 /\ Head(Way(a, b, d, e)) = Head(a)
                 /\ Tail(Way(a, b, d, e)) = Way(Tail(a), b, d, e)
      BY <3>1, WayHead
    <3>2. QED BY <3>1 DEF HeadFact
  <2>4. ASSUME NEW x \in Seq(Nat), NEW y \in Seq(Nat)
        PROVE  Way(a, Cat(b, x), y, e) = Way(a, b, Cat(x, y), e)
    BY WayAnswer
  <2>5. AnswerFact(a, b, e) BY <2>4 DEF AnswerFact
  <2>6. QED BY <2>2, <2>3, <2>5
<1>2. << >> \in Seq(Nat) OBVIOUS
<1>3. QED BY <1>1, <1>2

-----------------------------------------------------------------------------
(* Lemmas about the queue of callbacks q after s requests, n of them        *)
(* refused, when the commands w are on their way.                           *)

Matched(q, s, n, w) ==
  /\ Len(q) = Len(w) + n
  /\ \A i \in 1 .. Len(q) : q[i] = s - Len(q) + i
  /\ \A i \in 1 .. Len(w) : q[i] <= w[i] /\ w[i] <= q[i] + n

\* A request that is taken joins both, one that is refused the queue alone, and a
\* reply takes the first of both away.
LEMMA MatchedSend ==
  ASSUME NEW s \in Nat, NEW n \in Nat, NEW q \in Seq(1 .. s), NEW w \in Seq(Nat),
         Matched(q, s, n, w)
  PROVE  Matched(Append(q, s + 1), s + 1, n, Append(w, s + 1))
<1> DEFINE q1 == Append(q, s + 1)
           w1 == Append(w, s + 1)
<1>1. /\ Len(q) \in Nat /\ Len(w) \in Nat /\ Len(q1) = Len(q) + 1 /\ Len(w1) = Len(w) + 1
      /\ \A i \in 1 .. Len(q) : q1[i] = q[i] /\ q[i] \in Nat
      /\ \A i \in 1 .. Len(w) : w1[i] = w[i] /\ w[i] \in Nat
      /\ q1[Len(q) + 1] = s + 1 /\ w1[Len(w) + 1] = s + 1
  OBVIOUS
<1> HIDE DEF q1, w1
<1>2. \A i \in 1 .. Len(q1) : q1[i] = s + 1 - Len(q1) + i
  <2>1. TAKE i \in 1 .. Len(q1)
  <2>2. CASE i \in 1 .. Len(q) BY <1>1, <2>2 DEF Matched
  <2>3. CASE i = Len(q) + 1 BY <1>1, <2>3
  <2>4. QED BY <1>1, <2>2, <2>3
<1>3. \A i \in 1 .. Len(w1) : q1[i] <= w1[i] /\ w1[i] <= q1[i] + n
  <2>1. TAKE i \in 1 .. Len(w1)
  <2>2. CASE i <= Len(w) BY <1>1, <2>2 DEF Matched
  <2>3. CASE i = Len(w) + 1
    <3>1. Len(q1) = i + n BY <1>1, <2>3 DEF Matched
    <3>2. i \in 1 .. Len(q1) /\ w1[i] = s + 1 BY <1>1, <2>3, <3>1
    <3>3. q1[i] = s + 1 - (i + n) + i BY <1>2, <3>1, <3>2
    <3>4. i \in Nat BY <2>1
    <3>5. QED BY <3>2, <3>3, <3>4
  <2>4. QED BY <1>1, <2>2, <2>3
<1>4. Len(q1) = Len(w1) + n BY <1>1 DEF Matched
<1>5. Matched(q1, s + 1, n, w1) BY <1>2, <1>3, <1>4 DEF Matched
<1>6. QED BY <1>5 DEF q1, w1

LEMMA MatchedRefuse ==
  ASSUME NEW s \in Nat, NEW n \in Nat, NEW q \in Seq(1 .. s), NEW w \in Seq(Nat),
         Matched(q, s, n, w)
  PROVE  Matched(Append(q, s + 1), s + 1, n + 1, w)
<1> DEFINE q1 == Append(q, s + 1)
<1>1. /\ Len(q) \in Nat /\ Len(w) \in Nat /\ Len(q1) = Len(q) + 1
      /\ \A i \in 1 .. Len(q) : q1[i] = q[i] /\ q[i] \in Nat
      /\ \A i \in 1 .. Len(w) : w[i] \in Nat
      /\ q1[Len(q) + 1] = s + 1
  OBVIOUS
<1> HIDE DEF q1
<1>2. \A i \in 1 .. Len(q1) : q1[i] = s + 1 - Len(q1) + i
  <2>1. TAKE i \in 1 .. Len(q1)
  <2>2. CASE i \in 1 .. Len(q) BY <1>1, <2>2 DEF Matched
  <2>3. CASE i = Len(q) + 1 BY <1>1, <2>3
  <2>4. QED BY <1>1, <2>2, <2>3
<1>3. \A i \in 1 .. Len(w) : q1[i] <= w[i] /\ w[i] <= q1[i] + (n + 1)
  <2>1. TAKE i \in 1 .. Len(w)
  <2>2. i \in 1 .. Len(q) /\ q[i] <= w[i] /\ w[i] <= q[i] + n
    <3>1. Len(q) = Len(w) + n BY DEF Matched
    <3>2. i \in 1 .. Len(q) BY <1>1, <3>1
    <3>3. QED BY <3>2 DEF Matched
  <2>3. q1[i] = q[i] /\ q[i] \in Nat /\ w[i] \in Nat BY <1>1, <2>2
  <2>4. \A x, y \in Nat : x <= y /\ y <= x + n => x <= y /\ y <= x + (n + 1)
    OBVIOUS
  <2>5. QED BY <2>2, <2>3, <2>4
<1>4. Len(q1) = Len(w) + (n + 1) BY <1>1 DEF Matched
<1>5. Matched(q1, s + 1, n + 1, w) BY <1>2, <1>3, <1>4 DEF Matched
<1>6. QED BY <1>5 DEF q1

LEMMA MatchedReply ==
  ASSUME NEW s \in Nat, NEW n \in Nat, NEW q \in Seq(1 .. s), NEW w \in Seq(Nat),
         Matched(q, s, n, w), w # << >>
  PROVE  /\ q # << >> /\ Head(q) \in 1 .. s /\ Tail(q) \in Seq(1 .. s)
         /\ Head(q) <= Head(w) /\ Head(w) <= Head(q) + n
         /\ Matched(Tail(q), s, n, Tail(w))
<1>1. Len(w) \in Nat \ {0} /\ Len(q) = Len(w) + n /\ Len(q) \in Nat \ {0} /\ q # << >>
  BY DEF Matched
<1>2. /\ Head(q) = q[1] /\ q[1] \in 1 .. s /\ Tail(q) \in Seq(1 .. s)
      /\ Len(Tail(q)) = Len(q) - 1
      /\ \A i \in 1 .. Len(q) - 1 : i + 1 \in 1 .. Len(q) /\ Tail(q)[i] = q[i + 1]
  BY <1>1, HeadTail
<1>3. /\ Head(w) = w[1] /\ w[1] \in Nat /\ Len(Tail(w)) = Len(w) - 1
      /\ \A i \in 1 .. Len(w) - 1 : i + 1 \in 1 .. Len(w) /\ Tail(w)[i] = w[i + 1]
  BY <1>1, HeadTail
<1>4. (\A i \in 1 .. Len(q) : q[i] \in Nat) /\ \A i \in 1 .. Len(w) : w[i] \in Nat
  BY ElementOfSeq
<1>5. Head(q) <= Head(w) /\ Head(w) <= Head(q) + n BY <1>1, <1>2, <1>3, <1>4 DEF Matched
<1> DEFINE q1 == Tail(q)
           w1 == Tail(w)
<1>6. /\ Len(q1) = Len(q) - 1 /\ Len(w1) = Len(w) - 1
      /\ \A i \in 1 .. Len(q) - 1 : i + 1 \in 1 .. Len(q) /\ q1[i] = q[i + 1]
      /\ \A i \in 1 .. Len(w) - 1 : i + 1 \in 1 .. Len(w) /\ w1[i] = w[i + 1]
  BY <1>2, <1>3
<1> HIDE DEF q1, w1
<1>7. \A i \in 1 .. Len(q1) : q1[i] = s - Len(q1) + i
  <2>1. TAKE i \in 1 .. Len(q1)
  <2>2. i + 1 \in 1 .. Len(q) /\ q1[i] = q[i + 1] BY <1>1, <1>6
  <2>3. q[i + 1] = s - Len(q) + (i + 1) BY <2>2 DEF Matched
  <2>4. QED BY <1>1, <1>6, <2>2, <2>3
<1>8. \A i \in 1 .. Len(w1) : q1[i] <= w1[i] /\ w1[i] <= q1[i] + n
  <2>1. TAKE i \in 1 .. Len(w1)
  <2>2. i \in 1 .. Len(w) - 1 /\ i \in 1 .. Len(q) - 1 BY <1>1, <1>6
  <2>3. i + 1 \in 1 .. Len(w) /\ w1[i] = w[i + 1] /\ q1[i] = q[i + 1] BY <1>6, <2>2
  <2>4. q[i + 1] <= w[i + 1] /\ w[i + 1] <= q[i + 1] + n BY <2>3 DEF Matched
  <2>5. QED BY <2>3, <2>4
<1>9. Len(q1) = Len(w1) + n BY <1>1, <1>6
<1>10. Matched(q1, s, n, w1) BY <1>7, <1>8, <1>9 DEF Matched
<1>11. QED BY <1>1, <1>2, <1>5, <1>10 DEF q1, w1

-----------------------------------------------------------------------------
(* The parts of the invariant *)

Lists == entries = Len(Pipe) /\ Matched(callbacks, sent, refused, Pipe) /\ RepliesMatch
Loops == FlagsFollowLoop /\ NoEventAfterFree /\ WatchersAsked

LEMMA Parts == TypeOK => (IInv <=> Lists /\ Loops)
BY DEF IInv, Lists, Loops, Matched, ListsCount, QueueDense, Shifted

LEMMA PipeIsWay ==
  /\ Pipe = Way(got, input, wire, output)
  /\ Pipe' = Way(got', input', wire', output')
BY DEF Pipe, Way, Cat

\* Everything under way is a sequence of natural numbers.
LEMMA NatSeqs ==
  ASSUME TypeOK
  PROVE  /\ got \in Seq(Nat) /\ input \in Seq(Nat) /\ wire \in Seq(Nat) /\ output \in Seq(Nat)
         /\ Pipe \in Seq(Nat)
<1>1. sent \in Nat BY DEF TypeOK
<1>2. \A q \in Seq(1 .. sent) : q \in Seq(Nat) BY <1>1, Grows
<1>3. got \in Seq(Nat) /\ input \in Seq(Nat) /\ wire \in Seq(Nat) /\ output \in Seq(Nat)
  BY <1>2 DEF TypeOK, Requests
<1>4. QED BY <1>3, WayType, PipeIsWay

\* Where no request is made, taken or answered, the lists keep their lengths.
LEMMA ListsStay ==
  ASSUME TypeOK, Lists, Pipe' = Pipe, UNCHANGED <<callbacks, sent, refused, entries>>,
         call' = call \/ call' = None
  PROVE  Lists'
BY DEF Lists, RepliesMatch, Matched

LEMMA ListsInvariant ==
  ASSUME TypeOK, Lists, [Next]_vars
  PROVE  Lists'
<1>1. /\ got \in Seq(Nat) /\ input \in Seq(Nat) /\ wire \in Seq(Nat) /\ output \in Seq(Nat)
      /\ Pipe \in Seq(Nat) /\ sent \in Nat /\ refused \in Nat /\ entries \in Nat
      /\ callbacks \in Seq(1 .. sent)
  BY NatSeqs DEF TypeOK, Requests
<1>a. got \in Seq(Nat) /\ input \in Seq(Nat) /\ wire \in Seq(Nat) /\ output \in Seq(Nat)
  BY <1>1
<1>b. /\ SendFact(got, input, wire, output) /\ HeadFact(got, input, wire, output)
      /\ AnswerFact(got, input, output)
  BY <1>a, WayFacts
<1>2. CASE connect
  BY <1>2, ListsStay DEF connect, request, hiredis, redis, Pipe
<1>3. CASE send_request
  <2>1. /\ callbacks' = Append(callbacks, sent + 1) /\ sent' = sent + 1 /\ entries' = entries + 1
        /\ UNCHANGED <<refused, call, got, input, wire>> /\ output' = Append(output, sent + 1)
    BY <1>3 DEF send_request, redis
  <2>2. Pipe' = Append(Pipe, sent + 1)
    <3>1. \A x \in Nat : Way(got, input, wire, Append(output, x))
                            = Append(Way(got, input, wire, output), x)
      BY <1>b DEF SendFact
    <3>2. sent + 1 \in Nat BY <1>1
    <3>3. Way(got, input, wire, output') = Append(Way(got, input, wire, output), sent + 1)
      BY <2>1, <3>1, <3>2
    <3>4. QED BY <2>1, <3>3, PipeIsWay
  <2>3. Matched(callbacks', sent', refused', Pipe')
    <3>1. Matched(Append(callbacks, sent + 1), sent + 1, refused, Append(Pipe, sent + 1))
      BY <1>1, MatchedSend DEF Lists
    <3>2. QED BY <2>1, <2>2, <3>1
  <2>4. Len(Pipe') = Len(Pipe) + 1 BY <1>1, <2>2
  <2>5. RepliesMatch' BY <2>1 DEF Lists, RepliesMatch
  <2>6. QED BY <2>1, <2>3, <2>4, <2>5 DEF Lists
<1>4. CASE send_request_malformed \/ send_request_dangling
  <2>1. /\ callbacks' = Append(callbacks, sent + 1) /\ sent' = sent + 1 /\ refused' = refused + 1
        /\ UNCHANGED <<entries, call, got, input, wire, output>>
    BY <1>4 DEF send_request_malformed, send_request_dangling, redis, hiredis
  <2>2. Pipe' = Pipe BY <2>1 DEF Pipe
  <2>3. Matched(callbacks', sent', refused', Pipe')
    <3>1. Matched(Append(callbacks, sent + 1), sent + 1, refused + 1, Pipe)
      BY <1>1, MatchedRefuse DEF Lists
    <3>2. QED BY <2>1, <2>2, <3>1
  <2>4. RepliesMatch'
    <3>1. call # None => call.fn \in Nat /\ call.reply \in Nat BY <1>1 DEF TypeOK, Requests
    <3>2. call' = call /\ refused' = refused + 1 /\ refused \in Nat BY <1>1, <2>1
    <3>3. RepliesMatch BY <1>1 DEF Lists
    <3>4. QED BY <3>1, <3>2, <3>3 DEF RepliesMatch
  <2>5. QED BY <2>1, <2>2, <2>3, <2>4 DEF Lists
<1>5. CASE Poll
  BY <1>5, ListsStay DEF Poll, request, hiredis, redis, Pipe
<1>6. CASE on_write
  <2>1. PICK n \in IF output = << >> THEN {0} ELSE 1 .. Len(output) :
          /\ output' = SubSeq(output, n + 1, Len(output))
          /\ wire' = wire \o SubSeq(output, 1, n)
    BY <1>6 DEF on_write
  <2>2. n \in 0 .. Len(output) BY <1>1, <2>1
  <2> DEFINE x == SubSeq(output, 1, n)
             y == SubSeq(output, n + 1, Len(output))
  <2>3. x \in Seq(Nat) /\ y \in Seq(Nat) /\ Cat(x, y) = output BY <1>1, <2>2, Cut DEF Cat
  <2>4. output' = y /\ wire' = Cat(wire, x) BY <2>1 DEF Cat
  <2> HIDE DEF x, y
  <2>5. UNCHANGED <<got, input, callbacks, sent, refused, entries, call>>
    BY <1>6 DEF on_write, request
  <2>6. Pipe' = Pipe BY <1>1, <2>3, <2>4, <2>5, WayWrite, PipeIsWay
  <2>7. QED BY <2>5, <2>6, ListsStay
<1>7. CASE on_read
  <2>1. PICK n \in 1 .. Len(input) :
          got' = SubSeq(input, 1, n) /\ input' = SubSeq(input, n + 1, Len(input))
    BY <1>7 DEF on_read
  <2>2. n \in 0 .. Len(input) BY <1>1, <2>1
  <2> DEFINE x == SubSeq(input, 1, n)
             y == SubSeq(input, n + 1, Len(input))
  <2>3. x \in Seq(Nat) /\ y \in Seq(Nat) /\ Cat(x, y) = input BY <1>1, <2>2, Cut DEF Cat
  <2>4. got' = x /\ input' = y BY <2>1
  <2> HIDE DEF x, y
  <2>5. UNCHANGED <<wire, output, callbacks, sent, refused, entries, call>> /\ got = << >>
    BY <1>7 DEF on_read, request, Idle
  <2>6. Pipe' = Pipe BY <1>1, <2>3, <2>4, <2>5, WayRead, PipeIsWay
  <2>7. QED BY <2>5, <2>6, ListsStay
<1>8. CASE redis_callback
  <2>1. /\ call' = [fn |-> Head(callbacks), reply |-> Head(got)] /\ got # << >>
        /\ callbacks' = Tail(callbacks) /\ got' = Tail(got) /\ entries' = entries - 1
        /\ UNCHANGED <<sent, refused, input, wire, output>>
    BY <1>8 DEF redis_callback, redis
  <2>a. got # << >> BY <2>1
  <2>2. Pipe # << >> /\ Head(Pipe) = Head(got) /\ Pipe' = Tail(Pipe)
    <3>1. /\ Way(got, input, wire, output) # << >>
          /\ Head(Way(got, input, wire, output)) = Head(got)
          /\ Tail(Way(got, input, wire, output)) = Way(Tail(got), input, wire, output)
      BY <1>b, <2>a DEF HeadFact
    <3>2. Pipe' = Way(Tail(got), input, wire, output) BY <2>1, PipeIsWay
    <3>3. QED BY <3>1, <3>2, PipeIsWay
  <2>3. /\ Head(callbacks) <= Head(Pipe) /\ Head(Pipe) <= Head(callbacks) + refused
        /\ Matched(Tail(callbacks), sent, refused, Tail(Pipe))
    BY <1>1, <2>2, MatchedReply DEF Lists
  <2>4. RepliesMatch' BY <2>1, <2>2, <2>3 DEF RepliesMatch
  <2>5. Len(Pipe') = Len(Pipe) - 1 BY <1>1, <2>2
  <2>6. QED BY <2>1, <2>2, <2>3, <2>4, <2>5 DEF Lists
<1>9. CASE Return
  BY <1>9, ListsStay DEF Return, request, redis, Pipe
<1>10. CASE Answer
  <2>1. /\ wire # << >> /\ input' = Append(input, Head(wire)) /\ wire' = Tail(wire)
        /\ UNCHANGED <<got, output, callbacks, sent, refused, entries, call>>
    BY <1>10 DEF Answer, request, hiredis
  <2> DEFINE x == <<Head(wire)>>
  <2>2. /\ x \in Seq(Nat) /\ Tail(wire) \in Seq(Nat)
        /\ Cat(x, Tail(wire)) = wire /\ input' = Cat(input, x)
    <3>1. Head(wire) \in Nat /\ Tail(wire) \in Seq(Nat) BY <1>1, <2>1, HeadTail
    <3>2. x \in Seq(Nat) BY <3>1
    <3>3. input' = input \o x
      <4>1. \A q \in Seq(Nat) : \A y \in Nat : Append(q, y) = q \o <<y>> OBVIOUS
      <4>2. QED BY <1>1, <2>1, <3>1, <4>1
    <3>4. x \o Tail(wire) = wire BY <1>1, <2>1
    <3>5. QED BY <3>1, <3>2, <3>3, <3>4 DEF Cat
  <2> HIDE DEF x
  <2>b. x \in Seq(Nat) /\ Tail(wire) \in Seq(Nat) BY <2>2
  <2>3. Pipe' = Pipe
    <3>1. Way(got, Cat(input, x), Tail(wire), output) = Way(got, input, Cat(x, Tail(wire)), output)
      BY <1>b, <2>b DEF AnswerFact
    <3>2. Pipe' = Way(got, Cat(input, x), Tail(wire), output) BY <2>1, <2>2, PipeIsWay
    <3>3. QED BY <2>2, <3>1, <3>2, PipeIsWay
  <2>4. QED BY <2>1, <2>3, ListsStay
<1>11. CASE on_write_fails \/ on_read_fails \/ Destroy \/ Close \/ UNCHANGED vars
  BY <1>11, ListsStay
  DEF on_write_fails, on_read_fails, Destroy, Disconnect, Close, request, hiredis, redis, vars, Pipe
<1>12. QED
  BY <1>2, <1>3, <1>4, <1>5, <1>6, <1>7, <1>8, <1>9, <1>10, <1>11 DEF Next, Thread

LEMMA TypeInvariant ==
  ASSUME TypeOK, Lists, [Next]_vars
  PROVE  TypeOK'
<1> USE DEF TypeOK, Requests, Events
<1>1. CASE connect
  BY <1>1 DEF connect, request, hiredis, redis, SetWatchers, Started, Stopped
<1>2. CASE send_request \/ send_request_malformed \/ send_request_dangling
  <2>1. /\ sent' = sent + 1 /\ callbacks' = Append(callbacks, sent + 1)
        /\ output' = output \/ output' = Append(output, sent + 1)
        /\ entries' \in {entries, entries + 1} /\ refused' \in {refused, refused + 1}
        /\ UNCHANGED <<got, call, wire, input, peer, connected, context>>
        /\ down' \in BOOLEAN
    BY <1>2 DEF send_request, send_request_malformed, send_request_dangling, redis, hiredis
  <2>2. /\ reading' \in BOOLEAN /\ writting' \in BOOLEAN
        /\ watched' \subseteq Events /\ due' \subseteq Events
    BY <1>2 DEF send_request, send_request_malformed, send_request_dangling, loop,
                SetWatchers, Started, Stopped
  <2>3. /\ callbacks' \in Seq(1 .. sent') /\ output' \in Seq(1 .. sent')
        /\ got' \in Seq(1 .. sent') /\ wire' \in Seq(1 .. sent') /\ input' \in Seq(1 .. sent')
    <3>1. sent \in Nat OBVIOUS
    <3>2. \A q \in Seq(1 .. sent) : q \in Seq(1 .. sent + 1) /\ Append(q, sent + 1) \in Seq(1 .. sent + 1)
      BY <3>1, Grows
    <3>3. QED BY <2>1, <3>2
  <2>4. call' \in [fn : 1 .. sent', reply : 1 .. sent'] \cup {None} BY <2>1
  <2>5. sent' \in Nat /\ refused' \in Nat /\ entries' \in Nat BY <2>1
  <2>6. QED BY <2>1, <2>2, <2>3, <2>4, <2>5
<1>3. CASE Poll
  BY <1>3 DEF Poll, request, hiredis, redis, Ready
<1>4. CASE on_write
  <2>1. PICK n \in IF output = << >> THEN {0} ELSE 1 .. Len(output) :
          /\ output' = SubSeq(output, n + 1, Len(output))
          /\ wire' = wire \o SubSeq(output, 1, n)
    BY <1>4 DEF on_write
  <2>2. output \in Seq(1 .. sent) /\ wire \in Seq(1 .. sent) /\ n \in 0 .. Len(output) BY <2>1
  <2>3. output' \in Seq(1 .. sent) /\ SubSeq(output, 1, n) \in Seq(1 .. sent)
    BY <2>1, <2>2, Cut
  <2>4. wire' \in Seq(1 .. sent) BY <2>1, <2>2, <2>3, ConcatProperties
  <2>5. /\ UNCHANGED <<connected, callbacks, sent, refused, down, entries, got, call, peer, input>>
        /\ context' = "up"
        /\ reading' \in BOOLEAN /\ writting' \in BOOLEAN
        /\ watched' \subseteq Events /\ due' \subseteq Events
    BY <1>4 DEF on_write, request, SetWatchers, Started, Stopped
  <2>6. QED BY <2>3, <2>4, <2>5
<1>5. CASE on_read
  <2>1. PICK n \in 1 .. Len(input) :
          got' = SubSeq(input, 1, n) /\ input' = SubSeq(input, n + 1, Len(input))
    BY <1>5 DEF on_read
  <2>2. input \in Seq(1 .. sent) /\ n \in 0 .. Len(input) BY <2>1
  <2>3. got' \in Seq(1 .. sent) /\ input' \in Seq(1 .. sent) BY <2>1, <2>2, Cut
  <2>4. /\ UNCHANGED <<context, connected, callbacks, sent, refused, down, entries, output, call, peer, wire>>
        /\ reading' \in BOOLEAN /\ writting' \in BOOLEAN
        /\ watched' \subseteq Events /\ due' \subseteq Events
    BY <1>5 DEF on_read, request, SetWatchers, Started, Stopped
  <2>5. QED BY <2>3, <2>4
<1>6. CASE redis_callback
  <2>1. /\ call' = [fn |-> Head(callbacks), reply |-> Head(got)] /\ got # << >>
        /\ callbacks' = Tail(callbacks) /\ got' = Tail(got) /\ entries' = entries - 1
        /\ UNCHANGED <<context, connected, sent, refused, down, loop, output, redis>>
    BY <1>6 DEF redis_callback
  <2>2. got \in Seq(1 .. sent) /\ callbacks \in Seq(1 .. sent) /\ sent \in Nat /\ refused \in Nat
    OBVIOUS
  <2>3. Pipe \in Seq(Nat) /\ Pipe # << >>
    <3>1. /\ got \in Seq(Nat) /\ input \in Seq(Nat) /\ wire \in Seq(Nat) /\ output \in Seq(Nat)
          /\ Pipe \in Seq(Nat)
      BY NatSeqs
    <3>2. Way(got, input, wire, output) # << >> BY <2>1, <3>1, WayHead
    <3>3. QED BY <3>1, <3>2, PipeIsWay
  <2>4. callbacks # << >> /\ Head(callbacks) \in 1 .. sent /\ Tail(callbacks) \in Seq(1 .. sent)
    BY <2>2, <2>3, MatchedReply DEF Lists
  <2>5. Head(got) \in 1 .. sent /\ Tail(got) \in Seq(1 .. sent) BY <2>1, <2>2, HeadTail
  <2>6. entries - 1 \in Nat BY <2>3 DEF Lists
  <2>7. QED BY <2>1, <2>4, <2>5, <2>6 DEF loop, redis
<1>7. CASE Return
  BY <1>7 DEF Return, request, loop, redis
<1>8. CASE Answer
  <2>1. /\ wire # << >> /\ input' = Append(input, Head(wire)) /\ wire' = Tail(wire)
        /\ UNCHANGED <<context, connected, request, down, loop, hiredis, peer>>
    BY <1>8 DEF Answer
  <2>2. wire \in Seq(1 .. sent) /\ input \in Seq(1 .. sent) OBVIOUS
  <2>3. Head(wire) \in 1 .. sent /\ Tail(wire) \in Seq(1 .. sent) BY <2>1, <2>2, HeadTail
  <2>4. QED BY <2>1, <2>2, <2>3 DEF request, loop, hiredis
<1>9. CASE on_write_fails \/ on_read_fails \/ Destroy
  <2>1. /\ context' \in {"null", "connecting", "up", "freed", "gone"} /\ down' \in BOOLEAN
        /\ reading' \in BOOLEAN /\ writting' \in BOOLEAN
        /\ watched' \subseteq Events /\ due' \subseteq Events
    BY <1>9 DEF on_write_fails, on_read_fails, Destroy, Disconnect, redis_cleanup, SetWatchers,
                Started, Stopped, loop
  <2>2. UNCHANGED <<connected, request, hiredis, redis>>
    BY <1>9 DEF on_write_fails, on_read_fails, Destroy, Disconnect
  <2>3. QED BY <2>1, <2>2 DEF request, hiredis, redis
<1>10. CASE Close \/ UNCHANGED vars
  BY <1>10 DEF Close, request, loop, hiredis, redis, vars
<1>11. QED
  BY <1>1, <1>2, <1>3, <1>4, <1>5, <1>6, <1>7, <1>8, <1>9, <1>10 DEF Next, Thread

\* What a change of the flags does to the watchers.
LEMMA WatchersSet ==
  ASSUME TypeOK, FlagsFollowLoop, NEW r \in BOOLEAN, NEW w \in BOOLEAN,
         NEW happened, happened \subseteq watched, SetWatchers(r, w, happened)
  PROVE  /\ FlagsFollowLoop'
         /\ "read" \in watched' <=> r
         /\ "write" \in watched' <=> w
BY DEF TypeOK, FlagsFollowLoop, SetWatchers, Started, Stopped, Events

LEMMA LoopsInvariant ==
  ASSUME TypeOK, Lists, Loops, [Next]_vars
  PROVE  Loops'
<1> USE DEF Loops
<1>1. CASE connect
  <2>1. SetWatchers(reading, TRUE, due) /\ context' = "connecting" BY <1>1 DEF connect
  <2>2. FlagsFollowLoop' /\ "write" \in watched'
    BY <2>1, WatchersSet DEF FlagsFollowLoop, TypeOK
  <2>3. QED BY <2>1, <2>2 DEF NoEventAfterFree, WatchersAsked
<1>2. CASE send_request
  <2>1. /\ SetWatchers(reading, TRUE, due) /\ context' = context
        /\ context \in {"connecting", "up"}
    BY <1>2 DEF send_request
  <2>2. FlagsFollowLoop' /\ "write" \in watched' /\ ("read" \in watched' <=> reading)
    BY <2>1, WatchersSet DEF FlagsFollowLoop, TypeOK
  <2>3. QED BY <2>1, <2>2 DEF NoEventAfterFree, WatchersAsked, FlagsFollowLoop
<1>3. CASE send_request_malformed \/ send_request_dangling \/ Close \/ Answer \/ UNCHANGED vars
  BY <1>3 DEF send_request_malformed, send_request_dangling, Close, Answer, vars, loop, hiredis,
              FlagsFollowLoop, NoEventAfterFree, WatchersAsked, Idle
<1>4. CASE Poll
  BY <1>4 DEF Poll, hiredis, FlagsFollowLoop, NoEventAfterFree, WatchersAsked, Idle
<1>5. CASE on_write
  <2>1. SetWatchers(TRUE, output' # << >>, due \ {"write"}) /\ context' = "up"
    BY <1>5 DEF on_write
  <2>2. FlagsFollowLoop' /\ "read" \in watched' /\ ("write" \in watched' <=> output' # << >>)
    BY <2>1, WatchersSet DEF FlagsFollowLoop
  <2>3. QED BY <2>1, <2>2 DEF NoEventAfterFree, WatchersAsked
<1>6. CASE on_read
  <2>1. /\ SetWatchers(TRUE, writting, due \ {"read"}) /\ context' = context /\ output' = output
        /\ "read" \in due
    BY <1>6 DEF on_read
  <2>2. FlagsFollowLoop' /\ "read" \in watched' /\ ("write" \in watched' <=> writting)
    BY <2>1, WatchersSet DEF FlagsFollowLoop, TypeOK
  <2>3. QED BY <2>1, <2>2 DEF NoEventAfterFree, WatchersAsked, FlagsFollowLoop
<1>7. CASE redis_callback \/ Return
  BY <1>7 DEF redis_callback, Return, loop, FlagsFollowLoop, NoEventAfterFree, WatchersAsked, Idle
<1>8. CASE on_write_fails \/ on_read_fails \/ Destroy
  <2>1. Idle /\ Idle' /\ output' = output
    BY <1>8 DEF on_write_fails, on_read_fails, Destroy, Disconnect, hiredis, Idle
  <2>2. CASE UNCHANGED <<context, loop>>
    BY <2>1, <2>2 DEF loop, FlagsFollowLoop, NoEventAfterFree, WatchersAsked
  <2>3. CASE context' \in {"freed", "gone"} /\ redis_cleanup
    <3>1. SetWatchers(FALSE, FALSE, due) BY <2>3 DEF redis_cleanup
    <3>2. FlagsFollowLoop' /\ "read" \notin watched' /\ "write" \notin watched'
      BY <3>1, WatchersSet DEF FlagsFollowLoop
    <3>3. watched' \subseteq Events BY <3>1 DEF SetWatchers, Started, Stopped, TypeOK, Events
    <3>4. watched' = {} /\ due' = {} BY <3>2, <3>3 DEF FlagsFollowLoop, Events
    <3>5. QED BY <2>1, <2>3, <3>2, <3>4 DEF NoEventAfterFree, WatchersAsked
  <2>4. CASE context \in {"null", "freed"} /\ context' = "gone" /\ UNCHANGED loop
    BY <2>1, <2>4 DEF loop, FlagsFollowLoop, NoEventAfterFree, WatchersAsked
  <2>5. QED
    BY <1>8, <2>2, <2>3, <2>4 DEF on_write_fails, on_read_fails, Destroy, Disconnect
<1>9. QED
  BY <1>1, <1>2, <1>3, <1>4, <1>5, <1>6, <1>7, <1>8 DEF Next, Thread

-----------------------------------------------------------------------------
(* Theorems *)

\* Both lists agree, flags and watchers agree, whatever is lost or refused: the
\* invariant of send_request, redis_callback and the watchers' callbacks.
THEOREM Invariance == Spec => []IInv
<1>1. Init => IInv
  <2>1. SUFFICES ASSUME Init PROVE IInv OBVIOUS
  <2>2. TypeOK
    <3>1. << >> \in Seq(1 .. sent) OBVIOUS
    <3>2. QED BY <2>1, <3>1 DEF Init, TypeOK, Requests, Events
  <2>3. Pipe = << >>
    <3>0. << >> \in Seq(Nat) OBVIOUS
    <3>1. Cat(<< >>, << >>) = << >> BY <3>0, CatFacts
    <3>2. QED BY <2>1, <3>1 DEF Init, Pipe, Cat
  <2>4. Lists BY <2>1, <2>3 DEF Init, Lists, Matched, RepliesMatch
  <2>5. Loops BY <2>1 DEF Init, Loops, FlagsFollowLoop, NoEventAfterFree, WatchersAsked, Idle
  <2>6. QED BY <2>2, <2>4, <2>5, Parts
<1>2. IInv /\ [Next]_vars => IInv'
  <2>1. SUFFICES ASSUME IInv, [Next]_vars PROVE IInv' OBVIOUS
  <2>2. TypeOK /\ Lists /\ Loops BY <2>1, Parts DEF IInv
  <2>3. TypeOK' /\ Lists' /\ Loops'
    BY <2>1, <2>2, TypeInvariant, ListsInvariant, LoopsInvariant
  <2>4. TypeOK' => (IInv' <=> Lists' /\ Loops')
    BY DEF IInv, Lists, Loops, Matched, ListsCount, QueueDense, Shifted
  <2>5. QED BY <2>3, <2>4
<1>3. QED BY <1>1, <1>2, PTL DEF Spec

\* redis_callback gives each callback the reply to its own request while hiredis
\* has taken every command, and otherwise lags by at most the refused ones.
THEOREM Replies == Spec => []RepliesMatch
<1>1. IInv => RepliesMatch BY DEF IInv
<1>2. QED BY <1>1, Invariance, PTL

\* After hiredis has freed a context no event of the loop can lead back to it.
THEOREM Freed == Spec => []NoEventAfterFree
<1>1. IInv => NoEventAfterFree BY DEF IInv
<1>2. QED BY <1>1, Invariance, PTL

=============================================================================
