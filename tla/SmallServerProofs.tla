------------------------- MODULE SmallServerProofs -------------------------
(***************************************************************************)
(* Proofs about SmallServer, for any number of clients and descriptors,    *)
(* any buffer sizes and whatever the clients speak.                        *)
(***************************************************************************)
EXTENDS SmallServer, SequenceTheorems, FiniteSetTheorems, TLAPS

-----------------------------------------------------------------------------
(* Lemmas about the operators *)

\* Head and tail, position by position.
LEMMA HeadTail ==
  ASSUME NEW S, NEW q \in Seq(S), q # << >>
  PROVE  /\ Len(q) \in Nat /\ 1 \in 1 .. Len(q) /\ Head(q) = q[1] /\ q[1] \in S
         /\ Tail(q) \in Seq(S) /\ Len(Tail(q)) = Len(q) - 1
         /\ \A i \in 1 .. Len(q) - 1 : i + 1 \in 1 .. Len(q) /\ Tail(q)[i] = q[i + 1]
OBVIOUS

\* Concatenation by a name of its own, of which the provers see only these facts.
Cat(s, t) == s \o t

LEMMA CatFacts ==
  /\ \A s, t \in Seq(Pieces) : Cat(s, t) \in Seq(Pieces)
  /\ \A s, t, u \in Seq(Pieces) : Cat(Cat(s, t), u) = Cat(s, Cat(t, u))
  /\ \A s \in Seq(Pieces) : Cat(s, << >>) = s /\ Cat(<< >>, s) = s
<1>1. ASSUME NEW s \in Seq(Pieces), NEW t \in Seq(Pieces)
      PROVE  Cat(s, t) \in Seq(Pieces) /\ Cat(s, << >>) = s /\ Cat(<< >>, s) = s
  BY ConcatProperties, ConcatEmptySeq DEF Cat
<1>2. ASSUME NEW s \in Seq(Pieces), NEW t \in Seq(Pieces), NEW u \in Seq(Pieces)
      PROVE  Cat(Cat(s, t), u) = Cat(s, Cat(t, u))
  BY ConcatAssociative DEF Cat
<1>3. << >> \in Seq(Pieces) OBVIOUS
<1>4. QED BY <1>1, <1>2, <1>3

LEMMA CatAppend ==
  ASSUME NEW s \in Seq(Pieces), NEW p \in Pieces
  PROVE  Append(s, p) = Cat(s, << p >>) /\ << p >> \in Seq(Pieces)
<1>1. Append(s, p) = s \o << p >> BY AppendIsConcat
<1>2. QED BY <1>1 DEF Cat

\* What a client sends next is a piece.
LEMMA NextPiecesType ==
  ASSUME TypeOK, NEW c \in Clients
  PROVE  NextPieces(c) \subseteq Pieces
<1>1. Requests(c) \subseteq 1 .. MaxRequests
  <2>1. sent[c] \in Seq(Pieces) BY DEF TypeOK
  <2>2. \A i \in 1 .. Len(sent[c]) : sent[c][i].req \in 0 .. MaxRequests
    <3>1. \A i \in 1 .. Len(sent[c]) : sent[c][i] \in Pieces BY <2>1, ElementOfSeq
    <3>2. QED BY <3>1 DEF Pieces
  <2>3. QED BY <2>2, SmallAssumption DEF Requests
<1>2. /\ IsFiniteSet(1 .. MaxRequests) /\ Cardinality(1 .. MaxRequests) = MaxRequests
  <2>1. MaxRequests \in Nat BY SmallAssumption
  <2>2. 1 \in Int /\ MaxRequests \in Int /\ MaxRequests - 1 + 1 = MaxRequests BY <2>1
  <2>3. QED BY <2>1, <2>2, FS_Interval
<1>3. Cardinality(Requests(c)) \in 0 .. MaxRequests
  <2>1. IsFiniteSet(Requests(c)) /\ Cardinality(Requests(c)) <= Cardinality(1 .. MaxRequests)
    BY <1>1, <1>2, FS_Subset
  <2>2. Cardinality(Requests(c)) \in Nat BY <2>1, FS_CardinalityType
  <2>3. QED BY <1>2, <2>1, <2>2, SmallAssumption
<1> DEFINE n == Cardinality(Requests(c))
<1> HIDE DEF n
<1>4. /\ \A b \in BOOLEAN : [req |-> n, last |-> b] \in Pieces
      /\ n < MaxRequests => [req : {n + 1}, last : BOOLEAN] \subseteq Pieces
      /\ Rejected \in Pieces
  BY <1>3, SmallAssumption DEF Pieces, Rejected, n
<1>5. NextPieces(c) \subseteq {[req |-> n, last |-> b] : b \in BOOLEAN} \cup {Rejected}
        \cup {p \in [req : {n + 1}, last : BOOLEAN] : n < MaxRequests}
  <2>1. PICK b : b = (Len(SelectSeq(sent[c], LAMBDA p : p.req = n)) = InSize) OBVIOUS
  <2>2. b \in BOOLEAN BY <2>1, Zenon
  <2>3. NextPieces(c) \subseteq {[req |-> n, last |-> b], Rejected}
          \cup {p \in [req : {n + 1}, last : BOOLEAN] : n < MaxRequests}
    BY <2>1 DEF NextPieces, n
  <2>4. QED BY <2>2, <2>3
<1>6. QED BY <1>4, <1>5

\* What parsing makes of a message is a message, whether the input has come in one
\* run or in two.
LEMMA ExecutedType ==
  ASSUME NEW m \in Messages, NEW ps \in Seq(Pieces)
  PROVE  Executed(m, ps) \subseteq Messages
<1>0. CASE m.failed
  <2>1. Executed(m, ps) = {m} BY <1>0 DEF Executed
  <2>2. QED BY <2>1
<1>1. SUFFICES ASSUME ~ m.failed, NEW x \in Executed(m, ps) PROVE x \in Messages
  BY <1>0, Zenon
<1>2. PICK n \in Accepted(ps) :
        \/ x = [pieces    |-> m.pieces \o SubSeq(ps, 1, n),
                completed |-> IF n = 0 THEN m.completed ELSE ps[n].last,
                failed    |-> n < Len(ps)]
        \/ x = [pieces    |-> m.pieces \o SubSeq(ps, 1, n),
                completed |-> FALSE,
                failed    |-> n < Len(ps)]
  BY <1>1, Zenon DEF Executed
<1>3. n \in 0 .. Len(ps)
  BY <1>2 DEF Accepted
<1>4. SubSeq(ps, 1, n) \in Seq(Pieces)
  BY <1>3, SubSeqProperties
<1>5. m.pieces \o SubSeq(ps, 1, n) \in Seq(Pieces)
  BY <1>4, ConcatProperties DEF Messages
<1>6. (IF n = 0 THEN m.completed ELSE ps[n].last) \in BOOLEAN
  <2>1. n # 0 => ps[n] \in Pieces BY <1>3, ElementOfSeq
  <2>2. m.completed \in BOOLEAN BY DEF Messages
  <2>3. QED BY <2>1, <2>2 DEF Pieces
<1>7. \A a \in Seq(Pieces), b, f \in BOOLEAN :
        [pieces |-> a, completed |-> b, failed |-> f] \in Messages
  BY DEF Messages
<1>8. (n < Len(ps)) \in BOOLEAN OBVIOUS
<1>9. QED BY <1>2, <1>5, <1>6, <1>7, <1>8, Zenon

LEMMA ParsedType ==
  ASSUME NEW m \in Messages, NEW buf \in Seq(Pieces), NEW k \in 0 .. Len(buf),
         NEW one \in Executed(m, SubSeq(buf, 1, k)), NEW both \in Parsed(buf, k, one)
  PROVE  one \in Messages /\ both \in Messages
<1>1. SubSeq(buf, 1, k) \in Seq(Pieces) /\ SubSeq(buf, k + 1, Len(buf)) \in Seq(Pieces)
  BY SubSeqProperties
<1>2. one \in Messages BY <1>1, ExecutedType
<1>3. QED BY <1>1, <1>2, ExecutedType DEF Parsed

\* Noise has as many pieces as there were.
LEMMA SeenType ==
  ASSUME NEW c, NEW q \in Seq(Pieces), NEW ps \in Seen(c, q)
  PROVE  ps \in Seq(Pieces) /\ Len(ps) = Len(q)
<1>1. Rejected \in Pieces BY SmallAssumption DEF Rejected, Pieces
<1>2. Len(q) \in Nat /\ \A i \in 1 .. Len(q) : q[i] \in Pieces BY ElementOfSeq, LenProperties
<1>3. ASSUME NEW n, ps = [i \in 1 .. Len(q) |-> IF i <= n THEN q[i] ELSE Rejected]
      PROVE  ps \in Seq(Pieces) /\ Len(ps) = Len(q)
  <2> DEFINE e(i) == IF i <= n THEN q[i] ELSE Rejected
  <2>1. \A i \in 1 .. Len(q) : e(i) \in Pieces BY <1>1, <1>2
  <2>2. ps = [i \in 1 .. Len(q) |-> e(i)] BY <1>3
  <2> HIDE DEF e
  <2>3. QED BY <1>2, <2>1, <2>2
<1>4. ps = q \/ \E n : ps = [i \in 1 .. Len(q) |-> IF i <= n THEN q[i] ELSE Rejected]
  BY DEF Seen
<1>5. QED BY <1>3, <1>4

\* A sequence is what is before a position and what is behind it.
LEMMA SplitAt ==
  ASSUME NEW S, NEW q \in Seq(S), NEW n \in 0 .. Len(q)
  PROVE  /\ SubSeq(q, 1, n) \in Seq(S) /\ SubSeq(q, n + 1, Len(q)) \in Seq(S)
         /\ Len(SubSeq(q, 1, n)) = n /\ Len(SubSeq(q, n + 1, Len(q))) = Len(q) - n
         /\ SubSeq(q, 1, n) \o SubSeq(q, n + 1, Len(q)) = q
<1>1. Len(q) \in Nat /\ \A i \in 1 .. Len(q) : q[i] \in S BY LenProperties, ElementOfSeq
<1>2. /\ 1 \in 1 .. Len(q) + 1 /\ n \in 1 - 1 .. Len(q) /\ Len(q) \in n .. Len(q)
  BY <1>1
<1>3. SubSeq(q, 1, n) \o SubSeq(q, n + 1, Len(q)) = SubSeq(q, 1, Len(q))
  BY <1>2, ConcatAdjacentSubSeq
<1>4. SubSeq(q, 1, Len(q)) = q BY SubSeqFull
<1>5. /\ SubSeq(q, 1, n) \in Seq(S) /\ SubSeq(q, n + 1, Len(q)) \in Seq(S)
      /\ Len(SubSeq(q, 1, n)) = n /\ Len(SubSeq(q, n + 1, Len(q))) = Len(q) - n
  BY <1>1, SubSeqProperties
<1>6. QED BY <1>3, <1>4, <1>5

-----------------------------------------------------------------------------
(* Replies *)

\* A sequence of replies to one client.
Own(c, q) == q \in Seq(Replies) /\ \A i \in 1 .. Len(q) : q[i].to = c

LEMMA OwnParts ==
  ASSUME NEW c, NEW q, Own(c, q), NEW n \in 0 .. Len(q)
  PROVE  /\ Own(c, SubSeq(q, 1, n)) /\ Own(c, SubSeq(q, n + 1, Len(q)))
         /\ Len(SubSeq(q, 1, n)) = n /\ Len(SubSeq(q, n + 1, Len(q))) = Len(q) - n
<1>1. q \in Seq(Replies) /\ Len(q) \in Nat /\ \A i \in 1 .. Len(q) : q[i].to = c
  BY LenProperties DEF Own
<1> DEFINE one == SubSeq(q, 1, n)
           two == SubSeq(q, n + 1, Len(q))
<1>2. /\ one \in Seq(Replies) /\ Len(one) = n /\ \A i \in 1 .. n : one[i] = q[i]
      /\ two \in Seq(Replies) /\ Len(two) = Len(q) - n
      /\ \A i \in 1 .. Len(q) - n : two[i] = q[n + i]
  BY <1>1
<1> HIDE DEF one, two
<1>3. \A i \in 1 .. Len(one) : one[i].to = c
  <2>1. \A i \in 1 .. n : i \in 1 .. Len(q)
    BY <1>1
  <2>2. \A i \in 1 .. n : one[i].to = c
    BY <1>1, <1>2, <2>1
  <2>3. QED BY <1>2, <2>2
<1>4. \A i \in 1 .. Len(two) : two[i].to = c
  <2>1. \A i \in 1 .. Len(q) - n : n + i \in 1 .. Len(q)
    BY <1>1
  <2>2. \A i \in 1 .. Len(q) - n : two[i].to = c
    BY <1>1, <1>2, <2>1
  <2>3. QED BY <1>2, <2>2
<1>5. Own(c, one) /\ Own(c, two) BY <1>2, <1>3, <1>4 DEF Own
<1>6. QED BY <1>2, <1>5 DEF one, two

LEMMA OwnConcat ==
  ASSUME NEW c, NEW p, NEW q, Own(c, p), Own(c, q)
  PROVE  Own(c, p \o q)
<1>1. p \in Seq(Replies) /\ q \in Seq(Replies) BY DEF Own
<1>2. /\ p \o q \in Seq(Replies) /\ Len(p \o q) = Len(p) + Len(q)
      /\ Len(p) \in Nat /\ Len(q) \in Nat
      /\ \A i \in 1 .. Len(p) + Len(q) :
           (p \o q)[i] = IF i <= Len(p) THEN p[i] ELSE q[i - Len(p)]
  BY <1>1, ConcatProperties, LenProperties
<1>3. \A i \in 1 .. Len(p \o q) : (p \o q)[i].to = c BY <1>2 DEF Own
<1>4. QED BY <1>2, <1>3 DEF Own

LEMMA ReplyOwn ==
  ASSUME NEW l \in Letters
  PROVE  Own(l.conn, Reply(l))
<1> DEFINE a == [to |-> l.conn, of |-> l.pieces, part |-> "first"]
           b == [to |-> l.conn, of |-> l.pieces, part |-> "second"]
<1>1. a \in Replies /\ b \in Replies /\ a.to = l.conn /\ b.to = l.conn
  BY DEF Letters, Replies
<1>2. Reply(l) = << a, b >> BY DEF Reply
<1> HIDE DEF a, b
<1>3. << a, b >> \in Seq(Replies) BY <1>1
<1>4. Len(<< a, b >>) = 2 /\ << a, b >>[1] = a /\ << a, b >>[2] = b OBVIOUS
<1>5. QED BY <1>1, <1>2, <1>3, <1>4 DEF Own

\* What clients have received and what o_buffers hold.
RepliesOK ==
  /\ received \in [Clients -> Seq(Replies)] /\ o_buffer \in [Clients -> Seq(Replies)]
  /\ \A c \in Clients :
       Own(c, received[c]) /\ Own(c, o_buffer[c]) /\ Len(o_buffer[c]) <= OutSize

\* What Answer does with the reply in the buffer.
Written(l, buf, n) ==
  /\ received' = IF n = 0 THEN received
                 ELSE [received EXCEPT ![fds[fd[l.conn]]] = @ \o SubSeq(buf, 1, n)]
  /\ \E rest \in IF is_ssl[l.conn] = "is" /\ ~ l.order THEN {buf, << >>}
                 ELSE {SubSeq(buf, n + 1, Len(buf))} :
       o_buffer' = [o_buffer EXCEPT ![l.conn] = rest]

\* An answer of a connection whose descriptor is open goes to its client.
LEMMA AnswerKeeps ==
  ASSUME RepliesOK, NEW l \in Letters, fds[fd[l.conn]] = l.conn, Answer(l)
  PROVE  RepliesOK'
<1> DEFINE c == l.conn
           all == o_buffer[c] \o Reply(l)
           m == IF Len(all) <= OutSize THEN Len(all) ELSE OutSize
           buf == SubSeq(all, 1, m)
<1>1. c \in Clients BY DEF Letters
<1>2. Own(c, all)
  <2>1. Own(c, o_buffer[c]) BY <1>1 DEF RepliesOK
  <2>2. QED BY <2>1, ReplyOwn, OwnConcat
<1>3. PICK n \in IF fds[fd[c]] \notin Clients \/ link[fds[fd[c]]] \in {"reset", "refused"}
                 THEN {0} ELSE 0 .. Len(buf) : Written(l, buf, n)
  BY DEF Answer, Written
<1> HIDE DEF all
<1>4. m \in 0 .. Len(all) /\ m <= OutSize
  <2>1. Len(all) \in Nat BY <1>2, LenProperties DEF Own
  <2>2. QED BY <2>1, SmallAssumption
<1> HIDE DEF m
<1>5. Own(c, buf) /\ Len(buf) = m BY <1>2, <1>4, OwnParts
<1> HIDE DEF buf
<1>6. n \in 0 .. Len(buf) /\ Len(buf) \in Nat
  BY <1>3, <1>4, <1>5
<1> DEFINE one == SubSeq(buf, 1, n)
           two == SubSeq(buf, n + 1, Len(buf))
<1>7. Own(c, one) /\ Own(c, two) /\ Len(two) <= Len(buf)
  BY <1>5, <1>6, OwnParts
<1>8. \/ received' = received
      \/ received' = [received EXCEPT ![c] = @ \o one]
  BY <1>3 DEF Written
<1>9. PICK rest \in {buf, << >>, two} : o_buffer' = [o_buffer EXCEPT ![c] = rest]
  BY <1>3 DEF Written
<1> HIDE DEF one, two
<1>10. Own(c, << >>) /\ Len(<< >>) = 0
  <2>1. << >> \in Seq(Replies) /\ Len(<< >>) = 0 OBVIOUS
  <2>2. QED BY <2>1 DEF Own
<1>11. Own(c, rest) /\ Len(rest) <= OutSize /\ rest \in Seq(Replies)
  <2>1. OutSize \in Nat BY SmallAssumption
  <2>2. Len(two) \in Nat BY <1>7, LenProperties DEF Own
  <2>3. Own(c, rest) /\ Len(rest) <= OutSize
    BY <1>4, <1>5, <1>6, <1>7, <1>9, <1>10, <2>1, <2>2
  <2>4. QED BY <2>3 DEF Own
<1>12. Own(c, received[c] \o one) /\ received[c] \o one \in Seq(Replies)
  <2>1. Own(c, received[c]) BY <1>1 DEF RepliesOK
  <2>2. Own(c, received[c] \o one) BY <1>7, <2>1, OwnConcat
  <2>3. QED BY <2>2 DEF Own
<1> DEFINE got == received[c] \o one
<1> HIDE DEF c
<1>13. /\ o_buffer' \in [Clients -> Seq(Replies)]
       /\ \A d \in Clients : Own(d, o_buffer'[d]) /\ Len(o_buffer'[d]) <= OutSize
  BY <1>1, <1>9, <1>11 DEF RepliesOK
<1>14. /\ received' \in [Clients -> Seq(Replies)]
       /\ \A d \in Clients : Own(d, received'[d])
  <2>1. got \in Seq(Replies) /\ Own(c, got) BY <1>12
  <2>2. received' = received \/ received' = [received EXCEPT ![c] = got] BY <1>8
  <2> HIDE DEF got
  <2>3. QED BY <1>1, <2>1, <2>2 DEF RepliesOK
<1>15. QED BY <1>13, <1>14 DEF RepliesOK

\* What ParseHttpMessage does with the result of the parser.
Outcome(c, ps, k, one, m) ==
  /\ i_buffer' = [i_buffer EXCEPT ![c] = IF m.failed THEN @
                    ELSE SubSeq(@, CutParsed(k, one, ps) + 1, Len(@))]
  /\ \/ /\ m.completed /\ ~ m.failed
        /\ message' = [message EXCEPT ![c] = NewMessage]
        /\ called' = [called EXCEPT ![c] = @ \o m.pieces]
        /\ CallMethod([conn |-> c, pieces |-> m.pieces, order |-> FALSE])
     \/ /\ message' = [message EXCEPT ![c] = m]
        /\ UNCHANGED <<called, deferred, received, o_buffer>>

\* The runs of the ring and the results of the parser in a step of ParseHttpMessage.
LEMMA ParseCases ==
  ASSUME TypeOK, ParseHttpMessage
  PROVE  \E c \in Clients : \E ps \in Seq(Pieces) : \E k \in 0 .. Len(ps) :
         \E one \in Messages : \E m \in Messages :
           /\ c = running /\ ps \in Seen(c, i_buffer[c]) /\ Len(ps) = Len(i_buffer[c])
           /\ one \in Executed(message[c], SubSeq(ps, 1, k)) /\ m \in Parsed(ps, k, one)
           /\ Outcome(c, ps, k, one, m)
<1>1. PICK c \in Clients : c = running BY DEF TypeOK, ParseHttpMessage
<1>2. PICK ps \in Seen(c, i_buffer[c]) : \E k \in 0 .. Len(ps) :
        \E one \in Executed(message[c], SubSeq(ps, 1, k)) : \E m \in Parsed(ps, k, one) :
          Outcome(c, ps, k, one, m)
  <2> DEFINE Then(ps, k, one, m) ==
        /\ i_buffer' = [i_buffer EXCEPT ![running] = IF m.failed THEN @
                          ELSE SubSeq(@, CutParsed(k, one, ps) + 1, Len(@))]
        /\ IF m.completed /\ ~ m.failed
           THEN /\ message' = [message EXCEPT ![running] = NewMessage]
                /\ called' = [called EXCEPT ![running] = @ \o m.pieces]
                /\ CallMethod([conn |-> running, pieces |-> m.pieces, order |-> FALSE])
           ELSE /\ message' = [message EXCEPT ![running] = m]
                /\ UNCHANGED <<called, deferred, received, o_buffer>>
  <2>1. \E ps \in Seen(running, i_buffer[running]) : \E k \in 0 .. Len(ps) :
        \E one \in Executed(message[running], SubSeq(ps, 1, k)) : \E m \in Parsed(ps, k, one) :
          Then(ps, k, one, m)
    BY DEF ParseHttpMessage
  <2>2. ASSUME NEW ps, NEW k, NEW one, NEW m, Then(ps, k, one, m)
        PROVE  Outcome(c, ps, k, one, m)
    BY <1>1, <2>2 DEF Outcome
  <2> HIDE DEF Then
  <2>3. QED BY <1>1, <2>1, <2>2
<1>3. PICK k \in 0 .. Len(ps) :
        \E one \in Executed(message[c], SubSeq(ps, 1, k)) : \E m \in Parsed(ps, k, one) :
          Outcome(c, ps, k, one, m)
  BY <1>2
<1>4. PICK one \in Executed(message[c], SubSeq(ps, 1, k)) : \E m \in Parsed(ps, k, one) :
          Outcome(c, ps, k, one, m)
  BY <1>3
<1>5. PICK m \in Parsed(ps, k, one) : Outcome(c, ps, k, one, m) BY <1>4
<1>6. i_buffer[c] \in Seq(Pieces) /\ message[c] \in Messages BY DEF TypeOK
<1>7. ps \in Seq(Pieces) /\ Len(ps) = Len(i_buffer[c]) BY <1>2, <1>6, SeenType
<1>8. one \in Messages /\ m \in Messages BY <1>4, <1>5, <1>6, <1>7, ParsedType
<1>9. QED BY <1>1, <1>2, <1>3, <1>4, <1>5, <1>7, <1>8

\* A method gets a letter of the connection.
LEMMA LetterOf ==
  ASSUME NEW c \in Clients, NEW m \in Messages
  PROVE  /\ [conn |-> c, pieces |-> m.pieces, order |-> FALSE] \in Letters
         /\ [conn |-> c, pieces |-> m.pieces, order |-> FALSE].conn = c
BY DEF Letters, Messages

LEMMA RepliesStep ==
  ASSUME TypeOK, Held, RepliesOK, [Next]_vars
  PROVE  RepliesOK'
<1>1. CASE UNCHANGED <<received, o_buffer>>
  BY <1>1 DEF RepliesOK
<1>2. ASSUME NEW l \in Letters, l.conn \in Referenced, Answer(l) PROVE RepliesOK'
  BY <1>2, AnswerKeeps DEF Held
<1>3. CASE ParseHttpMessage
  <2>1. PICK c \in Clients : \E ps \in Seq(Pieces) : \E k \in 0 .. Len(ps) :
          \E one \in Messages : \E m \in Messages :
            c = running /\ Outcome(c, ps, k, one, m)
    BY <1>3, ParseCases
  <2>2. PICK m \in Messages :
          \/ CallMethod([conn |-> c, pieces |-> m.pieces, order |-> FALSE])
          \/ UNCHANGED <<received, o_buffer>>
    BY <2>1 DEF Outcome
  <2>3. PICK l \in Letters : l.conn = c /\ l = [conn |-> c, pieces |-> m.pieces, order |-> FALSE]
    BY <2>2, LetterOf
  <2>4. c \in Referenced BY <2>1 DEF Referenced
  <2>5. Answer(l) \/ UNCHANGED <<received, o_buffer>> BY <2>2, <2>3 DEF CallMethod
  <2>6. QED BY <1>1, <1>2, <2>3, <2>4, <2>5
<1>4. CASE Resume
  <2>1. PICK l \in deferred : Answer(l) \/ UNCHANGED <<received, o_buffer>>
    BY <1>4 DEF Resume
  <2>2. l \in Letters /\ l.conn \in Clients BY <2>1 DEF TypeOK, Letters
  <2>3. l.conn \in Referenced BY <2>1, <2>2 DEF Referenced
  <2>4. QED BY <1>1, <1>2, <2>1, <2>2, <2>3
<1>5. QED
  <2>1. CASE UNCHANGED vars BY <1>1, <2>1 DEF vars, clients, conn
  <2>2. ASSUME NEW c \in Clients, Connect(c) \/ Send(c) \/ Finish(c) \/ OnRead(c)
        PROVE  UNCHANGED <<received, o_buffer>>
    BY <2>2 DEF Connect, Send, Finish, OnRead, clients, conn
  <2>3. CASE Accept \/ AcceptFull
    BY <1>1, <2>3 DEF Accept, AcceptFull, clients, conn
  <2>4. CASE ReadGateway \/ ReadPlain \/ ReadSsl \/ ReadEnd
    BY <1>1, <2>4 DEF ReadGateway, ReadPlain, ReadSsl, ReadEnd, clients, conn
  <2>5. QED BY <1>1, <1>3, <1>4, <2>1, <2>2, <2>3, <2>4 DEF Next, Callback

-----------------------------------------------------------------------------
(* Types *)

\* Closing descriptors leaves a table of descriptors.
LEMMA ReleaseType ==
  ASSUME TypeOK, Release
  PROVE  fds' \in [Fds -> Clients \cup {None, Other}]
BY DEF TypeOK, Release

\* As much as there is and as there is room for, and something if there is anything.
LEMMA ReadSize ==
  ASSUME TypeOK, NEW c \in Clients
  PROVE  /\ Taken(c) \in 0 .. Len(inbox[c]) /\ Len(i_buffer[c]) + Taken(c) <= InSize
         /\ inbox[c] # << >> => Len(i_buffer[c]) + Taken(c) > 0
<1>1. Len(inbox[c]) \in Nat /\ Len(i_buffer[c]) \in Nat BY LenProperties DEF TypeOK
<1>2. Len(i_buffer[c]) <= InSize /\ InSize \in Nat \ {0} BY SmallAssumption DEF TypeOK
<1>3. inbox[c] # << >> => Len(inbox[c]) > 0
  <2>1. inbox[c] \in Seq(Pieces) BY DEF TypeOK
  <2>2. inbox[c] # << >> => Len(inbox[c]) # 0 BY <2>1, EmptySeq
  <2>3. QED BY <1>1, <2>2
<1>4. \A a, b \in Nat : \A size \in Nat \ {0} : b <= size =>
        LET x == IF a <= size - b THEN a ELSE size - b
        IN  x \in 0 .. a /\ b + x <= size /\ (a > 0 => b + x > 0)
  OBVIOUS
<1>5. QED BY <1>1, <1>2, <1>3, <1>4, Zenon DEF Taken

\* What SmartService does with x, which it has read, and what it leaves, y: it deals
\* with p, the first piece of what is then in the buffer, and drops the rest of that.
Reported(c, y, p) ==
  /\ inbox' = [inbox EXCEPT ![c] = y]
  /\ i_buffer' = [i_buffer EXCEPT ![c] = << >>]
  /\ reports' = [reports EXCEPT ![c] = Append(@, p)]
  /\ \/ deferred' = deferred
     \/ deferred' = deferred \cup {[conn |-> c, pieces |-> << p >>, order |-> TRUE]}

LEMMA GatewayCases ==
  ASSUME TypeOK, ReadGateway
  PROVE  \E c \in Clients : \E x \in Seq(Pieces) : \E y \in Seq(Pieces) : \E z \in Seq(Pieces) :
         \E p \in Pieces :
           /\ c = running /\ inbox[c] = Cat(x, y) /\ Cat(i_buffer[c], x) = Cat(<< p >>, z)
           /\ Reported(c, y, p)
<1>1. PICK c \in Clients : c = running BY DEF ReadGateway, TypeOK
<1>2. PICK x, y, b : /\ x = SubSeq(inbox[c], 1, Taken(c))
                     /\ y = SubSeq(inbox[c], Taken(c) + 1, Len(inbox[c]))
                     /\ b = i_buffer[c] \o x
  OBVIOUS
<1>3. inbox[c] \in Seq(Pieces) /\ i_buffer[c] \in Seq(Pieces) BY DEF TypeOK
<1>4. inbox[c] # << >> BY <1>1 DEF ReadGateway, Peeked
<1>5. /\ x \in Seq(Pieces) /\ y \in Seq(Pieces) /\ Len(x) = Taken(c) /\ inbox[c] = Cat(x, y)
  <2>1. Taken(c) \in 0 .. Len(inbox[c]) BY ReadSize
  <2>2. /\ SubSeq(inbox[c], 1, Taken(c)) \in Seq(Pieces)
        /\ SubSeq(inbox[c], Taken(c) + 1, Len(inbox[c])) \in Seq(Pieces)
        /\ Len(SubSeq(inbox[c], 1, Taken(c))) = Taken(c)
        /\ SubSeq(inbox[c], 1, Taken(c)) \o SubSeq(inbox[c], Taken(c) + 1, Len(inbox[c])) = inbox[c]
    BY <1>3, <2>1, SplitAt
  <2>3. QED BY <1>2, <2>2 DEF Cat
<1>6. b \in Seq(Pieces) /\ b # << >>
  <2>1. \A s, t \in Seq(Pieces) : s \o t \in Seq(Pieces) /\ Len(s \o t) = Len(s) + Len(t)
    BY ConcatProperties
  <2>2. b \in Seq(Pieces) /\ Len(b) = Len(i_buffer[c]) + Len(x) BY <1>2, <1>3, <1>5, <2>1, Zenon
  <2>3. Len(i_buffer[c]) + Taken(c) > 0 BY <1>4, ReadSize
  <2>4. Len(b) > 0 BY <1>5, <2>2, <2>3
  <2>5. Len(<< >>) = 0 OBVIOUS
  <2>6. QED BY <2>2, <2>4, <2>5
<1>7. PICK p, z : p = Head(b) /\ z = Tail(b) OBVIOUS
<1>8. p \in Pieces /\ z \in Seq(Pieces) /\ b = Cat(<< p >>, z)
  <2>1. /\ Len(b) \in Nat /\ Head(b) = b[1] /\ b[1] \in Pieces /\ Tail(b) \in Seq(Pieces)
        /\ Len(Tail(b)) = Len(b) - 1 /\ 1 \in 1 .. Len(b)
        /\ \A i \in 1 .. Len(b) - 1 : i + 1 \in 1 .. Len(b) /\ Tail(b)[i] = b[i + 1]
    BY <1>6, HeadTail
  <2>2. b = << p >> \o z
    <3>1. << p >> \o z = [i \in 1 .. 1 + Len(z) |-> IF i <= 1 THEN << p >>[i] ELSE z[i - 1]]
      BY <1>7, <2>1
    <3>2. b = [i \in 1 .. Len(b) |-> b[i]] BY <1>6
    <3>3. ASSUME NEW i \in 1 .. Len(b)
          PROVE  b[i] = IF i <= 1 THEN << p >>[i] ELSE z[i - 1]
      <4>1. CASE i = 1 BY <1>7, <2>1, <4>1
      <4>2. CASE i # 1
        <5>1. i - 1 \in 1 .. Len(b) - 1 /\ ~ (i <= 1) /\ i - 1 + 1 = i BY <2>1, <4>2
        <5>2. QED BY <1>7, <2>1, <5>1
      <4>3. QED BY <4>1, <4>2
    <3>4. 1 + Len(z) = Len(b) BY <1>7, <2>1
    <3>5. QED BY <3>1, <3>2, <3>3, <3>4
  <2>3. QED BY <1>7, <2>1, <2>2 DEF Cat
<1>9. Reported(c, y, p)
  BY <1>1, <1>2, <1>7 DEF ReadGateway, Reported
<1>10. QED BY <1>1, <1>2, <1>5, <1>8, <1>9 DEF Cat

\* What append_from_ssl does: the session takes k pieces and gives out n.
Given(c, k) == session[c] \o SubSeq(inbox[c], 1, k)
Decrypted(c, k, n) ==
  /\ Len(i_buffer[c]) + n <= InSize
  /\ inbox' = [inbox EXCEPT ![c] = SubSeq(@, k + 1, Len(@))]
  /\ session' = [session EXCEPT ![c] = SubSeq(Given(c, k), n + 1, Len(Given(c, k)))]
  /\ \/ i_buffer' = [i_buffer EXCEPT ![c] = @ \o SubSeq(Given(c, k), 1, n)]
     \/ i_buffer' = i_buffer

LEMMA SslCases ==
  ASSUME TypeOK, ReadSsl
  PROVE  \E c \in Clients : \E k \in 0 .. Len(inbox[c]) : \E n \in 0 .. Len(Given(c, k)) :
           c = running /\ Decrypted(c, k, n)
<1>1. PICK c \in Clients : c = running BY DEF TypeOK, ReadSsl
<1> DEFINE Then(k, n) ==
      /\ Len(i_buffer[running]) + n <= InSize
      /\ inbox' = [inbox EXCEPT ![running] = SubSeq(@, k + 1, Len(@))]
      /\ session' = [session EXCEPT ![running] =
                       SubSeq(Given(running, k), n + 1, Len(Given(running, k)))]
      /\ \/ /\ n > 0
            /\ i_buffer' = [i_buffer EXCEPT ![running] = @ \o SubSeq(Given(running, k), 1, n)]
            /\ \/ step' = "parse" /\ UNCHANGED running
               \/ running' = None /\ UNCHANGED step
         \/ running' = None /\ UNCHANGED <<step, i_buffer>>
<1>2. \E k \in 0 .. Len(inbox[running]) : \E n \in 0 .. Len(Given(running, k)) : Then(k, n)
  BY DEF ReadSsl, Given
<1>3. ASSUME NEW k, NEW n, Then(k, n) PROVE Decrypted(c, k, n)
  BY <1>1, <1>3 DEF Decrypted
<1> HIDE DEF Then
<1>4. QED BY <1>1, <1>2, <1>3

LEMMA TypeStep ==
  ASSUME TypeOK, RepliesOK', [Next]_vars
  PROVE  TypeOK'
<1> USE DEF clients, service, conn
<1>0. /\ received' \in [Clients -> Seq(Replies)] /\ o_buffer' \in [Clients -> Seq(Replies)]
      /\ \A c \in Clients : Len(o_buffer'[c]) <= OutSize
  BY DEF RepliesOK
<1>1. ASSUME NEW c \in Clients, Connect(c) PROVE TypeOK'
  <2>1. Append(backlog, c) \in Seq(Clients) BY AppendProperties DEF TypeOK
  <2>2. QED BY <1>1, <2>1 DEF TypeOK, Connect
<1>2. ASSUME NEW c \in Clients, Send(c) PROVE TypeOK'
  <2>1. PICK p \in NextPieces(c) : /\ sent' = [sent EXCEPT ![c] = Append(@, p)]
                                   /\ inbox' = [inbox EXCEPT ![c] = Append(@, p)]
    BY <1>2 DEF Send
  <2>2. p \in Pieces BY NextPiecesType
  <2>3. Append(sent[c], p) \in Seq(Pieces) /\ Append(inbox[c], p) \in Seq(Pieces)
    BY <2>2, AppendProperties DEF TypeOK
  <2>4. sent' \in [Clients -> Seq(Pieces)] /\ inbox' \in [Clients -> Seq(Pieces)]
    BY <2>1, <2>3 DEF TypeOK
  <2>5. QED BY <1>2, <2>4 DEF TypeOK, Send
<1>3. ASSUME NEW c \in Clients, Finish(c) PROVE TypeOK'
  <2>1. inbox' \in [Clients -> Seq(Pieces)]
    <3>1. inbox' = inbox \/ inbox' = [inbox EXCEPT ![c] = << >>] BY <1>3 DEF Finish
    <3>2. << >> \in Seq(Pieces) OBVIOUS
    <3>3. QED BY <3>1, <3>2 DEF TypeOK
  <2>2. link' \in [Clients -> {"new", "open", "shut", "reset", "refused"}]
    <3>1. PICK l \in {"shut", "reset"} : link' = [link EXCEPT ![c] = l] BY <1>3 DEF Finish
    <3>2. QED BY <3>1 DEF TypeOK
  <2>3. QED BY <1>3, <2>1, <2>2 DEF TypeOK, Finish
<1>4. ASSUME Accept PROVE TypeOK'
  <2>1. Head(backlog) \in Clients /\ Tail(backlog) \in Seq(Clients)
    BY <1>4, HeadTail DEF TypeOK, Accept
  <2>2. PICK f \in Fds :
          /\ fds' = [fds EXCEPT ![f] = Head(backlog)]
          /\ fd' = [fd EXCEPT ![Head(backlog)] = f]
          /\ conn_map' = [conn_map EXCEPT ![f] = IF @ = None THEN Head(backlog) ELSE @]
    BY <1>4 DEF Accept, Free
  <2>3. /\ fds' \in [Fds -> Clients \cup {None, Other}] /\ fd' \in [Clients -> Fds \cup {None}]
        /\ conn_map' \in [Fds -> Clients \cup {None}]
    BY <2>1, <2>2 DEF TypeOK
  <2>4. QED BY <1>4, <2>1, <2>3 DEF TypeOK, Accept
<1>5. ASSUME AcceptFull PROVE TypeOK'
  <2>1. Head(backlog) \in Clients /\ Tail(backlog) \in Seq(Clients)
    BY <1>5, HeadTail DEF TypeOK, AcceptFull
  <2>2. << >> \in Seq(Pieces) OBVIOUS
  <2>3. QED BY <1>5, <2>1, <2>2 DEF TypeOK, AcceptFull
<1>6. ASSUME Resume PROVE TypeOK'
  <2>1. fds' \in [Fds -> Clients \cup {None, Other}] BY <1>6, ReleaseType DEF Resume
  <2>2. deferred' \subseteq Letters BY <1>6 DEF Resume, TypeOK
  <2>3. QED BY <1>0, <1>6, <2>1, <2>2 DEF TypeOK, Resume
<1>7. ASSUME NEW c \in Clients, OnRead(c) PROVE TypeOK'
  BY <1>7 DEF TypeOK, OnRead
<1>8. ASSUME ParseHttpMessage PROVE TypeOK'
  <2>1. PICK c \in Clients : \E ps \in Seq(Pieces) : \E k \in 0 .. Len(ps) :
          \E one \in Messages : \E m \in Messages :
            c = running /\ Len(ps) = Len(i_buffer[c]) /\ Outcome(c, ps, k, one, m)
    BY <1>8, ParseCases
  <2>2. PICK ps \in Seq(Pieces) : \E k \in 0 .. Len(ps) :
          \E one \in Messages : \E m \in Messages :
            Len(ps) = Len(i_buffer[c]) /\ Outcome(c, ps, k, one, m)
    BY <2>1
  <2>3. PICK k \in 0 .. Len(ps) :
          \E one \in Messages : \E m \in Messages :
            Len(ps) = Len(i_buffer[c]) /\ Outcome(c, ps, k, one, m)
    BY <2>2
  <2>4. PICK one \in Messages, m \in Messages :
            Len(ps) = Len(i_buffer[c]) /\ Outcome(c, ps, k, one, m)
    BY <2>3
  <2>5. i_buffer' \in [Clients -> Seq(Pieces)] /\ \A d \in Clients : Len(i_buffer'[d]) <= InSize
    <3> DEFINE b == i_buffer[c]
               rest == SubSeq(b, CutParsed(k, one, ps) + 1, Len(b))
    <3>1. b \in Seq(Pieces) /\ Len(b) \in Nat /\ Len(b) <= InSize /\ InSize \in Nat
      BY SmallAssumption, LenProperties DEF TypeOK
    <3>2. CutParsed(k, one, ps) \in 0 .. Len(b)
      BY <2>4, <3>1 DEF CutParsed
    <3>3. rest \in Seq(Pieces) /\ Len(rest) <= InSize
      BY <3>1, <3>2, SplitAt
    <3>4. i_buffer' = [i_buffer EXCEPT ![c] = b] \/ i_buffer' = [i_buffer EXCEPT ![c] = rest]
      BY <2>4 DEF Outcome
    <3> HIDE DEF b, rest
    <3>5. PICK x \in {b, rest} : i_buffer' = [i_buffer EXCEPT ![c] = x] BY <3>4
    <3>6. x \in Seq(Pieces) /\ Len(x) <= InSize BY <3>1, <3>3, <3>5
    <3>7. QED BY <3>5, <3>6 DEF TypeOK
  <2>6. NewMessage \in Messages /\ called[c] \o m.pieces \in Seq(Pieces)
    BY ConcatProperties DEF TypeOK, Messages, NewMessage
  <2>7. message' \in [Clients -> Messages]
    <3>1. message' = [message EXCEPT ![c] = NewMessage] \/ message' = [message EXCEPT ![c] = m]
      BY <2>4 DEF Outcome
    <3>2. QED BY <2>6, <3>1 DEF TypeOK
  <2>8. called' \in [Clients -> Seq(Pieces)]
    <3>1. called' = called \/ called' = [called EXCEPT ![c] = @ \o m.pieces]
      BY <2>4 DEF Outcome
    <3>2. QED BY <2>6, <3>1 DEF TypeOK
  <2>9. deferred' \subseteq Letters
    <3>1. PICK l \in Letters : l = [conn |-> c, pieces |-> m.pieces, order |-> FALSE] BY LetterOf
    <3>2. deferred' = deferred \/ deferred' = deferred \cup {l}
      BY <2>4, <3>1 DEF Outcome, CallMethod
    <3>3. QED BY <3>2 DEF TypeOK
  <2>10. /\ step' = "read" /\ (running' = running \/ running' = None)
         /\ UNCHANGED <<speaks, link, sent, backlog, inbox, fds, conn_map, reports, fd, is_ssl, session>>
    BY <1>8 DEF ParseHttpMessage
  <2>11. QED BY <1>0, <2>5, <2>7, <2>8, <2>9, <2>10 DEF TypeOK
<1>9. ASSUME ReadGateway PROVE TypeOK'
  <2>1. PICK c \in Clients : \E y \in Seq(Pieces) : \E p \in Pieces : Reported(c, y, p)
    BY <1>9, GatewayCases
  <2>2. PICK y \in Seq(Pieces), p \in Pieces : Reported(c, y, p) BY <2>1
  <2>3. << >> \in Seq(Pieces) /\ << p >> \in Seq(Pieces) /\ Len(<< >>) = 0 OBVIOUS
  <2>4. Append(reports[c], p) \in Seq(Pieces) BY AppendProperties DEF TypeOK
  <2>5. [conn |-> c, pieces |-> << p >>, order |-> TRUE] \in Letters BY <2>3 DEF Letters
  <2>6. /\ inbox' \in [Clients -> Seq(Pieces)] /\ reports' \in [Clients -> Seq(Pieces)]
        /\ i_buffer' \in [Clients -> Seq(Pieces)] /\ deferred' \subseteq Letters
    BY <2>2, <2>3, <2>4, <2>5 DEF Reported, TypeOK
  <2>7. \A d \in Clients : Len(i_buffer'[d]) <= InSize
    <3>1. \A d \in Clients : i_buffer'[d] = << >> \/ i_buffer'[d] = i_buffer[d]
      BY <2>2 DEF Reported, TypeOK
    <3>2. 0 <= InSize BY SmallAssumption
    <3>3. QED BY <2>3, <3>1, <3>2 DEF TypeOK
  <2>8. QED BY <1>9, <2>6, <2>7 DEF TypeOK, ReadGateway
<1>10. ASSUME ReadPlain PROVE TypeOK'
  <2>1. PICK c \in Clients : c = running BY <1>10 DEF TypeOK, ReadPlain
  <2> DEFINE n == Taken(c)
             more == SubSeq(inbox[c], 1, n)
             rest == SubSeq(inbox[c], n + 1, Len(inbox[c]))
  <2>2. /\ i_buffer' = [i_buffer EXCEPT ![c] = @ \o more]
        /\ inbox' = [inbox EXCEPT ![c] = rest]
    BY <1>10, <2>1 DEF ReadPlain
  <2>3. n \in 0 .. Len(inbox[c]) /\ Len(i_buffer[c]) + n <= InSize BY ReadSize
  <2> HIDE DEF n
  <2>4. i_buffer[c] \in Seq(Pieces) /\ inbox[c] \in Seq(Pieces) BY DEF TypeOK
  <2>5. more \in Seq(Pieces) /\ Len(more) = n /\ rest \in Seq(Pieces) BY <2>3, <2>4, SplitAt
  <2> HIDE DEF more, rest
  <2>6. i_buffer[c] \o more \in Seq(Pieces) /\ Len(i_buffer[c] \o more) <= InSize
    <3>1. \A s, t \in Seq(Pieces) : s \o t \in Seq(Pieces) /\ Len(s \o t) = Len(s) + Len(t)
      BY ConcatProperties
    <3>2. Len(i_buffer[c] \o more) = Len(i_buffer[c]) + Len(more) BY <2>4, <2>5, <3>1, Zenon
    <3>3. i_buffer[c] \o more \in Seq(Pieces) BY <2>4, <2>5, <3>1, Zenon
    <3>4. QED BY <2>3, <2>5, <3>2, <3>3
  <2>7. /\ i_buffer' \in [Clients -> Seq(Pieces)] /\ inbox' \in [Clients -> Seq(Pieces)]
        /\ \A d \in Clients : Len(i_buffer'[d]) <= InSize
    BY <2>2, <2>5, <2>6 DEF TypeOK
  <2>8. is_ssl' \in [Clients -> {"unknown", "is", "not"}] /\ step' = "parse"
    BY <1>10 DEF ReadPlain, TypeOK
  <2>9. QED BY <1>10, <2>7, <2>8 DEF TypeOK, ReadPlain
<1>11. ASSUME ReadSsl PROVE TypeOK'
  <2>1. PICK c \in Clients : \E k \in 0 .. Len(inbox[c]) : \E n \in 0 .. Len(Given(c, k)) :
          Decrypted(c, k, n)
    BY <1>11, SslCases
  <2>2. PICK k \in 0 .. Len(inbox[c]) : \E n \in 0 .. Len(Given(c, k)) : Decrypted(c, k, n)
    BY <2>1
  <2>3. PICK n \in 0 .. Len(Given(c, k)) : Decrypted(c, k, n)
    BY <2>2
  <2>4. PICK held : held = Given(c, k) OBVIOUS
  <2> DEFINE more == SubSeq(held, 1, n)
             kept == SubSeq(held, n + 1, Len(held))
             rest == SubSeq(inbox[c], k + 1, Len(inbox[c]))
  <2>5. /\ Len(i_buffer[c]) + n <= InSize
        /\ inbox' = [inbox EXCEPT ![c] = rest] /\ session' = [session EXCEPT ![c] = kept]
        /\ i_buffer' = i_buffer \/ i_buffer' = [i_buffer EXCEPT ![c] = @ \o more]
    BY <2>3, <2>4 DEF Decrypted
  <2>6. /\ i_buffer[c] \in Seq(Pieces) /\ inbox[c] \in Seq(Pieces) /\ session[c] \in Seq(Pieces)
        /\ Len(i_buffer[c]) \in Nat
    BY LenProperties DEF TypeOK
  <2>7. rest \in Seq(Pieces) /\ SubSeq(inbox[c], 1, k) \in Seq(Pieces) BY <2>6, SplitAt
  <2>8. held \in Seq(Pieces) BY <2>4, <2>6, <2>7, ConcatProperties DEF Given
  <2>9. n \in 0 .. Len(held) BY <2>3, <2>4
  <2>10. more \in Seq(Pieces) /\ Len(more) = n /\ kept \in Seq(Pieces) BY <2>8, <2>9, SplitAt
  <2> HIDE DEF more, kept, rest
  <2>11. i_buffer[c] \o more \in Seq(Pieces) /\ Len(i_buffer[c] \o more) <= InSize
    <3>1. \A s, t \in Seq(Pieces) : s \o t \in Seq(Pieces) /\ Len(s \o t) = Len(s) + Len(t)
      BY ConcatProperties
    <3>2. Len(i_buffer[c] \o more) = Len(i_buffer[c]) + Len(more) BY <2>6, <2>10, <3>1, Zenon
    <3>3. i_buffer[c] \o more \in Seq(Pieces) BY <2>6, <2>10, <3>1, Zenon
    <3>4. QED BY <2>5, <2>10, <3>2, <3>3
  <2>12. /\ i_buffer' \in [Clients -> Seq(Pieces)] /\ inbox' \in [Clients -> Seq(Pieces)]
         /\ session' \in [Clients -> Seq(Pieces)]
         /\ \A d \in Clients : Len(i_buffer'[d]) <= InSize
    <3>1. inbox' \in [Clients -> Seq(Pieces)] /\ session' \in [Clients -> Seq(Pieces)]
      BY <2>5, <2>7, <2>10 DEF TypeOK
    <3>2. PICK b : b = i_buffer[c] \o more OBVIOUS
    <3>3. b \in Seq(Pieces) /\ Len(b) <= InSize BY <2>11, <3>2
    <3>4. i_buffer' = i_buffer \/ i_buffer' = [i_buffer EXCEPT ![c] = b] BY <2>5, <3>2
    <3>5. i_buffer \in [Clients -> Seq(Pieces)] /\ \A d \in Clients : Len(i_buffer[d]) <= InSize
      BY DEF TypeOK
    <3>6. i_buffer' \in [Clients -> Seq(Pieces)] BY <3>3, <3>4, <3>5
    <3>7. \A d \in Clients : i_buffer'[d] \in {i_buffer[d], b} BY <3>4, <3>5
    <3>8. QED BY <3>1, <3>3, <3>5, <3>6, <3>7
  <2>13. /\ is_ssl' \in [Clients -> {"unknown", "is", "not"}]
         /\ step' \in {"full", "read", "parse"} /\ running' \in Clients \cup {None}
    BY <1>11 DEF ReadSsl, TypeOK
  <2>14. QED BY <1>11, <2>12, <2>13 DEF TypeOK, ReadSsl
<1>12. ASSUME ReadEnd PROVE TypeOK'
  <2>1. fds' \in [Fds -> Clients \cup {None, Other}] BY <1>12, ReleaseType DEF ReadEnd
  <2>2. is_ssl' \in [Clients -> {"unknown", "is", "not"}]
    <3>1. PICK s \in Checked(running) : is_ssl' = [is_ssl EXCEPT ![running] = s]
      BY <1>12 DEF ReadEnd
    <3>2. running \in Clients BY <1>12 DEF ReadEnd, TypeOK
    <3>3. s \in {"unknown", "is", "not"} BY <3>1, <3>2 DEF Checked, TypeOK
    <3>4. QED BY <3>1, <3>3 DEF TypeOK
  <2>3. conn_map' \in [Fds -> Clients \cup {None}] BY <1>12 DEF ReadEnd, TypeOK
  <2>4. QED BY <1>12, <2>1, <2>2, <2>3 DEF TypeOK, ReadEnd
<1>13. CASE UNCHANGED vars
  BY <1>13 DEF TypeOK, vars
<1>14. QED
  BY <1>1, <1>2, <1>3, <1>4, <1>5, <1>6, <1>7, <1>8, <1>9, <1>10, <1>11, <1>12, <1>13
     DEF Next, Callback

-----------------------------------------------------------------------------
(* References and numbers *)

\* A step that adds no reference, and closes at most what nothing refers to, keeps
\* what is referred to open under its number.
LEMMA HeldKept ==
  ASSUME TypeOK, Held, Numbers, Referenced' \subseteq Referenced, fd' = fd,
         fds' = fds \/ Release
  PROVE  /\ Held'
         /\ \A f \in Fds : fds'[f] \in Clients => fd'[fds'[f]] = f
<1>1. ASSUME NEW c \in Referenced' PROVE fd'[c] \in Fds /\ fds'[fd'[c]] = c
  <2>1. fd[c] \in Fds /\ fds[fd[c]] = c BY <1>1 DEF Held
  <2>2. CASE fds' = fds BY <2>1, <2>2
  <2>3. CASE Release BY <1>1, <2>1, <2>3 DEF Release
  <2>4. QED BY <2>2, <2>3
<1>2. ASSUME NEW f \in Fds, fds'[f] \in Clients PROVE fd'[fds'[f]] = f
  <2>1. fds'[f] = fds[f] BY <1>2, SmallAssumption DEF Release
  <2>2. QED BY <1>2, <2>1 DEF Numbers
<1>3. QED BY <1>1, <1>2 DEF Held

\* The first connection of the backlog, and the others.
LEMMA BacklogHead ==
  ASSUME TypeOK, Numbers, backlog # << >>, backlog' = Tail(backlog)
  PROVE  /\ Head(backlog) \in Clients /\ fd[Head(backlog)] = None
         /\ link[Head(backlog)] # "new"
         /\ \A i \in 1 .. Len(backlog') :
              /\ backlog'[i] \in Clients /\ backlog'[i] # Head(backlog)
              /\ fd[backlog'[i]] = None /\ link[backlog'[i]] # "new"
         /\ \A i, j \in 1 .. Len(backlog') : backlog'[i] = backlog'[j] => i = j
<1>1. /\ Len(backlog) \in Nat /\ 1 \in 1 .. Len(backlog) /\ Head(backlog) = backlog[1]
      /\ backlog[1] \in Clients
      /\ backlog' \in Seq(Clients) /\ Len(backlog') = Len(backlog) - 1
      /\ \A i \in 1 .. Len(backlog) - 1 : i + 1 \in 1 .. Len(backlog) /\ backlog'[i] = backlog[i + 1]
  BY HeadTail DEF TypeOK
<1>2. /\ \A i, j \in 1 .. Len(backlog) : backlog[i] = backlog[j] => i = j
      /\ \A i \in 1 .. Len(backlog) : fd[backlog[i]] = None /\ link[backlog[i]] # "new"
  BY DEF Numbers
<1>3. \A i \in 1 .. Len(backlog') : backlog'[i] \in Clients BY <1>1, ElementOfSeq
<1>4. QED BY <1>1, <1>2, <1>3

LEMMA ReferencesStep ==
  ASSUME TypeOK, TypeOK', Held, Numbers, [Next]_vars
  PROVE  Held' /\ Numbers'
<1> USE DEF clients, service, conn
\* Steps that leave the backlog and the numbers alone.
<1>0. ASSUME Referenced' \subseteq Referenced, fds' = fds \/ Release,
             UNCHANGED <<fd, backlog>>,
             \A f \in Fds : conn_map'[f] \in {None, conn_map[f]},
             \A c \in Clients : link'[c] = "new" <=> link[c] = "new"
      PROVE  Held' /\ Numbers'
  <2>1. Held' /\ \A f \in Fds : fds'[f] \in Clients => fd'[fds'[f]] = f
    BY <1>0, HeldKept
  <2>2. \A f \in Fds : conn_map'[f] # None => fd'[conn_map'[f]] = f
    BY <1>0 DEF Numbers
  <2>3. \A i \in 1 .. Len(backlog) : backlog[i] \in Clients BY ElementOfSeq DEF TypeOK
  <2>4. QED BY <1>0, <2>1, <2>2, <2>3 DEF Numbers
<1>1. ASSUME NEW c \in Clients, Connect(c) PROVE Held' /\ Numbers'
  <2>1. Referenced' = Referenced BY <1>1 DEF Connect, Referenced
  <2>2. Held' /\ \A f \in Fds : fds'[f] \in Clients => fd'[fds'[f]] = f
    BY <1>1, <2>1, HeldKept DEF Connect
  <2>3. /\ Len(backlog') = Len(backlog) + 1 /\ backlog'[Len(backlog) + 1] = c
        /\ \A i \in 1 .. Len(backlog) : backlog'[i] = backlog[i] /\ backlog[i] \in Clients
        /\ Len(backlog) \in Nat
    BY <1>1, AppendProperties, LenProperties, ElementOfSeq DEF Connect, TypeOK
  <2>4. link[c] = "new" /\ fd[c] = None /\ fd' = fd /\ conn_map' = conn_map
        /\ link' = [link EXCEPT ![c] = "open"]
    BY <1>1 DEF Connect, Numbers
  <2>5. \A i \in 1 .. Len(backlog) : backlog[i] # c BY <2>4 DEF Numbers
  <2>6. \A i, j \in 1 .. Len(backlog') : backlog'[i] = backlog'[j] => i = j
    BY <2>3, <2>5 DEF Numbers
  <2>7. \A i \in 1 .. Len(backlog') : fd'[backlog'[i]] = None /\ link'[backlog'[i]] # "new"
    <3>1. TAKE i \in 1 .. Len(backlog')
    <3>2. CASE i = Len(backlog) + 1 BY <2>3, <2>4, <3>2 DEF TypeOK
    <3>3. CASE i # Len(backlog) + 1
      <4>1. i \in 1 .. Len(backlog) BY <2>3, <3>3
      <4>2. backlog'[i] = backlog[i] /\ backlog[i] \in Clients \ {c} BY <2>3, <2>5, <4>1
      <4>3. link'[backlog[i]] = link[backlog[i]] BY <2>4, <4>2 DEF TypeOK
      <4>4. QED BY <2>4, <4>1, <4>2, <4>3 DEF Numbers
    <3>4. QED BY <3>2, <3>3
  <2>8. \A d \in Clients : link'[d] = "new" => fd'[d] = None BY <2>4 DEF Numbers, TypeOK
  <2>9. QED BY <2>2, <2>4, <2>6, <2>7, <2>8 DEF Numbers
<1>2. ASSUME NEW c \in Clients, Send(c) PROVE Held' /\ Numbers'
  <2>1. Referenced' = Referenced BY <1>2 DEF Send, Referenced
  <2>2. QED BY <1>0, <1>2, <2>1 DEF Send
<1>3. ASSUME NEW c \in Clients, Finish(c) PROVE Held' /\ Numbers'
  <2>1. Referenced' = Referenced BY <1>3 DEF Finish, Referenced
  <2>2. \A d \in Clients : link'[d] = "new" <=> link[d] = "new"
    <3>1. PICK l \in {"shut", "reset"} : link' = [link EXCEPT ![c] = l] BY <1>3 DEF Finish
    <3>2. link[c] # "new" BY <1>3 DEF Finish
    <3>3. QED BY <3>1, <3>2 DEF TypeOK
  <2>3. QED BY <1>0, <1>3, <2>1, <2>2 DEF Finish
<1>4. ASSUME Accept PROVE Held' /\ Numbers'
  <2> DEFINE c == Head(backlog)
  <2>1. PICK f \in Fds :
          /\ fds[f] = None
          /\ fds' = [fds EXCEPT ![f] = c] /\ fd' = [fd EXCEPT ![c] = f]
          /\ conn_map' = [conn_map EXCEPT ![f] = IF @ = None THEN c ELSE @]
    BY <1>4 DEF Accept, Free
  <2>2. /\ c \in Clients /\ fd[c] = None /\ link[c] # "new"
        /\ \A i \in 1 .. Len(backlog') :
              /\ backlog'[i] \in Clients /\ backlog'[i] # c
              /\ fd[backlog'[i]] = None /\ link[backlog'[i]] # "new"
        /\ \A i, j \in 1 .. Len(backlog') : backlog'[i] = backlog'[j] => i = j
    BY <1>4, BacklogHead DEF Accept
  <2> HIDE DEF c
  <2>3. c \notin Referenced BY <2>2, SmallAssumption DEF Held
  <2>4. \A g \in Fds : conn_map[g] # None =>
          conn_map[g] \in Referenced /\ fd[conn_map[g]] = g /\ fds[g] = conn_map[g]
    <3>1. TAKE g \in Fds
    <3>2. HAVE conn_map[g] # None
    <3>3. conn_map[g] \in Clients BY <3>2 DEF TypeOK
    <3>4. conn_map[g] \in Referenced BY <3>3 DEF Referenced
    <3>5. fd[conn_map[g]] = g BY <3>2 DEF Numbers
    <3>6. QED BY <3>4, <3>5 DEF Held
  <2>5. conn_map[f] = None BY <2>1, <2>4
  <2>6. \A g \in Fds : conn_map'[g] = IF g = f THEN c ELSE conn_map[g]
    BY <2>1, <2>5 DEF TypeOK
  <2>7. Referenced' \subseteq Referenced \cup {c}
    <3>1. UNCHANGED <<running, deferred>> BY <1>4 DEF Accept
    <3>2. QED BY <2>6, <3>1 DEF Referenced
  <2>8. \A d \in Clients \ {c} : fd'[d] = fd[d] BY <2>1 DEF TypeOK
  <2>9. fd'[c] = f BY <2>1, <2>2 DEF TypeOK
  <2>10. \A g \in Fds : fds'[g] = IF g = f THEN c ELSE fds[g] BY <2>1 DEF TypeOK
  <2>11. Held'
    <3>1. ASSUME NEW d \in Referenced' PROVE fd'[d] \in Fds /\ fds'[fd'[d]] = d
      <4>1. CASE d = c BY <2>9, <2>10, <4>1
      <4>2. CASE d # c
        <5>1. d \in Referenced /\ d \in Clients BY <2>7, <3>1, <4>2 DEF Referenced
        <5>2. fd[d] \in Fds /\ fds[fd[d]] = d /\ d # None
          BY <5>1, SmallAssumption DEF Held
        <5>3. QED BY <2>1, <2>8, <2>10, <4>2, <5>1, <5>2
      <4>3. QED BY <4>1, <4>2
    <3>2. QED BY <3>1 DEF Held
  <2>12. \A g \in Fds : fds'[g] \in Clients => fd'[fds'[g]] = g
    <3>1. TAKE g \in Fds
    <3>2. CASE g = f BY <2>9, <2>10, <3>2
    <3>3. CASE g # f
      <4>1. fds[g] \in Clients => fd[fds[g]] = g BY DEF Numbers
      <4>2. fds[g] # c \/ fds[g] \notin Clients BY <2>2, <4>1, SmallAssumption
      <4>3. QED BY <2>8, <2>10, <3>3, <4>1, <4>2
    <3>4. QED BY <3>2, <3>3
  <2>13. \A g \in Fds : conn_map'[g] # None => fd'[conn_map'[g]] = g
    <3>1. TAKE g \in Fds
    <3>2. CASE g = f BY <2>6, <2>9, <3>2
    <3>3. CASE g # f
      <4>1. conn_map[g] # None => conn_map[g] \in Clients \ {c}
        BY <2>3, <2>4 DEF Referenced
      <4>2. QED BY <2>4, <2>6, <2>8, <3>3, <4>1
    <3>4. QED BY <3>2, <3>3
  <2>14. link' = link BY <1>4 DEF Accept
  <2>15. \A d \in Clients : link'[d] = "new" => fd'[d] = None
    BY <2>2, <2>8, <2>14 DEF Numbers
  <2>16. \A i \in 1 .. Len(backlog') : fd'[backlog'[i]] = None /\ link'[backlog'[i]] # "new"
    BY <2>2, <2>8, <2>14
  <2>17. QED BY <2>2, <2>11, <2>12, <2>13, <2>15, <2>16 DEF Numbers
<1>5. ASSUME AcceptFull PROVE Held' /\ Numbers'
  <2> DEFINE c == Head(backlog)
  <2>1. Referenced' = Referenced BY <1>5 DEF AcceptFull, Referenced
  <2>2. Held' /\ \A f \in Fds : fds'[f] \in Clients => fd'[fds'[f]] = f
    BY <1>5, <2>1, HeldKept DEF AcceptFull
  <2>3. /\ c \in Clients /\ fd[c] = None /\ link[c] # "new"
        /\ \A i \in 1 .. Len(backlog') :
              /\ backlog'[i] \in Clients /\ backlog'[i] # c
              /\ fd[backlog'[i]] = None /\ link[backlog'[i]] # "new"
        /\ \A i, j \in 1 .. Len(backlog') : backlog'[i] = backlog'[j] => i = j
    BY <1>5, BacklogHead DEF AcceptFull
  <2>4. UNCHANGED <<fd, conn_map>> /\ link' = [link EXCEPT ![c] = "refused"]
    BY <1>5 DEF AcceptFull
  <2> HIDE DEF c
  <2>5. \A d \in Clients : link'[d] = IF d = c THEN "refused" ELSE link[d]
    BY <2>4 DEF TypeOK
  <2>6. QED BY <2>2, <2>3, <2>4, <2>5 DEF Numbers
<1>6. ASSUME Resume PROVE Held' /\ Numbers'
  <2>1. Referenced' \subseteq Referenced BY <1>6 DEF Resume, Referenced
  <2>2. QED BY <1>0, <1>6, <2>1 DEF Resume
<1>7. ASSUME NEW c \in Clients, OnRead(c) PROVE Held' /\ Numbers'
  <2>1. Referenced' \subseteq Referenced BY <1>7 DEF OnRead, Referenced
  <2>2. QED BY <1>0, <1>7, <2>1 DEF OnRead
<1>8. ASSUME ParseHttpMessage PROVE Held' /\ Numbers'
  <2>1. PICK c \in Clients : \E ps \in Seq(Pieces) : \E k \in 0 .. Len(ps) :
          \E one \in Messages : \E m \in Messages :
            c = running /\ Outcome(c, ps, k, one, m)
    BY <1>8, ParseCases
  <2>2. PICK m \in Messages :
          \/ CallMethod([conn |-> c, pieces |-> m.pieces, order |-> FALSE])
          \/ UNCHANGED <<deferred>>
    BY <2>1 DEF Outcome
  <2>3. PICK l \in Letters : l.conn = c /\ l = [conn |-> c, pieces |-> m.pieces, order |-> FALSE]
    BY LetterOf
  <2>4. deferred' = deferred \/ deferred' = deferred \cup {l}
    BY <2>2, <2>3 DEF CallMethod
  <2>5. /\ UNCHANGED <<speaks, link, sent, backlog, inbox, fds, conn_map, reports, fd, is_ssl, session>>
        /\ running' = running \/ running' = None
    BY <1>8 DEF ParseHttpMessage
  <2>6. c \in Referenced BY <2>1 DEF Referenced
  <2>7. Referenced' \subseteq Referenced
    <3>1. ASSUME NEW d \in Referenced' PROVE d \in Referenced
      <4>1. CASE \E x \in deferred' : x.conn = d
        BY <2>3, <2>4, <2>6, <3>1, <4>1 DEF Referenced
      <4>2. CASE \E f \in Fds : conn_map'[f] = d
        BY <2>5, <3>1, <4>2 DEF Referenced
      <4>3. CASE running' = d
        BY <2>5, <3>1, <4>3, SmallAssumption DEF Referenced
      <4>4. QED BY <3>1, <4>1, <4>2, <4>3 DEF Referenced
    <3>2. QED BY <3>1
  <2>8. QED BY <1>0, <2>5, <2>7
<1>9. ASSUME ReadGateway PROVE Held' /\ Numbers'
  <2>1. PICK c \in Clients : c = running /\ \E y \in Seq(Pieces) : \E p \in Pieces : Reported(c, y, p)
    BY <1>9, GatewayCases
  <2>2. PICK p \in Pieces : \E y \in Seq(Pieces) : Reported(c, y, p) BY <2>1
  <2> DEFINE l == [conn |-> c, pieces |-> << p >>, order |-> TRUE]
  <2>3. l.conn = c /\ (deferred' = deferred \/ deferred' = deferred \cup {l})
    BY <2>2 DEF Reported
  <2> HIDE DEF l
  <2>4. c \in Referenced BY <2>1 DEF Referenced
  <2>5. running' = None /\ conn_map' = conn_map BY <1>9 DEF ReadGateway
  <2>6. Referenced' \subseteq Referenced
    BY <2>3, <2>4, <2>5, SmallAssumption DEF Referenced
  <2>7. QED BY <1>0, <1>9, <2>6 DEF ReadGateway
<1>10. ASSUME ReadPlain PROVE Held' /\ Numbers'
  <2>1. Referenced' = Referenced BY <1>10 DEF ReadPlain, Referenced
  <2>2. QED BY <1>0, <1>10, <2>1 DEF ReadPlain
<1>11. ASSUME ReadSsl PROVE Held' /\ Numbers'
  <2>1. /\ UNCHANGED <<clients, backlog, fds, conn_map, deferred, fd>>
        /\ running' = running \/ running' = None
    BY <1>11 DEF ReadSsl
  <2>2. Referenced' \subseteq Referenced BY <2>1, SmallAssumption DEF Referenced
  <2>3. QED BY <1>0, <2>1, <2>2
<1>12. ASSUME ReadEnd PROVE Held' /\ Numbers'
  <2>1. /\ running' = None /\ Release /\ UNCHANGED <<fd, backlog, deferred, link>>
        /\ conn_map' = [conn_map EXCEPT ![fd[running]] = None]
    BY <1>12 DEF ReadEnd
  <2>2. \A f \in Fds : conn_map'[f] \in {None, conn_map[f]} BY <2>1 DEF TypeOK
  <2>3. Referenced' \subseteq Referenced BY <2>1, <2>2, SmallAssumption DEF Referenced
  <2>4. QED BY <1>0, <2>1, <2>2, <2>3
<1>13. CASE UNCHANGED vars
  <2>1. Referenced' = Referenced BY <1>13 DEF vars, Referenced
  <2>2. QED BY <1>0, <1>13, <2>1 DEF vars
<1>14. QED
  BY <1>1, <1>2, <1>3, <1>4, <1>5, <1>6, <1>7, <1>8, <1>9, <1>10, <1>11, <1>12, <1>13
     DEF Next, Callback

-----------------------------------------------------------------------------
(* The input *)

\* The elements of a concatenation.
LEMMA CatElements ==
  ASSUME NEW q \in Seq(Pieces), NEW u \in Seq(Pieces), NEW w, w = q \o u
  PROVE  /\ \A i \in 1 .. Len(q) : q[i] = w[i]
         /\ \A i \in Len(q) + 1 .. Len(w) : u[i - Len(q)] = w[i]
OBVIOUS

\* Nothing is rejected among the first n pieces.
Clean(ps, n) == \A i \in 1 .. n : ps[i] # Rejected

\* A parser that does not fail takes all of its input ...
LEMMA ExecutedClean ==
  ASSUME NEW m \in Messages, NEW ps \in Seq(Pieces), NEW x \in Executed(m, ps), ~ x.failed
  PROVE  ~ m.failed /\ x.pieces = m.pieces \o ps /\ Clean(ps, Len(ps))
<1>1. ~ m.failed BY DEF Executed
<1>2. PICK n \in Accepted(ps) : \E done : x = [pieces    |-> m.pieces \o SubSeq(ps, 1, n),
                                               completed |-> done,
                                               failed    |-> n < Len(ps)]
  BY <1>1, Zenon DEF Executed
<1>3. x.pieces = m.pieces \o SubSeq(ps, 1, n) /\ x.failed = (n < Len(ps))
  <2>1. PICK done : x = [pieces    |-> m.pieces \o SubSeq(ps, 1, n),
                         completed |-> done,
                         failed    |-> n < Len(ps)]
    BY <1>2
  <2>2. QED BY <2>1
<1>4. n \in 0 .. Len(ps) /\ Len(ps) \in Nat
  BY <1>2, LenProperties DEF Accepted
<1>5. n = Len(ps)
  <2>1. ~ (n < Len(ps)) BY <1>3
  <2>2. QED BY <1>4, <2>1
<1>6. SubSeq(ps, 1, n) = ps
  BY <1>5, SubSeqFull
<1>7. Clean(ps, Len(ps)) BY <1>2, <1>5 DEF Accepted, Clean
<1>8. QED BY <1>1, <1>3, <1>6, <1>7

\* ... and parse takes as much as its caller cuts.
LEMMA ParsedClean ==
  ASSUME NEW m \in Messages, NEW buf \in Seq(Pieces), NEW k \in 0 .. Len(buf),
         NEW one \in Executed(m, SubSeq(buf, 1, k)), NEW both \in Parsed(buf, k, one),
         ~ both.failed
  PROVE  /\ ~ m.failed
         /\ CutParsed(k, one, buf) \in 0 .. Len(buf)
         /\ both.pieces = m.pieces \o SubSeq(buf, 1, CutParsed(k, one, buf))
         /\ Clean(buf, CutParsed(k, one, buf))
<1> DEFINE s1 == SubSeq(buf, 1, k)
           s2 == SubSeq(buf, k + 1, Len(buf))
<1>1. /\ s1 \in Seq(Pieces) /\ s2 \in Seq(Pieces) /\ Len(buf) \in Nat /\ s1 \o s2 = buf
      /\ Len(s1) = k /\ Len(s2) = Len(buf) - k
  BY SplitAt, LenProperties
<1>2. SubSeq(buf, 1, Len(buf)) = buf BY SubSeqFull
<1>3. one \in Messages BY ParsedType
<1> HIDE DEF s1, s2
<1>4. /\ \A i \in 1 .. k : s1[i] = buf[i]
      /\ \A i \in k + 1 .. Len(buf) : s2[i - k] = buf[i]
  <2>1. /\ \A i \in 1 .. Len(s1) : s1[i] = buf[i]
        /\ \A i \in Len(s1) + 1 .. Len(buf) : s2[i - Len(s1)] = buf[i]
    <3>1. buf = s1 \o s2 BY <1>1
    <3>2. QED BY <1>1, <3>1, CatElements
  <2>2. Len(s1) = k BY <1>1
  <2>3. QED BY <2>1, <2>2
<1>5. CASE one.completed \/ one.failed
  <2>1. both = one BY <1>5 DEF Parsed
  <2>2. ~ m.failed /\ one.pieces = m.pieces \o s1 BY <1>1, <2>1, ExecutedClean DEF s1
  <2>3. Clean(s1, Len(s1)) BY <1>1, <2>1, ExecutedClean DEF s1
  <2>4. CutParsed(k, one, buf) = k BY <1>5, <2>1 DEF CutParsed
  <2>5. Clean(buf, k) BY <1>1, <1>4, <2>3 DEF Clean
  <2>6. QED BY <1>1, <2>1, <2>2, <2>4, <2>5 DEF s1
<1>6. CASE ~ one.completed /\ ~ one.failed
  <2>1. both.pieces = one.pieces \o s2
    BY <1>1, <1>3, <1>6, ExecutedClean DEF Parsed, s2
  <2>2. ~ m.failed /\ one.pieces = m.pieces \o s1 BY <1>1, <1>6, ExecutedClean DEF s1
  <2>3. (m.pieces \o s1) \o s2 = m.pieces \o (s1 \o s2)
    <3>1. m.pieces \in Seq(Pieces) BY DEF Messages
    <3>2. \A q, a, b \in Seq(Pieces) : Cat(Cat(q, a), b) = Cat(q, Cat(a, b))
      BY CatFacts
    <3>3. s1 \in Seq(Pieces) /\ s2 \in Seq(Pieces) BY <1>1
    <3>4. QED BY <3>1, <3>2, <3>3, Zenon DEF Cat
  <2>4. CutParsed(k, one, buf) = Len(buf) BY <1>6 DEF CutParsed
  <2>5. both.pieces = m.pieces \o SubSeq(buf, 1, Len(buf)) BY <1>1, <1>2, <2>1, <2>2, <2>3
  <2>6. Len(buf) \in 0 .. Len(buf) BY <1>1
  <2>7. Clean(s1, Len(s1)) BY <1>1, <1>6, ExecutedClean DEF s1
  <2>8. Clean(s2, Len(s2)) BY <1>1, <1>3, <1>6, ExecutedClean DEF Parsed, s2
  <2>9. ASSUME NEW i \in 1 .. Len(buf) PROVE buf[i] # Rejected
    <3>1. CASE i <= k
      <4>1. i \in 1 .. k BY <1>1, <3>1
      <4>2. QED BY <1>1, <1>4, <2>7, <4>1 DEF Clean
    <3>2. CASE ~ (i <= k)
      <4>1. PICK j : j = i - k OBVIOUS
      <4>2. j \in 1 .. Len(s2) /\ i \in k + 1 .. Len(buf) BY <1>1, <3>2, <4>1
      <4>3. s2[j] = buf[i] BY <1>4, <4>1, <4>2
      <4>4. QED BY <2>8, <4>2, <4>3 DEF Clean
    <3>3. QED BY <3>1, <3>2
  <2>10. Clean(buf, Len(buf)) BY <2>9 DEF Clean
  <2>11. QED BY <2>2, <2>4, <2>5, <2>6, <2>10
<1>7. QED BY <1>5, <1>6

\* Regrouping: what is added at the end, moves from the fourth part to the third, or
\* from the third part to the second or to the first.
LEMMA RegroupSend ==
  ASSUME NEW a \in Seq(Pieces), NEW b \in Seq(Pieces), NEW d \in Seq(Pieces),
         NEW e \in Seq(Pieces), NEW x \in Seq(Pieces)
  PROVE  Cat(Cat(Cat(Cat(a, b), d), e), x) = Cat(Cat(Cat(a, b), d), Cat(e, x))
<1>1. Cat(a, b) \in Seq(Pieces) BY CatFacts
<1>2. Cat(Cat(a, b), d) \in Seq(Pieces) BY <1>1, CatFacts
<1>3. QED BY <1>2, CatFacts

LEMMA RegroupRead ==
  ASSUME NEW a \in Seq(Pieces), NEW b \in Seq(Pieces), NEW d \in Seq(Pieces),
         NEW x \in Seq(Pieces), NEW y \in Seq(Pieces)
  PROVE  Cat(Cat(Cat(a, b), d), Cat(x, y)) = Cat(Cat(Cat(a, b), Cat(d, x)), y)
<1>1. Cat(a, b) \in Seq(Pieces) BY CatFacts
<1>2. Cat(Cat(a, b), d) \in Seq(Pieces) BY <1>1, CatFacts
<1>3. Cat(Cat(Cat(a, b), d), Cat(x, y)) = Cat(Cat(Cat(Cat(a, b), d), x), y)
  BY <1>2, CatFacts
<1>4. Cat(Cat(Cat(a, b), d), x) = Cat(Cat(a, b), Cat(d, x))
  BY <1>1, CatFacts
<1>5. QED BY <1>3, <1>4

LEMMA RegroupParse ==
  ASSUME NEW a \in Seq(Pieces), NEW b \in Seq(Pieces), NEW x \in Seq(Pieces),
         NEW y \in Seq(Pieces), NEW e \in Seq(Pieces)
  PROVE  /\ Cat(Cat(Cat(a, b), Cat(x, y)), e) = Cat(Cat(Cat(a, Cat(b, x)), y), e)
         /\ Cat(Cat(Cat(a, b), Cat(x, y)), e)
              = Cat(Cat(Cat(Cat(a, Cat(b, x)), << >>), y), e)
<1>1. Cat(a, b) \in Seq(Pieces) /\ Cat(b, x) \in Seq(Pieces) BY CatFacts
<1>2. Cat(a, Cat(b, x)) \in Seq(Pieces) BY <1>1, CatFacts
<1>3. Cat(Cat(a, Cat(b, x)), << >>) = Cat(a, Cat(b, x)) BY <1>2, CatFacts
<1>4. Cat(Cat(a, b), Cat(x, y)) = Cat(Cat(Cat(a, b), x), y) BY <1>1, CatFacts
<1>5. Cat(Cat(a, b), x) = Cat(a, Cat(b, x)) BY CatFacts
<1>6. QED BY <1>3, <1>4, <1>5


\* The input of one plain client, of which nothing is in a session.
Whole(s, h, q, b, i) == s = Cat(Cat(Cat(h, q), b), i)

LEMMA WholeSend ==
  ASSUME NEW s \in Seq(Pieces), NEW h \in Seq(Pieces), NEW q \in Seq(Pieces),
         NEW b \in Seq(Pieces), NEW e \in Seq(Pieces), NEW x \in Seq(Pieces),
         Whole(s, h, q, b, e)
  PROVE  Whole(Cat(s, x), h, q, b, Cat(e, x))
BY RegroupSend DEF Whole

LEMMA WholeParse ==
  ASSUME NEW s \in Seq(Pieces), NEW h \in Seq(Pieces), NEW q \in Seq(Pieces),
         NEW x \in Seq(Pieces), NEW y \in Seq(Pieces), NEW e \in Seq(Pieces),
         Whole(s, h, q, Cat(x, y), e)
  PROVE  /\ Whole(s, h, Cat(q, x), y, e)
         /\ Whole(s, Cat(h, Cat(q, x)), << >>, y, e)
<1>1. /\ Cat(Cat(Cat(h, q), Cat(x, y)), e) = Cat(Cat(Cat(h, Cat(q, x)), y), e)
      /\ Cat(Cat(Cat(h, q), Cat(x, y)), e) = Cat(Cat(Cat(Cat(h, Cat(q, x)), << >>), y), e)
  BY RegroupParse
<1>2. QED BY <1>1 DEF Whole

\* Nothing has been taken for a report, rejected, or thrown away by the kernel.
Intact(c) ==
  reports[c] = << >> /\ link[c] \notin {"reset", "refused"} /\ ~ message[c].failed

PlainOf(c) ==
  speaks[c] = "plain" /\ Intact(c) =>
    Whole(sent[c], called[c], message[c].pieces, i_buffer[c], inbox[c])

LEMMA PlainParts ==
  ASSUME TypeOK, OwnSessions
  PROVE  PlainAccounted <=> \A c \in Clients : PlainOf(c)
<1>1. ASSUME NEW c \in Clients, speaks[c] = "plain", Intact(c)
      PROVE  OnItsWay(c) = Cat(Cat(Cat(called[c], message[c].pieces), i_buffer[c]), inbox[c])
  <2>1. session[c] = << >> /\ ~ message[c].failed BY <1>1 DEF OwnSessions, Intact
  <2>2. /\ called[c] \in Seq(Pieces) /\ message[c].pieces \in Seq(Pieces)
        /\ i_buffer[c] \in Seq(Pieces)
    BY DEF TypeOK, Messages
  <2>3. PICK x : x = Cat(Cat(called[c], message[c].pieces), i_buffer[c]) OBVIOUS
  <2>4. x \in Seq(Pieces) BY <2>2, <2>3, CatFacts
  <2>5. Cat(x, << >>) = x BY <2>4, CatFacts
  <2>6. OnItsWay(c) = Cat(Cat(x, << >>), inbox[c]) BY <2>1, <2>3 DEF OnItsWay, Cat
  <2>7. QED BY <2>3, <2>5, <2>6
<1>2. QED BY <1>1 DEF PlainAccounted, PlainOf, Intact, Whole

Same(c) == /\ sent'[c] = sent[c] /\ inbox'[c] = inbox[c] /\ i_buffer'[c] = i_buffer[c]
           /\ message'[c] = message[c] /\ called'[c] = called[c] /\ link'[c] = link[c]
           /\ reports'[c] = reports[c]

\* It is enough to look at a client whose variables change.
LEMMA OneChanges ==
  ASSUME \A e \in Clients : PlainOf(e), speaks' = speaks,
         NEW c \in Clients, PlainOf(c)', \A e \in Clients \ {c} : Same(e)
  PROVE  \A e \in Clients : PlainOf(e)'
<1>1. ASSUME NEW e \in Clients, e # c PROVE PlainOf(e)'
  BY <1>1 DEF Same, PlainOf, Intact
<1>2. QED BY <1>1

\* What a plain client sends, ReadPlain reads or the parser takes stays accounted for.
LEMMA PlainStep ==
  ASSUME TypeOK, Numbers, \A c \in Clients : PlainOf(c), [Next]_vars
  PROVE  \A c \in Clients : PlainOf(c)'
<1> USE DEF clients, service, conn
<1>0. CASE UNCHANGED <<speaks, sent, inbox, i_buffer, message, called, reports, link>>
  BY <1>0 DEF PlainOf, Intact
<1>1. ASSUME NEW c \in Clients
      PROVE  /\ sent[c] \in Seq(Pieces) /\ inbox[c] \in Seq(Pieces)
             /\ i_buffer[c] \in Seq(Pieces) /\ called[c] \in Seq(Pieces)
             /\ message[c] \in Messages /\ message[c].pieces \in Seq(Pieces)
  BY DEF TypeOK, Messages
<1>2. ASSUME NEW c \in Clients, Connect(c) PROVE \A e \in Clients : PlainOf(e)'
  <2>1. link' = [link EXCEPT ![c] = "open"] /\ link[c] = "new"
        /\ UNCHANGED <<speaks, sent, inbox, i_buffer, message, called, reports>>
    BY <1>2 DEF Connect
  <2>2. link'[c] = "open" /\ \A e \in Clients \ {c} : Same(e) BY <2>1 DEF Same, TypeOK
  <2>3. PlainOf(c)' BY <2>1, <2>2 DEF PlainOf, Intact
  <2>4. QED BY <2>1, <2>2, <2>3, OneChanges
<1>3. ASSUME NEW c \in Clients, Send(c) PROVE \A e \in Clients : PlainOf(e)'
  <2>1. PICK p \in NextPieces(c) : /\ sent' = [sent EXCEPT ![c] = Append(@, p)]
                                   /\ inbox' = [inbox EXCEPT ![c] = Append(@, p)]
    BY <1>3 DEF Send
  <2>2. p \in Pieces BY NextPiecesType
  <2>3. /\ sent'[c] = Append(sent[c], p) /\ inbox'[c] = Append(inbox[c], p)
        /\ UNCHANGED <<speaks, i_buffer, message, called, reports, link>>
    BY <1>3, <2>1 DEF Send, TypeOK
  <2>4. \A e \in Clients \ {c} : Same(e) BY <2>1, <2>3 DEF Same, TypeOK
  <2>5. PICK x \in Seq(Pieces) : /\ Append(sent[c], p) = Cat(sent[c], x)
                                 /\ Append(inbox[c], p) = Cat(inbox[c], x)
    BY <1>1, <2>2, CatAppend
  <2>6. Whole(sent[c], called[c], message[c].pieces, i_buffer[c], inbox[c]) =>
          Whole(Cat(sent[c], x), called[c], message[c].pieces, i_buffer[c], Cat(inbox[c], x))
    BY <1>1, WholeSend, Zenon
  <2>7. PlainOf(c)' BY <2>3, <2>5, <2>6 DEF PlainOf, Intact
  <2>8. QED BY <2>3, <2>4, <2>7, OneChanges
<1>4. ASSUME NEW c \in Clients, Finish(c) PROVE \A e \in Clients : PlainOf(e)'
  <2>1. UNCHANGED <<speaks, sent, i_buffer, message, called, reports>> /\ link[c] = "open"
    BY <1>4 DEF Finish
  <2>2. \/ link' = [link EXCEPT ![c] = "shut"] /\ inbox' = inbox
        \/ link' = [link EXCEPT ![c] = "reset"] /\ inbox' = [inbox EXCEPT ![c] = << >>]
    BY <1>4 DEF Finish
  <2>3. \A e \in Clients \ {c} : Same(e) BY <2>1, <2>2 DEF Same, TypeOK
  <2>4. CASE link' = [link EXCEPT ![c] = "shut"] /\ inbox' = inbox
    <3>1. link'[c] = "shut" BY <2>4 DEF TypeOK
    <3>2. PlainOf(c)' BY <2>1, <2>4, <3>1 DEF PlainOf, Intact
    <3>3. QED BY <2>1, <2>3, <3>2, OneChanges
  <2>5. CASE link' = [link EXCEPT ![c] = "reset"]
    <3>1. link'[c] = "reset" BY <2>5 DEF TypeOK
    <3>2. PlainOf(c)' BY <3>1 DEF PlainOf, Intact
    <3>3. QED BY <2>1, <2>3, <3>2, OneChanges
  <2>6. QED BY <2>2, <2>4, <2>5
<1>5. ASSUME AcceptFull PROVE \A e \in Clients : PlainOf(e)'
  <2>1. PICK c \in Clients : c = Head(backlog) BY <1>5, HeadTail DEF TypeOK, AcceptFull
  <2>2. /\ link' = [link EXCEPT ![c] = "refused"] /\ inbox' = [inbox EXCEPT ![c] = << >>]
        /\ UNCHANGED <<speaks, sent, i_buffer, message, called, reports>>
    BY <1>5, <2>1 DEF AcceptFull
  <2>3. link'[c] = "refused" /\ \A e \in Clients \ {c} : Same(e) BY <2>2 DEF Same, TypeOK
  <2>4. PlainOf(c)' BY <2>3 DEF PlainOf, Intact
  <2>5. QED BY <2>2, <2>3, <2>4, OneChanges
<1>6. ASSUME ParseHttpMessage PROVE \A e \in Clients : PlainOf(e)'
  <2>1. PICK c \in Clients : \E ps \in Seq(Pieces) : \E k \in 0 .. Len(ps) :
          \E one \in Messages : \E m \in Messages :
           /\ ps \in Seen(c, i_buffer[c])
           /\ one \in Executed(message[c], SubSeq(ps, 1, k)) /\ m \in Parsed(ps, k, one)
           /\ Outcome(c, ps, k, one, m)
    BY <1>6, ParseCases
  <2>2. PICK ps \in Seq(Pieces) : \E k \in 0 .. Len(ps) :
          \E one \in Messages : \E m \in Messages :
           /\ ps \in Seen(c, i_buffer[c])
           /\ one \in Executed(message[c], SubSeq(ps, 1, k)) /\ m \in Parsed(ps, k, one)
           /\ Outcome(c, ps, k, one, m)
    BY <2>1
  <2>3. PICK k \in 0 .. Len(ps) :
          \E one \in Messages : \E m \in Messages :
           /\ ps \in Seen(c, i_buffer[c])
           /\ one \in Executed(message[c], SubSeq(ps, 1, k)) /\ m \in Parsed(ps, k, one)
           /\ Outcome(c, ps, k, one, m)
    BY <2>2
  <2>4. PICK one \in Messages, m \in Messages :
           /\ ps \in Seen(c, i_buffer[c])
           /\ one \in Executed(message[c], SubSeq(ps, 1, k)) /\ m \in Parsed(ps, k, one)
           /\ Outcome(c, ps, k, one, m)
    BY <2>3
  <2>5. UNCHANGED <<speaks, link, sent, inbox, reports>> BY <1>6 DEF ParseHttpMessage
  <2>6. \A e \in Clients \ {c} : Same(e) BY <2>4, <2>5 DEF Same, Outcome, TypeOK
  <2>7. CASE speaks[c] # "plain" \/ reports[c] # << >>
    <3>1. PlainOf(c)' BY <2>5, <2>7 DEF PlainOf, Intact
    <3>2. QED BY <2>5, <2>6, <3>1, OneChanges
  <2>8. CASE m.failed
    <3>1. message'[c] = m BY <2>4, <2>8 DEF Outcome, TypeOK
    <3>2. PlainOf(c)' BY <2>8, <3>1 DEF PlainOf, Intact
    <3>3. QED BY <2>5, <2>6, <3>2, OneChanges
  <2>9. CASE speaks[c] = "plain" /\ reports[c] = << >> /\ ~ m.failed
    <3>1. ps = i_buffer[c] BY <2>4, <2>9 DEF Seen
    <3>2. PICK n, x, y : /\ n = CutParsed(k, one, ps)
                         /\ x = SubSeq(ps, 1, n) /\ y = SubSeq(ps, n + 1, Len(ps))
      OBVIOUS
    <3>3. ~ message[c].failed /\ n \in 0 .. Len(ps) /\ m.pieces = message[c].pieces \o x
      <4>1. PICK old \in Messages : old = message[c] BY <1>1
      <4>2. one \in Executed(old, SubSeq(ps, 1, k)) BY <2>4, <4>1
      <4>3. /\ ~ old.failed /\ CutParsed(k, one, ps) \in 0 .. Len(ps)
            /\ m.pieces = old.pieces \o SubSeq(ps, 1, CutParsed(k, one, ps))
        BY <2>2, <2>3, <2>4, <2>9, <4>1, <4>2, ParsedClean
      <4>4. QED BY <3>2, <4>1, <4>3
    <3>4. x \in Seq(Pieces) /\ y \in Seq(Pieces) /\ i_buffer[c] = Cat(x, y)
      <4>1. /\ SubSeq(ps, 1, n) \in Seq(Pieces) /\ SubSeq(ps, n + 1, Len(ps)) \in Seq(Pieces)
            /\ SubSeq(ps, 1, n) \o SubSeq(ps, n + 1, Len(ps)) = ps
        BY <2>2, <3>3, SplitAt
      <4>2. QED BY <3>1, <3>2, <4>1 DEF Cat
    <3>5. m.pieces = Cat(message[c].pieces, x) BY <3>3 DEF Cat
    <3>6. i_buffer'[c] = y BY <2>4, <2>9, <3>1, <3>2 DEF Outcome, TypeOK
    <3>7. Intact(c)' => Intact(c) BY <2>5, <3>3 DEF Intact
    <3>8. \/ message'[c] = NewMessage /\ called'[c] = Cat(called[c], m.pieces)
          \/ message'[c] = m /\ called'[c] = called[c]
      BY <2>4 DEF Outcome, TypeOK, Cat
    <3>9. Whole(sent[c], called[c], message[c].pieces, Cat(x, y), inbox[c]) =>
            /\ Whole(sent[c], called[c], Cat(message[c].pieces, x), y, inbox[c])
            /\ Whole(sent[c], Cat(called[c], Cat(message[c].pieces, x)), << >>, y, inbox[c])
      BY <1>1, <3>4, WholeParse, Zenon
    <3>10. NewMessage.pieces = << >> BY DEF NewMessage
    <3>11. PlainOf(c)'
      BY <2>5, <2>9, <3>4, <3>5, <3>6, <3>7, <3>8, <3>9, <3>10 DEF PlainOf
    <3>12. QED BY <2>5, <2>6, <3>11, OneChanges
  <2>10. QED BY <2>7, <2>8, <2>9
<1>7. ASSUME ReadGateway PROVE \A e \in Clients : PlainOf(e)'
  <2>1. PICK c \in Clients : \E y \in Seq(Pieces) : \E p \in Pieces : Reported(c, y, p)
    BY <1>7, GatewayCases
  <2>2. PICK y \in Seq(Pieces), p \in Pieces : Reported(c, y, p) BY <2>1
  <2>3. UNCHANGED <<speaks, link, sent, called, message>> BY <1>7 DEF ReadGateway
  <2>4. reports[c] \in Seq(Pieces) BY DEF TypeOK
  <2>5. Append(reports[c], p) # << >> BY <2>4, AppendProperties
  <2>6. reports'[c] = Append(reports[c], p) BY <2>2 DEF Reported, TypeOK
  <2>7. PlainOf(c)' BY <2>5, <2>6 DEF PlainOf, Intact
  <2>8. \A e \in Clients \ {c} : Same(e) BY <2>2, <2>3 DEF Reported, Same, TypeOK
  <2>9. QED BY <2>3, <2>7, <2>8, OneChanges
<1>8. ASSUME ReadPlain PROVE \A e \in Clients : PlainOf(e)'
  <2>1. PICK c \in Clients : c = running BY <1>8 DEF ReadPlain, TypeOK
  <2>2. PICK n : /\ n = Taken(c)
                 /\ i_buffer' = [i_buffer EXCEPT ![c] = @ \o SubSeq(inbox[c], 1, n)]
                 /\ inbox' = [inbox EXCEPT ![c] = SubSeq(inbox[c], n + 1, Len(inbox[c]))]
                 /\ UNCHANGED <<speaks, sent, message, called, reports, link>>
    BY <1>8, <2>1 DEF ReadPlain
  <2>3. n \in 0 .. Len(inbox[c]) BY <2>2, ReadSize
  <2>4. PICK x, y : x = SubSeq(inbox[c], 1, n) /\ y = SubSeq(inbox[c], n + 1, Len(inbox[c]))
    OBVIOUS
  <2>5. x \in Seq(Pieces) /\ y \in Seq(Pieces) /\ inbox[c] = Cat(x, y)
    BY <1>1, <2>3, <2>4, SplitAt DEF Cat
  <2>6. i_buffer'[c] = Cat(i_buffer[c], x) /\ inbox'[c] = y
    BY <2>2, <2>4 DEF Cat, TypeOK
  <2>7. \A e \in Clients \ {c} : Same(e) BY <2>2 DEF Same, TypeOK
  <2>8. Whole(sent[c], called[c], message[c].pieces, i_buffer[c], Cat(x, y)) =>
          Whole(sent[c], called[c], message[c].pieces, Cat(i_buffer[c], x), y)
    <3>1. PICK h, q, b \in Seq(Pieces) :
            h = called[c] /\ q = message[c].pieces /\ b = i_buffer[c]
      BY <1>1
    <3>2. Cat(Cat(Cat(h, q), b), Cat(x, y)) = Cat(Cat(Cat(h, q), Cat(b, x)), y)
      BY <2>5, <3>1, RegroupRead
    <3>3. QED BY <3>1, <3>2 DEF Whole
  <2>9. PlainOf(c)' BY <2>2, <2>5, <2>6, <2>8 DEF PlainOf, Intact
  <2>10. QED BY <2>2, <2>7, <2>9, OneChanges
<1>9. ASSUME ReadSsl PROVE \A e \in Clients : PlainOf(e)'
  <2>1. PICK c \in Clients : \E k \in 0 .. Len(inbox[c]) : \E n \in 0 .. Len(Given(c, k)) :
          c = running /\ Decrypted(c, k, n)
    BY <1>9, SslCases
  <2>2. UNCHANGED <<speaks, link, sent, called, reports, message>> /\ speaks[c] = "ssl"
    BY <1>9, <2>1 DEF ReadSsl
  <2>3. PlainOf(c)' BY <2>2 DEF PlainOf
  <2>4. \A e \in Clients \ {c} : Same(e) BY <2>1, <2>2 DEF Decrypted, Same, TypeOK
  <2>5. QED BY <2>2, <2>3, <2>4, OneChanges
<1>10. QED
  <2>1. CASE UNCHANGED vars BY <1>0, <2>1 DEF vars
  <2>2. CASE Accept BY <1>0, <2>2 DEF Accept
  <2>3. CASE Resume BY <1>0, <2>3 DEF Resume
  <2>4. ASSUME NEW c \in Clients, OnRead(c) PROVE \A e \in Clients : PlainOf(e)'
    BY <1>0, <2>4 DEF OnRead
  <2>5. CASE ReadEnd BY <1>0, <2>5 DEF ReadEnd
  <2>6. QED
    BY <1>2, <1>3, <1>4, <1>5, <1>6, <1>7, <1>8, <1>9, <2>1, <2>2, <2>3, <2>4, <2>5
       DEF Next, Callback

\* Only append_from_ssl puts anything into a session.
LEMMA SessionsStep ==
  ASSUME TypeOK, OwnSessions, [Next]_vars
  PROVE  OwnSessions'
<1> USE DEF clients, service, conn
<1>1. speaks' = speaks
  BY DEF Next, Callback, Connect, Send, Finish, Accept, AcceptFull, Resume, OnRead,
         ParseHttpMessage, ReadGateway, ReadPlain, ReadSsl, ReadEnd, vars
<1>2. CASE ReadSsl
  <2>1. PICK c \in Clients : \E k \in 0 .. Len(inbox[c]) : \E n \in 0 .. Len(Given(c, k)) :
          c = running /\ Decrypted(c, k, n)
    BY <1>2, SslCases
  <2>2. speaks[c] = "ssl" BY <1>2, <2>1 DEF ReadSsl
  <2>3. \A e \in Clients \ {c} : session'[e] = session[e] BY <2>1 DEF Decrypted, TypeOK
  <2>4. QED BY <1>1, <2>2, <2>3 DEF OwnSessions
<1>3. CASE session' = session BY <1>1, <1>3 DEF OwnSessions
<1>4. CASE ~ ReadSsl
  <2>1. session' = session
    BY <1>4 DEF Next, Callback, Connect, Send, Finish, Accept, AcceptFull, Resume, OnRead,
                ParseHttpMessage, ReadGateway, ReadPlain, ReadEnd, vars
  <2>2. QED BY <1>3, <2>1
<1>5. QED BY <1>2, <1>4

-----------------------------------------------------------------------------
(* The input of which some is lost *)

\* What Subsequence says of each position.
At(at, w, s, i) == w[i] = s[at[i]] /\ \A j \in 1 .. i - 1 : at[j] < at[i]

LEMMA SubsequenceAt ==
  ASSUME NEW w, NEW s
  PROVE  Subsequence(w, s) <=> \E at \in [1 .. Len(w) -> 1 .. Len(s)] : \A i \in 1 .. Len(w) : At(at, w, s, i)
BY DEF Subsequence, At

LEMMA SubsequenceSelf ==
  ASSUME NEW s \in Seq(Pieces)
  PROVE  Subsequence(s, s) /\ Subsequence(<< >>, s)
<1>1. Len(s) \in Nat BY LenProperties
<1>2. PICK id : id = [i \in 1 .. Len(s) |-> i] OBVIOUS
<1>3. id \in [1 .. Len(s) -> 1 .. Len(s)] /\ \A i \in 1 .. Len(s) : id[i] = i BY <1>2
<1>4. \A i \in 1 .. Len(s) : At(id, s, s, i) BY <1>1, <1>3 DEF At
<1>5. PICK no : no = [i \in {} |-> i] OBVIOUS
<1>6. Len(<< >>) = 0 /\ 1 .. 0 = {} OBVIOUS
<1>7. no \in [1 .. Len(<< >>) -> 1 .. Len(s)] /\ \A i \in 1 .. Len(<< >>) : At(no, << >>, s, i) BY <1>5, <1>6
<1>8. QED BY <1>3, <1>4, <1>7, SubsequenceAt

LEMMA SubsequenceTrans ==
  ASSUME NEW u \in Seq(Pieces), NEW w \in Seq(Pieces), NEW s \in Seq(Pieces),
         Subsequence(u, w), Subsequence(w, s)
  PROVE  Subsequence(u, s)
<1>1. PICK f \in [1 .. Len(u) -> 1 .. Len(w)] : \A i \in 1 .. Len(u) : At(f, u, w, i) BY SubsequenceAt
<1>2. PICK g \in [1 .. Len(w) -> 1 .. Len(s)] : \A i \in 1 .. Len(w) : At(g, w, s, i) BY SubsequenceAt
<1>3. Len(u) \in Nat /\ Len(w) \in Nat /\ Len(s) \in Nat BY LenProperties
<1>4. PICK h : h = [i \in 1 .. Len(u) |-> g[f[i]]] OBVIOUS
<1>5. h \in [1 .. Len(u) -> 1 .. Len(s)] BY <1>1, <1>2, <1>4
<1>6. ASSUME NEW i \in 1 .. Len(u) PROVE At(h, u, s, i)
  <2>1. f[i] \in 1 .. Len(w) /\ u[i] = w[f[i]] /\ h[i] = g[f[i]] BY <1>1, <1>4 DEF At
  <2>2. w[f[i]] = s[g[f[i]]] BY <1>2, <2>1 DEF At
  <2>3. ASSUME NEW j \in 1 .. i - 1 PROVE h[j] < h[i]
    <3>1. j \in 1 .. Len(u) BY <1>3
    <3>2. f[j] \in 1 .. Len(w) /\ h[j] = g[f[j]] /\ f[j] < f[i] BY <1>1, <1>4, <3>1 DEF At
    <3>3. f[j] \in 1 .. f[i] - 1 BY <1>3, <2>1, <3>2
    <3>4. g[f[j]] < g[f[i]] BY <1>2, <2>1, <3>3 DEF At
    <3>5. QED BY <2>1, <3>2, <3>4
  <2>4. QED BY <2>1, <2>2, <2>3 DEF At
<1>7. QED BY <1>5, <1>6, SubsequenceAt

LEMMA SubsequenceCat ==
  ASSUME NEW a \in Seq(Pieces), NEW b \in Seq(Pieces), NEW d \in Seq(Pieces), NEW e \in Seq(Pieces),
         Subsequence(a, b), Subsequence(d, e)
  PROVE  Subsequence(Cat(a, d), Cat(b, e))
<1>1. PICK f \in [1 .. Len(a) -> 1 .. Len(b)] : \A i \in 1 .. Len(a) : At(f, a, b, i) BY SubsequenceAt
<1>2. PICK g \in [1 .. Len(d) -> 1 .. Len(e)] : \A i \in 1 .. Len(d) : At(g, d, e, i) BY SubsequenceAt
<1>3. PICK la, lb, ld, le \in Nat : la = Len(a) /\ lb = Len(b) /\ ld = Len(d) /\ le = Len(e)
  BY LenProperties
<1>4. PICK v, w : v = Cat(a, d) /\ w = Cat(b, e) OBVIOUS
<1>5. /\ v \in Seq(Pieces) /\ Len(v) = la + ld
      /\ \A i \in 1 .. la : v[i] = a[i]
      /\ \A i \in la + 1 .. la + ld : v[i] = d[i - la]
  BY <1>3, <1>4 DEF Cat
<1>6. /\ w \in Seq(Pieces) /\ Len(w) = lb + le
      /\ \A i \in 1 .. lb : w[i] = b[i]
      /\ \A i \in lb + 1 .. lb + le : w[i] = e[i - lb]
  BY <1>3, <1>4 DEF Cat
<1>7. PICK h : h = [i \in 1 .. la + ld |-> IF i <= la THEN f[i] ELSE lb + g[i - la]] OBVIOUS
<1>8. ASSUME NEW i \in 1 .. la
      PROVE  h[i] = f[i] /\ f[i] \in 1 .. lb /\ v[i] = w[h[i]]
  <2>1. i \in 1 .. Len(a) /\ i \in 1 .. la + ld /\ i <= la BY <1>3
  <2>2. h[i] = f[i] BY <1>7, <2>1
  <2>3. f[i] \in 1 .. lb /\ a[i] = b[f[i]] BY <1>1, <1>3, <2>1 DEF At
  <2>4. v[i] = a[i] /\ w[f[i]] = b[f[i]] BY <1>5, <1>6, <2>3
  <2>5. QED BY <2>2, <2>3, <2>4
<1>9. ASSUME NEW i \in la + 1 .. la + ld
      PROVE  /\ i - la \in 1 .. ld /\ h[i] = lb + g[i - la] /\ g[i - la] \in 1 .. le
             /\ v[i] = w[h[i]]
  <2>1. PICK k : k = i - la OBVIOUS
  <2>2. k \in 1 .. ld /\ k \in 1 .. Len(d) /\ i \in 1 .. la + ld /\ ~ (i <= la) BY <1>3, <2>1
  <2>3. h[i] = lb + g[k] BY <1>7, <2>1, <2>2
  <2>4. g[k] \in 1 .. le /\ d[k] = e[g[k]] BY <1>2, <1>3, <2>2 DEF At
  <2>5. PICK m : m = lb + g[k] OBVIOUS
  <2>6. m \in lb + 1 .. lb + le /\ m - lb = g[k] BY <1>3, <2>4, <2>5
  <2>7. w[m] = e[g[k]] BY <1>6, <2>6
  <2>8. v[i] = d[k] BY <1>5, <2>1
  <2>9. QED BY <2>1, <2>2, <2>3, <2>4, <2>5, <2>7, <2>8
<1>10. ASSUME NEW i \in 1 .. la + ld PROVE i \in 1 .. la \/ i \in la + 1 .. la + ld
  BY <1>3
<1>11. h \in [1 .. la + ld -> 1 .. lb + le]
  <2>1. ASSUME NEW i \in 1 .. la + ld PROVE h[i] \in 1 .. lb + le
    <3>1. CASE i \in 1 .. la BY <1>3, <1>8, <3>1
    <3>2. CASE i \in la + 1 .. la + ld
      <4>1. h[i] = lb + g[i - la] /\ g[i - la] \in 1 .. le BY <1>9, <3>2
      <4>2. QED BY <1>3, <4>1
    <3>3. QED BY <1>10, <3>1, <3>2
  <2>2. QED BY <1>7, <2>1
<1>12. ASSUME NEW i \in 1 .. la + ld, NEW j \in 1 .. i - 1 PROVE h[j] < h[i]
  <2>1. CASE i \in 1 .. la
    <3>1. j \in 1 .. la /\ i \in 1 .. Len(a) BY <1>3, <2>1
    <3>2. f[j] < f[i] BY <1>1, <3>1 DEF At
    <3>3. QED BY <1>8, <2>1, <3>1, <3>2
  <2>2. CASE i \in la + 1 .. la + ld /\ j \in 1 .. la
    <3>1. h[i] = lb + g[i - la] /\ g[i - la] \in 1 .. le BY <1>9, <2>2
    <3>2. h[j] = f[j] /\ f[j] \in 1 .. lb BY <1>8, <2>2
    <3>3. QED BY <1>3, <3>1, <3>2
  <2>3. CASE i \in la + 1 .. la + ld /\ j \in la + 1 .. la + ld
    <3>1. PICK k, l : k = i - la /\ l = j - la OBVIOUS
    <3>2. k \in 1 .. Len(d) /\ l \in 1 .. k - 1 BY <1>3, <2>3, <3>1
    <3>3. g[l] < g[k] BY <1>2, <3>2 DEF At
    <3>4. h[i] = lb + g[k] /\ g[k] \in 1 .. le BY <1>9, <2>3, <3>1
    <3>5. h[j] = lb + g[l] /\ g[l] \in 1 .. le BY <1>9, <2>3, <3>1
    <3>6. QED BY <1>3, <3>3, <3>4, <3>5
  <2>4. j \in 1 .. la + ld BY <1>3
  <2>5. i \in 1 .. la \/ i \in la + 1 .. la + ld BY <1>10
  <2>6. j \in 1 .. la \/ j \in la + 1 .. la + ld BY <1>10, <2>4
  <2>7. QED BY <2>1, <2>2, <2>3, <2>5, <2>6
<1>13. \A i \in 1 .. la + ld : At(h, v, w, i)
  BY <1>8, <1>9, <1>10, <1>12 DEF At
<1>14. Subsequence(v, w) BY <1>5, <1>6, <1>11, <1>13, SubsequenceAt
<1>15. QED BY <1>4, <1>14

\* The input of one client, in all the places where it may be.
PartOf(s, h, q, b, v, e) == Subsequence(Cat(Cat(Cat(Cat(h, q), b), v), e), s)

LEMMA PartSend ==
  ASSUME NEW s \in Seq(Pieces), NEW h \in Seq(Pieces), NEW q \in Seq(Pieces), NEW b \in Seq(Pieces),
         NEW v \in Seq(Pieces), NEW e \in Seq(Pieces), NEW x \in Seq(Pieces), PartOf(s, h, q, b, v, e)
  PROVE  PartOf(Cat(s, x), h, q, b, v, Cat(e, x))
<1>1. PICK w : w = Cat(Cat(Cat(h, q), b), v) OBVIOUS
<1>2. w \in Seq(Pieces) BY <1>1, CatFacts
<1>3. Cat(w, e) \in Seq(Pieces) /\ Cat(Cat(w, e), x) = Cat(w, Cat(e, x)) BY <1>2, CatFacts
<1>4. Subsequence(Cat(w, e), s) BY <1>1 DEF PartOf
<1>5. Subsequence(x, x) BY SubsequenceSelf
<1>6. Subsequence(Cat(Cat(w, e), x), Cat(s, x)) BY <1>3, <1>4, <1>5, SubsequenceCat
<1>7. QED BY <1>1, <1>3, <1>6 DEF PartOf

LEMMA PartParse ==
  ASSUME NEW s \in Seq(Pieces), NEW h \in Seq(Pieces), NEW q \in Seq(Pieces), NEW x \in Seq(Pieces),
         NEW y \in Seq(Pieces), NEW v \in Seq(Pieces), NEW e \in Seq(Pieces),
         PartOf(s, h, q, Cat(x, y), v, e)
  PROVE  /\ PartOf(s, h, Cat(q, x), y, v, e)
         /\ PartOf(s, Cat(h, Cat(q, x)), << >>, y, v, e)
<1>1. /\ Cat(Cat(Cat(h, q), Cat(x, y)), v) = Cat(Cat(Cat(h, Cat(q, x)), y), v)
      /\ Cat(Cat(Cat(h, q), Cat(x, y)), v) = Cat(Cat(Cat(Cat(h, Cat(q, x)), << >>), y), v)
  BY RegroupParse
<1>2. QED BY <1>1 DEF PartOf

LEMMA PartRead ==
  ASSUME NEW s \in Seq(Pieces), NEW h \in Seq(Pieces), NEW q \in Seq(Pieces), NEW b \in Seq(Pieces),
         NEW x \in Seq(Pieces), NEW y \in Seq(Pieces), PartOf(s, h, q, b, << >>, Cat(x, y))
  PROVE  PartOf(s, h, q, Cat(b, x), << >>, y)
<1>1. PICK a : a = Cat(h, q) OBVIOUS
<1>2. a \in Seq(Pieces) BY <1>1, CatFacts
<1>3. Cat(a, b) \in Seq(Pieces) /\ Cat(b, x) \in Seq(Pieces) BY <1>2, CatFacts
<1>4. Cat(a, Cat(b, x)) \in Seq(Pieces) BY <1>2, <1>3, CatFacts
<1>5. Cat(Cat(a, b), << >>) = Cat(a, b) /\ Cat(Cat(a, Cat(b, x)), << >>) = Cat(a, Cat(b, x))
  BY <1>3, <1>4, CatFacts
<1>6. Cat(Cat(a, b), Cat(x, y)) = Cat(Cat(a, Cat(b, x)), y) BY <1>1, RegroupRead
<1>7. QED BY <1>1, <1>5, <1>6 DEF PartOf

\* A session takes x in and gives u out, to the buffer or to nobody.
LEMMA PartSsl ==
  ASSUME NEW s \in Seq(Pieces), NEW h \in Seq(Pieces), NEW q \in Seq(Pieces), NEW b \in Seq(Pieces),
         NEW v \in Seq(Pieces), NEW x \in Seq(Pieces), NEW y \in Seq(Pieces),
         NEW u \in Seq(Pieces), NEW z \in Seq(Pieces), Cat(v, x) = Cat(u, z),
         PartOf(s, h, q, b, v, Cat(x, y))
  PROVE  PartOf(s, h, q, Cat(b, u), z, y) /\ PartOf(s, h, q, b, z, y)
<1>1. PICK a : a = Cat(h, q) OBVIOUS
<1>2. PICK w : w = Cat(a, b) OBVIOUS
<1>3. a \in Seq(Pieces) BY <1>1, CatFacts
<1>4. w \in Seq(Pieces) BY <1>2, <1>3, CatFacts
<1>5. Cat(w, v) \in Seq(Pieces) /\ Cat(w, u) \in Seq(Pieces) /\ Cat(w, z) \in Seq(Pieces) BY <1>4, CatFacts
<1>6. Cat(Cat(w, v), Cat(x, y)) = Cat(Cat(Cat(w, v), x), y) BY <1>5, CatFacts
<1>7. Cat(Cat(w, v), x) = Cat(w, Cat(v, x)) BY <1>4, CatFacts
<1>8. Cat(w, Cat(u, z)) = Cat(Cat(w, u), z) BY <1>4, CatFacts
<1>9. Cat(w, u) = Cat(a, Cat(b, u)) BY <1>2, <1>3, CatFacts
<1>10. Cat(Cat(w, v), Cat(x, y)) = Cat(Cat(Cat(w, u), z), y) BY <1>6, <1>7, <1>8
<1>11. Subsequence(Cat(Cat(Cat(w, u), z), y), s) BY <1>1, <1>2, <1>10 DEF PartOf
<1>12. PartOf(s, h, q, Cat(b, u), z, y) BY <1>1, <1>9, <1>11 DEF PartOf
<1>13. PartOf(s, h, q, b, z, y)
  <2>1. << >> \in Seq(Pieces) OBVIOUS
  <2>2. Subsequence(w, w) /\ Subsequence(<< >>, u) /\ Subsequence(z, z) /\ Subsequence(y, y)
    BY <1>4, SubsequenceSelf
  <2>3. Subsequence(Cat(w, << >>), Cat(w, u)) BY <1>4, <2>1, <2>2, SubsequenceCat
  <2>4. Subsequence(w, Cat(w, u)) BY <1>4, <2>3, CatFacts
  <2>5. Subsequence(Cat(w, z), Cat(Cat(w, u), z)) BY <1>4, <1>5, <2>2, <2>4, SubsequenceCat
  <2>6. Cat(Cat(w, u), z) \in Seq(Pieces) BY <1>5, CatFacts
  <2>7. Subsequence(Cat(Cat(w, z), y), Cat(Cat(Cat(w, u), z), y)) BY <1>5, <2>2, <2>5, <2>6, SubsequenceCat
  <2>8. Cat(Cat(w, z), y) \in Seq(Pieces) /\ Cat(Cat(Cat(w, u), z), y) \in Seq(Pieces)
    BY <1>5, <2>6, CatFacts
  <2>9. Subsequence(Cat(Cat(w, z), y), s) BY <1>11, <2>7, <2>8, SubsequenceTrans
  <2>10. QED BY <1>1, <1>2, <2>9 DEF PartOf
<1>14. QED BY <1>12, <1>13

\* What is lost leaves the rest in its order.
LEMMA PartLess ==
  ASSUME NEW s \in Seq(Pieces), NEW h \in Seq(Pieces), NEW q \in Seq(Pieces), NEW b \in Seq(Pieces),
         NEW v \in Seq(Pieces), NEW e \in Seq(Pieces), PartOf(s, h, q, b, v, e),
         NEW q1 \in Seq(Pieces), NEW b1 \in Seq(Pieces), NEW v1 \in Seq(Pieces), NEW e1 \in Seq(Pieces),
         Subsequence(q1, q), Subsequence(b1, b), Subsequence(v1, v), Subsequence(e1, e)
  PROVE  PartOf(s, h, q1, b1, v1, e1)
<1>1. PICK hq, hqb, hqbv, all : /\ hq = Cat(h, q) /\ hqb = Cat(hq, b) /\ hqbv = Cat(hqb, v)
                                /\ all = Cat(hqbv, e)
  OBVIOUS
<1>2. PICK hq1, hqb1, hqbv1, all1 : /\ hq1 = Cat(h, q1) /\ hqb1 = Cat(hq1, b1) /\ hqbv1 = Cat(hqb1, v1)
                                    /\ all1 = Cat(hqbv1, e1)
  OBVIOUS
<1>3. hq \in Seq(Pieces) /\ hq1 \in Seq(Pieces) BY <1>1, <1>2, CatFacts
<1>4. hqb \in Seq(Pieces) /\ hqb1 \in Seq(Pieces) BY <1>1, <1>2, <1>3, CatFacts
<1>5. hqbv \in Seq(Pieces) /\ hqbv1 \in Seq(Pieces) BY <1>1, <1>2, <1>4, CatFacts
<1>6. all \in Seq(Pieces) /\ all1 \in Seq(Pieces) BY <1>1, <1>2, <1>5, CatFacts
<1>7. Subsequence(h, h) BY SubsequenceSelf
<1>8. Subsequence(hq1, hq) BY <1>1, <1>2, <1>7, SubsequenceCat
<1>9. Subsequence(hqb1, hqb) BY <1>1, <1>2, <1>3, <1>8, SubsequenceCat
<1>10. Subsequence(hqbv1, hqbv) BY <1>1, <1>2, <1>4, <1>9, SubsequenceCat
<1>11. Subsequence(all1, all) BY <1>1, <1>2, <1>5, <1>10, SubsequenceCat
<1>12. Subsequence(all, s) BY <1>1 DEF PartOf
<1>13. Subsequence(all1, s) BY <1>6, <1>11, <1>12, SubsequenceTrans
<1>14. QED BY <1>2, <1>13 DEF PartOf

LEMMA SuffixLess ==
  ASSUME NEW x \in Seq(Pieces), NEW y \in Seq(Pieces)
  PROVE  Subsequence(y, Cat(x, y))
<1>1. << >> \in Seq(Pieces) OBVIOUS
<1>2. Subsequence(<< >>, x) /\ Subsequence(y, y) BY SubsequenceSelf
<1>3. Subsequence(Cat(<< >>, y), Cat(x, y)) BY <1>1, <1>2, SubsequenceCat
<1>4. QED BY <1>3, CatFacts

\* SmartService reads x, deals with the first piece of its buffer and drops the rest.
LEMMA PartReport ==
  ASSUME NEW s \in Seq(Pieces), NEW r \in Seq(Pieces), NEW b \in Seq(Pieces), NEW x \in Seq(Pieces),
         NEW y \in Seq(Pieces), NEW p \in Pieces, NEW z \in Seq(Pieces), Cat(b, x) = Cat(<< p >>, z),
         PartOf(s, r, << >>, b, << >>, Cat(x, y))
  PROVE  PartOf(s, Append(r, p), << >>, << >>, << >>, y)
<1>1. << >> \in Seq(Pieces) /\ << p >> \in Seq(Pieces) OBVIOUS
<1>2. PartOf(s, r, << >>, Cat(<< p >>, z), << >>, y) BY <1>1, PartRead
<1>3. PartOf(s, Cat(r, Cat(<< >>, << p >>)), << >>, z, << >>, y) BY <1>1, <1>2, PartParse
<1>4. Cat(<< >>, << p >>) = << p >> BY <1>1, CatFacts
<1>5. Append(r, p) = Cat(r, << p >>) /\ Cat(r, << p >>) \in Seq(Pieces) BY <1>1, CatAppend, CatFacts
<1>6. PartOf(s, Append(r, p), << >>, z, << >>, y) BY <1>3, <1>4, <1>5
<1>7. Subsequence(<< >>, << >>) /\ Subsequence(<< >>, z) /\ Subsequence(y, y)
  BY <1>1, SubsequenceSelf
<1>8. QED BY <1>1, <1>5, <1>6, <1>7, PartLess

\* The parser takes nothing for a piece that it would not take without the noise.
LEMMA SeenClean ==
  ASSUME NEW c, NEW q \in Seq(Pieces), NEW ps \in Seen(c, q), NEW n \in 0 .. Len(ps), Clean(ps, n)
  PROVE  SubSeq(ps, 1, n) = SubSeq(q, 1, n)
<1>1. ps \in Seq(Pieces) /\ Len(ps) = Len(q) /\ Len(q) \in Nat BY SeenType, LenProperties
<1>2. ASSUME NEW i \in 1 .. n PROVE ps[i] = q[i]
  <2>1. ps = q \/ \E k : ps = [j \in 1 .. Len(q) |-> IF j <= k THEN q[j] ELSE Rejected] BY DEF Seen
  <2>2. i \in 1 .. Len(q) /\ ps[i] # Rejected BY <1>1 DEF Clean
  <2>3. QED BY <2>1, <2>2
<1>3. /\ SubSeq(ps, 1, n) = [i \in 1 .. n |-> ps[i]] /\ SubSeq(q, 1, n) = [i \in 1 .. n |-> q[i]]
  BY <1>1
<1>4. QED BY <1>2, <1>3

\* A connection that is not known to speak SSL has nothing in a session.
Kinds == \A c \in Clients : session[c] # << >> => is_ssl[c] = "is"

LEMMA KindsStep ==
  ASSUME TypeOK, Kinds, [Next]_vars
  PROVE  Kinds'
<1> USE DEF clients, service, conn
<1>1. CASE UNCHANGED <<session, is_ssl>> BY <1>1 DEF Kinds
<1>2. ASSUME ReadPlain PROVE Kinds'
  <2>1. PICK c \in Clients : c = running BY <1>2 DEF ReadPlain, TypeOK
  <2>2. /\ UNCHANGED session /\ "not" \in Checked(c)
        /\ is_ssl' = [is_ssl EXCEPT ![c] = "not"]
    BY <1>2, <2>1 DEF ReadPlain
  <2>3. is_ssl[c] # "is" BY <2>2 DEF Checked
  <2>4. session[c] = << >> BY <2>3 DEF Kinds
  <2>5. \A e \in Clients \ {c} : is_ssl'[e] = is_ssl[e] BY <2>2 DEF TypeOK
  <2>6. QED BY <2>2, <2>4, <2>5 DEF Kinds
<1>3. ASSUME ReadSsl PROVE Kinds'
  <2>1. PICK c \in Clients : c = running /\
          \E k \in 0 .. Len(inbox[c]) : \E n \in 0 .. Len(Given(c, k)) : Decrypted(c, k, n)
    BY <1>3, SslCases
  <2>2. is_ssl' = [is_ssl EXCEPT ![c] = "is"] BY <1>3, <2>1 DEF ReadSsl
  <2>3. \A e \in Clients \ {c} : session'[e] = session[e] /\ is_ssl'[e] = is_ssl[e]
    BY <2>1, <2>2 DEF Decrypted, TypeOK
  <2>4. is_ssl'[c] = "is" BY <2>2 DEF TypeOK
  <2>5. QED BY <2>3, <2>4 DEF Kinds
<1>4. ASSUME ReadEnd PROVE Kinds'
  <2>1. PICK c \in Clients : c = running BY <1>4 DEF ReadEnd, TypeOK
  <2>2. PICK s \in Checked(c) : is_ssl' = [is_ssl EXCEPT ![c] = s] BY <1>4, <2>1 DEF ReadEnd
  <2>3. UNCHANGED session BY <1>4 DEF ReadEnd
  <2>4. is_ssl[c] = "is" => s = "is" BY <2>2 DEF Checked
  <2>5. \A e \in Clients : is_ssl[e] = "is" => is_ssl'[e] = "is" BY <2>2, <2>4 DEF TypeOK
  <2>6. QED BY <2>3, <2>5 DEF Kinds
<1>5. QED
  <2>1. CASE UNCHANGED vars BY <1>1, <2>1 DEF vars
  <2>2. CASE Accept \/ AcceptFull \/ Resume BY <1>1, <2>2 DEF Accept, AcceptFull, Resume
  <2>3. CASE ParseHttpMessage \/ ReadGateway BY <1>1, <2>3 DEF ParseHttpMessage, ReadGateway
  <2>4. ASSUME NEW c \in Clients, Connect(c) \/ Send(c) \/ Finish(c) \/ OnRead(c) PROVE Kinds'
    BY <1>1, <2>4 DEF Connect, Send, Finish, OnRead
  <2>5. QED BY <1>2, <1>3, <1>4, <2>1, <2>2, <2>3, <2>4 DEF Next, Callback

\* What the parser has taken of a request that may still be called.
Pending(c) == IF message[c].failed THEN << >> ELSE message[c].pieces

\* The input of client c, and of one without a session what has been taken for reports.
Partly(c) == PartOf(sent[c], called[c], Pending(c), i_buffer[c], session[c], inbox[c])
Reportly(c) == speaks[c] # "ssl" => PartOf(sent[c], reports[c], << >>, i_buffer[c], << >>, inbox[c])
Kept(c) == Partly(c) /\ Reportly(c)

LEMMA PartlyIs ==
  ASSUME TypeOK
  PROVE  InputAccounted <=> \A c \in Clients : Kept(c)
<1>1. ASSUME NEW c \in Clients
      PROVE  Cat(Cat(Cat(Cat(reports[c], << >>), i_buffer[c]), << >>), inbox[c])
               = Cat(Cat(reports[c], i_buffer[c]), inbox[c])
  <2>1. reports[c] \in Seq(Pieces) /\ i_buffer[c] \in Seq(Pieces) BY DEF TypeOK
  <2>2. Cat(reports[c], << >>) = reports[c] BY <2>1, CatFacts
  <2>3. Cat(reports[c], i_buffer[c]) \in Seq(Pieces) BY <2>1, CatFacts
  <2>4. Cat(Cat(reports[c], i_buffer[c]), << >>) = Cat(reports[c], i_buffer[c]) BY <2>3, CatFacts
  <2>5. QED BY <2>2, <2>4
<1>2. ASSUME NEW c \in Clients
      PROVE  Reportly(c) <=>
               (speaks[c] # "ssl" => Subsequence(reports[c] \o i_buffer[c] \o inbox[c], sent[c]))
  <2>1. reports[c] \o i_buffer[c] \o inbox[c] = Cat(Cat(reports[c], i_buffer[c]), inbox[c]) BY DEF Cat
  <2>2. QED BY <1>1, <2>1 DEF Reportly, PartOf
<1>3. ASSUME NEW c \in Clients PROVE Partly(c) <=> Subsequence(OnItsWay(c), sent[c])
  BY DEF Partly, Pending, PartOf, OnItsWay, Cat
<1>4. QED BY <1>2, <1>3 DEF InputAccounted, Kept

AllSame(c) == Same(c) /\ session'[c] = session[c] /\ speaks'[c] = speaks[c]

\* It is enough to look at a client whose variables change.
LEMMA OnePartly ==
  ASSUME \A e \in Clients : Kept(e), NEW c \in Clients, Kept(c)', \A e \in Clients \ {c} : AllSame(e)
  PROVE  \A e \in Clients : Kept(e)'
<1>1. ASSUME NEW e \in Clients, e # c PROVE Kept(e)'
  BY <1>1 DEF AllSame, Same, Kept, Partly, Reportly, Pending
<1>2. QED BY <1>1

LEMMA PartlyTypes ==
  ASSUME TypeOK, NEW c \in Clients
  PROVE  /\ sent[c] \in Seq(Pieces) /\ inbox[c] \in Seq(Pieces) /\ session[c] \in Seq(Pieces)
         /\ i_buffer[c] \in Seq(Pieces) /\ called[c] \in Seq(Pieces) /\ reports[c] \in Seq(Pieces)
         /\ message[c] \in Messages /\ message[c].pieces \in Seq(Pieces) /\ Pending(c) \in Seq(Pieces)
         /\ << >> \in Seq(Pieces)
<1>1. << >> \in Seq(Pieces) OBVIOUS
<1>2. QED BY <1>1 DEF TypeOK, Messages, Pending

\* A client of which something is lost: of what the parser has, of the buffer, and of what
\* has not been read.
LEMMA Lost ==
  ASSUME TypeOK, \A e \in Clients : Kept(e), NEW c \in Clients,
         NEW q \in Seq(Pieces), NEW b \in Seq(Pieces), NEW i \in Seq(Pieces),
         Subsequence(q, Pending(c)), Subsequence(b, i_buffer[c]), Subsequence(i, inbox[c])
  PROVE  /\ PartOf(sent[c], called[c], q, b, session[c], i)
         /\ speaks[c] # "ssl" => PartOf(sent[c], reports[c], << >>, b, << >>, i)
<1>1. /\ sent[c] \in Seq(Pieces) /\ inbox[c] \in Seq(Pieces) /\ session[c] \in Seq(Pieces)
      /\ i_buffer[c] \in Seq(Pieces) /\ called[c] \in Seq(Pieces) /\ reports[c] \in Seq(Pieces)
      /\ Pending(c) \in Seq(Pieces) /\ << >> \in Seq(Pieces)
  BY PartlyTypes
<1>2. PICK s, h, r, p, u, v, e \in Seq(Pieces) :
        /\ s = sent[c] /\ h = called[c] /\ r = reports[c] /\ p = Pending(c)
        /\ u = i_buffer[c] /\ v = session[c] /\ e = inbox[c]
  BY <1>1
<1>3. Subsequence(v, v) /\ Subsequence(<< >>, << >>) BY <1>1, SubsequenceSelf
<1>4. PartOf(s, h, p, u, v, e) => PartOf(s, h, q, b, v, i)
  BY <1>2, <1>3, PartLess
<1>5. PartOf(s, r, << >>, u, << >>, e) => PartOf(s, r, << >>, b, << >>, i)
  BY <1>1, <1>2, <1>3, PartLess
<1>6. QED BY <1>2, <1>4, <1>5 DEF Kept, Partly, Reportly

\* What the parser takes leaves the rest of the input in its place.
LEMMA ParsePartly ==
  ASSUME TypeOK, \A e \in Clients : Kept(e), ParseHttpMessage
  PROVE  \A e \in Clients : Kept(e)'
<1> USE DEF clients, service, conn
<1>1. PICK c \in Clients : \E ps \in Seq(Pieces) : \E k \in 0 .. Len(ps) :
        \E one \in Messages : \E m \in Messages :
         /\ ps \in Seen(c, i_buffer[c]) /\ Len(ps) = Len(i_buffer[c])
         /\ one \in Executed(message[c], SubSeq(ps, 1, k)) /\ m \in Parsed(ps, k, one)
         /\ Outcome(c, ps, k, one, m)
  BY ParseCases
<1>2. PICK ps \in Seq(Pieces) : \E k \in 0 .. Len(ps) : \E one \in Messages : \E m \in Messages :
         /\ ps \in Seen(c, i_buffer[c]) /\ Len(ps) = Len(i_buffer[c])
         /\ one \in Executed(message[c], SubSeq(ps, 1, k)) /\ m \in Parsed(ps, k, one)
         /\ Outcome(c, ps, k, one, m)
  BY <1>1
<1>3. PICK k \in 0 .. Len(ps) : \E one \in Messages : \E m \in Messages :
         /\ ps \in Seen(c, i_buffer[c]) /\ Len(ps) = Len(i_buffer[c])
         /\ one \in Executed(message[c], SubSeq(ps, 1, k)) /\ m \in Parsed(ps, k, one)
         /\ Outcome(c, ps, k, one, m)
  BY <1>2
<1>4. PICK one \in Messages, m \in Messages :
         /\ ps \in Seen(c, i_buffer[c]) /\ Len(ps) = Len(i_buffer[c])
         /\ one \in Executed(message[c], SubSeq(ps, 1, k)) /\ m \in Parsed(ps, k, one)
         /\ Outcome(c, ps, k, one, m)
  BY <1>3
<1>5. /\ sent[c] \in Seq(Pieces) /\ inbox[c] \in Seq(Pieces) /\ session[c] \in Seq(Pieces)
      /\ i_buffer[c] \in Seq(Pieces) /\ called[c] \in Seq(Pieces)
      /\ message[c] \in Messages /\ message[c].pieces \in Seq(Pieces)
      /\ Pending(c) \in Seq(Pieces) /\ << >> \in Seq(Pieces)
  BY PartlyTypes
<1>6. UNCHANGED <<speaks, link, sent, inbox, session, reports>> BY DEF ParseHttpMessage
<1>7. \A e \in Clients \ {c} : AllSame(e) BY <1>4, <1>6 DEF AllSame, Same, Outcome, TypeOK
<1>8. CASE m.failed
  <2>1. message'[c] = m /\ called'[c] = called[c] /\ i_buffer'[c] = i_buffer[c]
    BY <1>4, <1>8 DEF Outcome, TypeOK
  <2>2. Pending(c)' = << >> BY <1>8, <2>1 DEF Pending
  <2>3. /\ Subsequence(<< >>, Pending(c)) /\ Subsequence(i_buffer[c], i_buffer[c])
        /\ Subsequence(inbox[c], inbox[c])
    BY <1>5, SubsequenceSelf
  <2>4. /\ PartOf(sent[c], called[c], << >>, i_buffer[c], session[c], inbox[c])
        /\ speaks[c] # "ssl" => PartOf(sent[c], reports[c], << >>, i_buffer[c], << >>, inbox[c])
    BY <1>5, <2>3, Lost
  <2>5. Kept(c)' BY <1>6, <2>1, <2>2, <2>4 DEF Kept, Partly, Reportly
  <2>6. QED BY <1>7, <2>5, OnePartly
<1>9. CASE ~ m.failed
  <2>1. PICK n, x, y : /\ n = CutParsed(k, one, ps)
                       /\ x = SubSeq(i_buffer[c], 1, n) /\ y = SubSeq(i_buffer[c], n + 1, Len(i_buffer[c]))
    OBVIOUS
  <2>2. /\ ~ message[c].failed /\ n \in 0 .. Len(ps) /\ m.pieces = message[c].pieces \o SubSeq(ps, 1, n)
        /\ Clean(ps, n)
    <3>1. PICK old \in Messages : old = message[c] BY <1>5
    <3>2. one \in Executed(old, SubSeq(ps, 1, k)) BY <1>4, <3>1
    <3>3. /\ ~ old.failed /\ CutParsed(k, one, ps) \in 0 .. Len(ps)
          /\ m.pieces = old.pieces \o SubSeq(ps, 1, CutParsed(k, one, ps))
          /\ Clean(ps, CutParsed(k, one, ps))
      BY <1>2, <1>3, <1>4, <1>9, <3>1, <3>2, ParsedClean
    <3>4. QED BY <2>1, <3>1, <3>3
  <2>3. SubSeq(ps, 1, n) = x
    <3>1. SubSeq(ps, 1, n) = SubSeq(i_buffer[c], 1, n) BY <1>4, <1>5, <2>2, SeenClean
    <3>2. QED BY <2>1, <3>1
  <2>4. x \in Seq(Pieces) /\ y \in Seq(Pieces) /\ i_buffer[c] = Cat(x, y)
    <3>1. n \in 0 .. Len(i_buffer[c]) BY <1>4, <2>2
    <3>2. /\ SubSeq(i_buffer[c], 1, n) \in Seq(Pieces)
          /\ SubSeq(i_buffer[c], n + 1, Len(i_buffer[c])) \in Seq(Pieces)
          /\ SubSeq(i_buffer[c], 1, n) \o SubSeq(i_buffer[c], n + 1, Len(i_buffer[c])) = i_buffer[c]
      BY <1>5, <3>1, SplitAt
    <3>3. QED BY <2>1, <3>2 DEF Cat
  <2>5. m.pieces = Cat(message[c].pieces, x) BY <2>2, <2>3 DEF Cat
  <2>6. i_buffer'[c] = y BY <1>4, <1>9, <2>1 DEF Outcome, TypeOK
  <2>7. Pending(c) = message[c].pieces BY <2>2 DEF Pending
  <2>8. \/ message'[c] = NewMessage /\ called'[c] = Cat(called[c], m.pieces)
        \/ message'[c] = m /\ called'[c] = called[c]
    BY <1>4 DEF Outcome, TypeOK, Cat
  <2>9. \/ Pending(c)' = << >> /\ called'[c] = Cat(called[c], Cat(message[c].pieces, x))
        \/ Pending(c)' = Cat(message[c].pieces, x) /\ called'[c] = called[c]
    <3>1. NewMessage.pieces = << >> BY DEF NewMessage
    <3>2. CASE message'[c] = NewMessage BY <2>5, <2>8, <3>1, <3>2 DEF Pending, NewMessage
    <3>3. CASE message'[c] = m /\ called'[c] = called[c] BY <1>9, <2>5, <3>3 DEF Pending
    <3>4. QED BY <2>8, <3>2, <3>3
  <2>10. /\ PartOf(sent[c], called[c], Cat(message[c].pieces, x), y, session[c], inbox[c])
         /\ PartOf(sent[c], Cat(called[c], Cat(message[c].pieces, x)), << >>, y, session[c], inbox[c])
    <3>1. PartOf(sent[c], called[c], message[c].pieces, Cat(x, y), session[c], inbox[c])
      BY <2>4, <2>7 DEF Kept, Partly
    <3>2. QED BY <1>5, <2>4, <3>1, PartParse, Zenon
  <2>11. Partly(c)' BY <1>6, <2>6, <2>9, <2>10 DEF Partly
  <2>12. Subsequence(y, i_buffer[c]) BY <2>4, SuffixLess
  <2>13. Subsequence(Pending(c), Pending(c)) /\ Subsequence(inbox[c], inbox[c]) BY <1>5, SubsequenceSelf
  <2>14. speaks[c] # "ssl" => PartOf(sent[c], reports[c], << >>, y, << >>, inbox[c])
    BY <1>5, <2>4, <2>12, <2>13, Lost
  <2>15. Reportly(c)' BY <1>6, <2>6, <2>14 DEF Reportly
  <2>16. Kept(c)' BY <2>11, <2>15 DEF Kept
  <2>17. QED BY <1>7, <2>16, OnePartly
<1>10. QED BY <1>8, <1>9

\* Of what SmartService reads, the first piece counts and the rest is lost.
LEMMA GatewayPartly ==
  ASSUME TypeOK, \A e \in Clients : Kept(e), ReadGateway
  PROVE  \A e \in Clients : Kept(e)'
<1> USE DEF clients, service, conn
<1>1. PICK c \in Clients : \E x \in Seq(Pieces) : \E y \in Seq(Pieces) : \E z \in Seq(Pieces) :
      \E p \in Pieces :
        /\ inbox[c] = Cat(x, y) /\ Cat(i_buffer[c], x) = Cat(<< p >>, z) /\ Reported(c, y, p)
  BY GatewayCases
<1>2. PICK x \in Seq(Pieces), y \in Seq(Pieces), z \in Seq(Pieces), p \in Pieces :
        /\ inbox[c] = Cat(x, y) /\ Cat(i_buffer[c], x) = Cat(<< p >>, z) /\ Reported(c, y, p)
  BY <1>1
<1>3. /\ sent[c] \in Seq(Pieces) /\ inbox[c] \in Seq(Pieces) /\ i_buffer[c] \in Seq(Pieces)
      /\ reports[c] \in Seq(Pieces) /\ Pending(c) \in Seq(Pieces) /\ << >> \in Seq(Pieces)
  BY PartlyTypes
<1>4. UNCHANGED <<speaks, link, sent, called, session, message>> BY DEF ReadGateway
<1>5. /\ inbox'[c] = y /\ i_buffer'[c] = << >> /\ reports'[c] = Append(reports[c], p)
      /\ \A e \in Clients \ {c} : AllSame(e)
  BY <1>2, <1>4 DEF Reported, AllSame, Same, TypeOK
<1>6. /\ Subsequence(Pending(c), Pending(c)) /\ Subsequence(<< >>, i_buffer[c])
      /\ Subsequence(y, inbox[c])
  BY <1>2, <1>3, SubsequenceSelf, SuffixLess
<1>7. PartOf(sent[c], called[c], Pending(c), << >>, session[c], y)
  BY <1>2, <1>3, <1>6, Lost
<1>8. Partly(c)'
  <2>1. Pending(c)' = Pending(c) BY <1>4 DEF Pending
  <2>2. QED BY <1>4, <1>5, <1>7, <2>1 DEF Partly
<1>9. PartOf(sent[c], reports[c], << >>, i_buffer[c], << >>, Cat(x, y)) =>
        PartOf(sent[c], Append(reports[c], p), << >>, << >>, << >>, y)
  <2>1. PICK s, r, b \in Seq(Pieces) : s = sent[c] /\ r = reports[c] /\ b = i_buffer[c] BY <1>3
  <2>2. Cat(b, x) = Cat(<< p >>, z) BY <1>2, <2>1
  <2>3. PartOf(s, r, << >>, b, << >>, Cat(x, y)) => PartOf(s, Append(r, p), << >>, << >>, << >>, y)
    BY <1>2, <2>1, <2>2, PartReport
  <2>4. QED BY <2>1, <2>3
<1>10. Reportly(c)' BY <1>2, <1>4, <1>5, <1>9 DEF Kept, Reportly
<1>11. Kept(c)' BY <1>8, <1>10 DEF Kept
<1>12. QED BY <1>5, <1>11, OnePartly

\* append_from_fd puts what it reads behind what is there.
LEMMA PlainPartly ==
  ASSUME TypeOK, Kinds, \A e \in Clients : Kept(e), ReadPlain
  PROVE  \A e \in Clients : Kept(e)'
<1> USE DEF clients, service, conn
<1>1. PICK c \in Clients : c = running BY DEF ReadPlain, TypeOK
<1>2. PICK n : /\ n = Taken(c)
               /\ i_buffer' = [i_buffer EXCEPT ![c] = @ \o SubSeq(inbox[c], 1, n)]
               /\ inbox' = [inbox EXCEPT ![c] = SubSeq(inbox[c], n + 1, Len(inbox[c]))]
               /\ UNCHANGED <<speaks, sent, session, message, called, reports, link>>
  BY <1>1 DEF ReadPlain
<1>3. n \in 0 .. Len(inbox[c]) BY <1>2, ReadSize
<1>4. PICK x, y : x = SubSeq(inbox[c], 1, n) /\ y = SubSeq(inbox[c], n + 1, Len(inbox[c]))
  OBVIOUS
<1>5. /\ sent[c] \in Seq(Pieces) /\ inbox[c] \in Seq(Pieces) /\ i_buffer[c] \in Seq(Pieces)
      /\ called[c] \in Seq(Pieces) /\ reports[c] \in Seq(Pieces) /\ Pending(c) \in Seq(Pieces)
      /\ << >> \in Seq(Pieces)
  BY PartlyTypes
<1>6. x \in Seq(Pieces) /\ y \in Seq(Pieces) /\ inbox[c] = Cat(x, y)
  BY <1>3, <1>4, <1>5, SplitAt DEF Cat
<1>7. i_buffer'[c] = Cat(i_buffer[c], x) /\ inbox'[c] = y
  BY <1>2, <1>4 DEF Cat, TypeOK
<1>8. \A e \in Clients \ {c} : AllSame(e) BY <1>2 DEF AllSame, Same, TypeOK
<1>9. session[c] = << >>
  <2>1. "not" \in Checked(c) BY <1>1 DEF ReadPlain
  <2>2. is_ssl[c] # "is" BY <2>1 DEF Checked
  <2>3. QED BY <2>2 DEF Kinds
<1>10. PICK s, h, r, q, b \in Seq(Pieces) :
         /\ s = sent[c] /\ h = called[c] /\ r = reports[c] /\ q = Pending(c) /\ b = i_buffer[c]
  BY <1>5
<1>11. PartOf(s, h, q, b, << >>, Cat(x, y)) => PartOf(s, h, q, Cat(b, x), << >>, y)
  BY <1>6, <1>10, PartRead, Zenon
<1>12. PartOf(s, r, << >>, b, << >>, Cat(x, y)) => PartOf(s, r, << >>, Cat(b, x), << >>, y)
  BY <1>5, <1>6, <1>10, PartRead, Zenon
<1>13. Pending(c)' = Pending(c) BY <1>2 DEF Pending
<1>14. Partly(c)' BY <1>2, <1>6, <1>7, <1>9, <1>10, <1>11, <1>13 DEF Kept, Partly
<1>15. Reportly(c)' BY <1>2, <1>6, <1>7, <1>10, <1>12 DEF Kept, Reportly
<1>16. Kept(c)' BY <1>14, <1>15 DEF Kept
<1>17. QED BY <1>8, <1>16, OnePartly

\* A session takes in and gives out in order.
LEMMA SslPartly ==
  ASSUME TypeOK, \A e \in Clients : Kept(e), ReadSsl
  PROVE  \A e \in Clients : Kept(e)'
<1> USE DEF clients, service, conn
<1>1. PICK c \in Clients : c = running /\
        \E k \in 0 .. Len(inbox[c]) : \E n \in 0 .. Len(Given(c, k)) : Decrypted(c, k, n)
  BY SslCases
<1>2. PICK k \in 0 .. Len(inbox[c]) : \E n \in 0 .. Len(Given(c, k)) : Decrypted(c, k, n)
  BY <1>1
<1>3. PICK n \in 0 .. Len(Given(c, k)) : Decrypted(c, k, n) BY <1>2
<1>4. UNCHANGED <<speaks, link, sent, called, message, reports>> /\ speaks[c] = "ssl"
  BY <1>1 DEF ReadSsl
<1>5. PICK x, y : x = SubSeq(inbox[c], 1, k) /\ y = SubSeq(inbox[c], k + 1, Len(inbox[c]))
  OBVIOUS
<1>6. /\ sent[c] \in Seq(Pieces) /\ inbox[c] \in Seq(Pieces) /\ session[c] \in Seq(Pieces)
      /\ i_buffer[c] \in Seq(Pieces) /\ called[c] \in Seq(Pieces) /\ Pending(c) \in Seq(Pieces)
  BY PartlyTypes
<1>7. x \in Seq(Pieces) /\ y \in Seq(Pieces) /\ inbox[c] = Cat(x, y)
  BY <1>2, <1>5, <1>6, SplitAt DEF Cat
<1>8. PICK w : w = Given(c, k) OBVIOUS
<1>9. w = Cat(session[c], x) /\ w \in Seq(Pieces) BY <1>5, <1>6, <1>7, <1>8, CatFacts DEF Given, Cat
<1>10. PICK u, z : u = SubSeq(w, 1, n) /\ z = SubSeq(w, n + 1, Len(w)) OBVIOUS
<1>11. u \in Seq(Pieces) /\ z \in Seq(Pieces) /\ w = Cat(u, z)
  <2>1. n \in 0 .. Len(w) BY <1>3, <1>8
  <2>2. /\ SubSeq(w, 1, n) \in Seq(Pieces) /\ SubSeq(w, n + 1, Len(w)) \in Seq(Pieces)
        /\ SubSeq(w, 1, n) \o SubSeq(w, n + 1, Len(w)) = w
    BY <1>9, <2>1, SplitAt
  <2>3. QED BY <1>10, <2>2 DEF Cat
<1>12. inbox'[c] = y /\ session'[c] = z BY <1>3, <1>5, <1>8, <1>10 DEF Decrypted, TypeOK
<1>13. i_buffer'[c] = Cat(i_buffer[c], u) \/ i_buffer'[c] = i_buffer[c]
  BY <1>3, <1>8, <1>10 DEF Decrypted, Cat, TypeOK
<1>14. \A e \in Clients \ {c} : AllSame(e) BY <1>3, <1>4 DEF Decrypted, AllSame, Same, TypeOK
<1>15. PartOf(sent[c], called[c], Pending(c), i_buffer[c], session[c], Cat(x, y)) =>
         /\ PartOf(sent[c], called[c], Pending(c), Cat(i_buffer[c], u), z, y)
         /\ PartOf(sent[c], called[c], Pending(c), i_buffer[c], z, y)
  <2>1. Cat(session[c], x) = Cat(u, z) BY <1>9, <1>11
  <2>2. QED BY <1>6, <1>7, <1>11, <2>1, PartSsl, Zenon
<1>16. Pending(c)' = Pending(c) BY <1>4 DEF Pending
<1>17. Partly(c)' BY <1>4, <1>7, <1>12, <1>13, <1>15, <1>16 DEF Kept, Partly
<1>18. Kept(c)' BY <1>4, <1>17 DEF Kept, Reportly
<1>19. QED BY <1>14, <1>18, OnePartly

\* Every step: the others send, or lose what the server has not read.
LEMMA PartlyStep ==
  ASSUME TypeOK, Kinds, \A c \in Clients : Kept(c), [Next]_vars
  PROVE  \A c \in Clients : Kept(c)'
<1> USE DEF clients, service, conn
<1>0. CASE UNCHANGED <<speaks, sent, inbox, session, i_buffer, message, called, reports>>
  BY <1>0 DEF Kept, Partly, Reportly, Pending
<1>1. ASSUME NEW c \in Clients, inbox' = [inbox EXCEPT ![c] = << >>],
             \A e \in Clients \ {c} : link'[e] = link[e],
             UNCHANGED <<speaks, sent, session, i_buffer, message, called, reports>>
      PROVE  \A e \in Clients : Kept(e)'
  <2>1. /\ inbox[c] \in Seq(Pieces) /\ i_buffer[c] \in Seq(Pieces)
        /\ Pending(c) \in Seq(Pieces) /\ << >> \in Seq(Pieces)
    BY PartlyTypes
  <2>2. inbox'[c] = << >> /\ \A e \in Clients \ {c} : AllSame(e) BY <1>1 DEF AllSame, Same, TypeOK
  <2>3. /\ Subsequence(Pending(c), Pending(c)) /\ Subsequence(i_buffer[c], i_buffer[c])
        /\ Subsequence(<< >>, inbox[c])
    BY <2>1, SubsequenceSelf
  <2>4. /\ PartOf(sent[c], called[c], Pending(c), i_buffer[c], session[c], << >>)
        /\ speaks[c] # "ssl" => PartOf(sent[c], reports[c], << >>, i_buffer[c], << >>, << >>)
    BY <2>1, <2>3, Lost
  <2>5. Pending(c)' = Pending(c) BY <1>1 DEF Pending
  <2>6. Kept(c)' BY <1>1, <2>2, <2>4, <2>5 DEF Kept, Partly, Reportly
  <2>7. QED BY <2>2, <2>6, OnePartly
<1>2. ASSUME NEW c \in Clients, Connect(c) PROVE \A e \in Clients : Kept(e)'
  BY <1>0, <1>2 DEF Connect
<1>3. ASSUME NEW c \in Clients, Finish(c) PROVE \A e \in Clients : Kept(e)'
  <2>1. UNCHANGED <<speaks, sent, session, i_buffer, message, called, reports>>
    BY <1>3 DEF Finish
  <2>2. \/ inbox' = inbox
        \/ link' = [link EXCEPT ![c] = "reset"] /\ inbox' = [inbox EXCEPT ![c] = << >>]
    BY <1>3 DEF Finish
  <2>3. CASE inbox' = inbox BY <1>0, <2>1, <2>3
  <2>4. CASE link' = [link EXCEPT ![c] = "reset"] /\ inbox' = [inbox EXCEPT ![c] = << >>]
    <3>1. \A e \in Clients \ {c} : link'[e] = link[e] BY <2>4 DEF TypeOK
    <3>2. QED BY <1>1, <2>1, <2>4, <3>1
  <2>5. QED BY <2>2, <2>3, <2>4
<1>4. ASSUME AcceptFull PROVE \A e \in Clients : Kept(e)'
  <2>1. PICK c \in Clients : c = Head(backlog) BY <1>4, HeadTail DEF TypeOK, AcceptFull
  <2>2. /\ link' = [link EXCEPT ![c] = "refused"] /\ inbox' = [inbox EXCEPT ![c] = << >>]
        /\ UNCHANGED <<speaks, sent, session, i_buffer, message, called, reports>>
    BY <1>4, <2>1 DEF AcceptFull
  <2>3. \A e \in Clients \ {c} : link'[e] = link[e] BY <2>2 DEF TypeOK
  <2>4. QED BY <1>1, <2>2, <2>3
<1>5. ASSUME NEW c \in Clients, Send(c) PROVE \A e \in Clients : Kept(e)'
  <2>1. PICK p \in NextPieces(c) : /\ sent' = [sent EXCEPT ![c] = Append(@, p)]
                                   /\ inbox' = [inbox EXCEPT ![c] = Append(@, p)]
    BY <1>5 DEF Send
  <2>2. p \in Pieces BY NextPiecesType
  <2>3. /\ sent'[c] = Append(sent[c], p) /\ inbox'[c] = Append(inbox[c], p)
        /\ UNCHANGED <<speaks, session, i_buffer, message, called, reports, link>>
    BY <1>5, <2>1 DEF Send, TypeOK
  <2>4. \A e \in Clients \ {c} : AllSame(e) BY <2>1, <2>3 DEF AllSame, Same, TypeOK
  <2>5. /\ sent[c] \in Seq(Pieces) /\ inbox[c] \in Seq(Pieces) /\ session[c] \in Seq(Pieces)
        /\ i_buffer[c] \in Seq(Pieces) /\ called[c] \in Seq(Pieces) /\ reports[c] \in Seq(Pieces)
        /\ Pending(c) \in Seq(Pieces) /\ << >> \in Seq(Pieces)
    BY PartlyTypes
  <2>6. PICK x \in Seq(Pieces) : /\ Append(sent[c], p) = Cat(sent[c], x)
                                 /\ Append(inbox[c], p) = Cat(inbox[c], x)
    BY <2>2, <2>5, CatAppend
  <2>7. PartOf(sent[c], called[c], Pending(c), i_buffer[c], session[c], inbox[c]) =>
          PartOf(Cat(sent[c], x), called[c], Pending(c), i_buffer[c], session[c], Cat(inbox[c], x))
    BY <2>5, <2>6, PartSend, Zenon
  <2>8. PartOf(sent[c], reports[c], << >>, i_buffer[c], << >>, inbox[c]) =>
          PartOf(Cat(sent[c], x), reports[c], << >>, i_buffer[c], << >>, Cat(inbox[c], x))
    BY <2>5, <2>6, PartSend, Zenon
  <2>9. Pending(c)' = Pending(c) BY <2>3 DEF Pending
  <2>10. Kept(c)' BY <2>3, <2>6, <2>7, <2>8, <2>9 DEF Kept, Partly, Reportly
  <2>11. QED BY <2>4, <2>10, OnePartly
<1>6. QED
  <2>1. CASE UNCHANGED vars BY <1>0, <2>1 DEF vars
  <2>2. CASE Accept BY <1>0, <2>2 DEF Accept
  <2>3. CASE Resume BY <1>0, <2>3 DEF Resume
  <2>4. ASSUME NEW c \in Clients, OnRead(c) PROVE \A e \in Clients : Kept(e)'
    BY <1>0, <2>4 DEF OnRead
  <2>5. CASE ReadEnd BY <1>0, <2>5 DEF ReadEnd
  <2>6. QED
    BY <1>2, <1>3, <1>4, <1>5, <2>1, <2>2, <2>3, <2>4, <2>5,
       ParsePartly, GatewayPartly, PlainPartly, SslPartly
       DEF Next, Callback

-----------------------------------------------------------------------------
(* The invariant holds initially *)

LEMMA InitInvariant ==
  ASSUME Init
  PROVE  IInv
<1>1. << >> \in Seq(Pieces) /\ << >> \in Seq(Replies) /\ << >> \in Seq(Clients)
      /\ Len(<< >>) = 0 /\ << >> \o << >> = << >>
  OBVIOUS
<1>2. NewMessage \in Messages /\ NewMessage.pieces = << >>
  BY <1>1 DEF NewMessage, Messages
<1>3. InSize \in Nat /\ OutSize \in Nat BY SmallAssumption
<1>4. Empty \in [Clients -> Seq(Pieces)] /\ Empty \in [Clients -> Seq(Replies)]
      /\ \A c \in Clients : Empty[c] = << >>
  BY <1>1 DEF Empty
<1>5. fds \in [Fds -> {None, Other}]
  BY DEF Init
<1>6. TypeOK
  <2>1. \A c \in Clients : Len(i_buffer[c]) <= InSize /\ Len(o_buffer[c]) <= OutSize
    BY <1>1, <1>3, <1>4 DEF Init
  <2>2. /\ speaks \in [Clients -> {"plain", "ssl", "gateway"}]
        /\ link \in [Clients -> {"new", "open", "shut", "reset", "refused"}]
        /\ conn_map \in [Fds -> Clients \cup {None}] /\ fd \in [Clients -> Fds \cup {None}]
        /\ running \in Clients \cup {None} /\ step \in {"full", "read", "parse"}
        /\ deferred \subseteq Letters
        /\ is_ssl \in [Clients -> {"unknown", "is", "not"}]
        /\ message \in [Clients -> Messages]
    BY <1>2 DEF Init
  <2>3. fds \in [Fds -> Clients \cup {None, Other}] BY <1>5
  <2>4. /\ backlog \in Seq(Clients) /\ sent \in [Clients -> Seq(Pieces)]
        /\ inbox \in [Clients -> Seq(Pieces)] /\ session \in [Clients -> Seq(Pieces)]
        /\ i_buffer \in [Clients -> Seq(Pieces)] /\ called \in [Clients -> Seq(Pieces)]
        /\ reports \in [Clients -> Seq(Pieces)]
        /\ received \in [Clients -> Seq(Replies)] /\ o_buffer \in [Clients -> Seq(Replies)]
    BY <1>1, <1>4 DEF Init
  <2>5. QED BY <2>1, <2>2, <2>3, <2>4 DEF TypeOK
<1>7. Referenced = {} BY SmallAssumption DEF Init, Referenced
<1>8. Held /\ Numbers
  <2>1. \A f \in Fds : fds[f] \notin Clients BY <1>5, SmallAssumption
  <2>2. \A f \in Fds : conn_map[f] = None BY DEF Init
  <2>3. Len(backlog) = 0 /\ \A c \in Clients : fd[c] = None BY <1>1 DEF Init
  <2>4. QED BY <1>7, <2>1, <2>2, <2>3 DEF Held, Numbers
<1>9. OwnReplies /\ RepliesToTheirClient /\ OwnSessions
  BY <1>1, <1>4 DEF Init, OwnReplies, RepliesToTheirClient, OwnSessions
<1>10. PlainAccounted
  <2>1. \A c \in Clients : /\ sent[c] = << >> /\ called[c] = << >> /\ i_buffer[c] = << >>
                           /\ session[c] = << >> /\ inbox[c] = << >>
                           /\ message[c].pieces = << >>
    BY <1>2, <1>4 DEF Init
  <2>2. QED BY <1>1, <2>1 DEF PlainAccounted, OnItsWay
<1>11. QED BY <1>6, <1>8, <1>9, <1>10 DEF IInv

-----------------------------------------------------------------------------
(* The theorems *)

\* The invariant. What the map, the callback that runs or a delayed answer refers to
\* is open under its own number, since IO::~IO is the only place that closes; and as long
\* as SmartService takes none of it, a buffer and the parser are all there is between what
\* a client sends in the clear and its methods.
THEOREM Invariance == Spec => []IInv
<1>1. Init => IInv BY InitInvariant
<1>2. IInv /\ [Next]_vars => IInv'
  <2>1. SUFFICES ASSUME IInv, [Next]_vars PROVE IInv' OBVIOUS
  <2>2. /\ TypeOK /\ Held /\ Numbers /\ OwnReplies /\ RepliesToTheirClient
        /\ OwnSessions /\ PlainAccounted
    BY <2>1 DEF IInv
  <2>3. RepliesOK BY <2>2 DEF RepliesOK, Own, TypeOK, OwnReplies, RepliesToTheirClient
  <2>4. RepliesOK' BY <2>1, <2>2, <2>3, RepliesStep
  <2>5. TypeOK' BY <2>1, <2>2, <2>4, TypeStep
  <2>6. Held' /\ Numbers' BY <2>1, <2>2, <2>5, ReferencesStep
  <2>7. OwnReplies' /\ RepliesToTheirClient'
    BY <2>4 DEF RepliesOK, Own, OwnReplies, RepliesToTheirClient
  <2>8. OwnSessions' BY <2>1, <2>2, SessionsStep
  <2>9. \A c \in Clients : PlainOf(c) BY <2>2, PlainParts
  <2>10. \A c \in Clients : PlainOf(c)' BY <2>1, <2>2, <2>9, PlainStep
  <2>11. (TypeOK /\ OwnSessions => (PlainAccounted <=> \A c \in Clients : PlainOf(c)))'
    BY PlainParts, PTL
  <2>12. PlainAccounted' BY <2>5, <2>8, <2>10, <2>11
  <2>13. QED BY <2>5, <2>6, <2>7, <2>8, <2>12 DEF IInv
<1>3. QED BY <1>1, <1>2, PTL DEF Spec

\* Every variable keeps its type, and neither buffer of a connection ever holds more
\* than its capacity, also when a session gives out more than one read.
THEOREM TypeCorrect == Spec => []TypeOK
<1>1. IInv => TypeOK BY DEF IInv
<1>2. QED BY <1>1, Invariance, PTL

\* An answer that a callback of Redis gives late, when its connection has left the map
\* and its number could have been given to another, reaches who asked or nobody.
THEOREM ReplyOwner == Spec => []RepliesToTheirClient
<1>1. IInv => RepliesToTheirClient BY DEF IInv
<1>2. QED BY <1>1, Invariance, PTL

\* As long as nothing of it has been taken for a report, what a client sends in the clear
\* is called once and in its order, wherever reads, the end of the ring and the parser cut
\* it, for any size of the buffer.
THEOREM Accounted == Spec => []PlainAccounted
<1>1. IInv => PlainAccounted BY DEF IInv
<1>2. QED BY <1>1, Invariance, PTL

\* SmartService drops what stands behind the report, or what it takes for one, and a
\* session may fail; what the methods are called with is all the same a part of what was
\* sent, in its order and without repetition, and so is what SmartService is given.
THEOREM AllAccounted == Spec => []InputAccounted
<1>1. Init => Kinds /\ \A c \in Clients : Kept(c)
  <2> SUFFICES ASSUME Init PROVE Kinds /\ \A c \in Clients : Kept(c)
    OBVIOUS
  <2>1. Kinds BY DEF Init, Kinds, Empty
  <2>2. << >> \in Seq(Pieces) OBVIOUS
  <2>3. Cat(<< >>, << >>) = << >> BY <2>2, CatFacts
  <2>4. Subsequence(<< >>, << >>) BY <2>2, SubsequenceSelf
  <2>5. PartOf(<< >>, << >>, << >>, << >>, << >>, << >>) BY <2>3, <2>4 DEF PartOf
  <2>6. ASSUME NEW c \in Clients PROVE Kept(c)
    <3>1. /\ sent[c] = << >> /\ called[c] = << >> /\ i_buffer[c] = << >>
          /\ session[c] = << >> /\ inbox[c] = << >> /\ reports[c] = << >> /\ message[c] = NewMessage
      BY DEF Init, Empty
    <3>2. Pending(c) = << >> BY <3>1 DEF Pending, NewMessage
    <3>3. QED BY <2>5, <3>1, <3>2 DEF Kept, Partly, Reportly
  <2>7. QED BY <2>1, <2>6
<1>2. IInv /\ Kinds /\ (\A c \in Clients : Kept(c)) /\ [Next]_vars
        => Kinds' /\ (\A c \in Clients : Kept(c))'
  <2> SUFFICES ASSUME IInv, Kinds, \A c \in Clients : Kept(c), [Next]_vars
               PROVE  Kinds' /\ \A c \in Clients : Kept(c)'
    OBVIOUS
  <2>1. TypeOK BY DEF IInv
  <2>2. QED BY <2>1, KindsStep, PartlyStep
<1>3. IInv /\ (\A c \in Clients : Kept(c)) => InputAccounted BY PartlyIs DEF IInv
<1>4. QED BY <1>1, <1>2, <1>3, Invariance, PTL DEF Spec

=============================================================================
